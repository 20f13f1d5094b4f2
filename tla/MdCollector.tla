----------------------------- MODULE MdCollector -----------------------------
(***************************************************************************)
(* src/collector/unix/md.rs, for one array: the attributes are read one    *)
(* after the other while the kernel goes on.                               *)
(*                                                                         *)
(* The array (external) has a state and a sync action, and members with    *)
(* flags.  As in the kernel, a sync runs on a running array only and has   *)
(* ended before the array stops, and an array has stopped before it goes.  *)
(* A disk that is no member has no flags here, and an array that is gone   *)
(* has no members.                                                         *)
(***************************************************************************)
EXTENDS Naturals, FiniteSets, LabelCache

CONSTANT Disks

ASSUME MdAssumption == IsFiniteSet(Disks)

VARIABLES arrayState, syncAction, flags,
          read,         \* attributes read so far in this tick
          toRead,       \* members listed and yet to be read
          tally,        \* members counted per bucket
          activities,   \* history: activities the array has had since the tick began
          steady        \* history: disks unchanged since the tick began

array == <<arrayState, syncAction, flags>>
reading == <<read, toRead, tally>>
mdHistory == <<activities, steady>>
mdVars == <<array, reading, mdHistory>>

Buckets == {"active", "failed", "spare"}
Absent == {"absent"}
Unread == [state |-> "unread", action |-> "unread"]
Gone == arrayState = "gone"

Members == {d \in Disks : flags[d] # Absent}

\* activity_state; "none" is None, for an array without a state to read.
Activity(state, action) ==
    CASE state = "inactive" -> "inactive"
      [] state # "inactive" /\ action = "recover" -> "recovering"
      [] state # "inactive" /\ action \in {"resync", "check", "repair", "reshape"} -> action
      [] state = "gone" /\ action \in {"idle", "none"} -> "none"
      [] OTHER -> "active"

\* Mistake: in_sync is asked first.
InSyncFirst(f) == IF "in_sync" \in f THEN "active" ELSE IF "faulty" \in f THEN "failed" ELSE "spare"

\* disk_bucket.
Bucket(f) == IF "faulty" \in f THEN "failed" ELSE IF "in_sync" \in f THEN "active" ELSE "spare"

MdInit == /\ arrayState \in {"clean", "inactive"}
          /\ syncAction = "idle"
          /\ flags = [d \in Disks |-> {"in_sync"}]
          /\ read = Unread
          /\ toRead = {}
          /\ tally = [b \in Buckets |-> 0]
          /\ activities = {}
          /\ steady = {}

-----------------------------------------------------------------------------
(* collect_array *)

\* arrays().
ListArray == /\ read = Unread
             /\ ~Gone
             /\ read' = [read EXCEPT !.state = "listed"]
             /\ activities' = {Activity(arrayState, syncAction)}
             /\ steady' = Disks
             /\ UNCHANGED <<array, toRead, tally>>

NoArray == read = Unread /\ Gone

ReadArrayState == /\ read.state = "listed"
                  /\ read' = [read EXCEPT !.state = arrayState]
                  /\ UNCHANGED <<array, toRead, tally, mdHistory>>

\* ... and last_sync_action; then members() lists the directory.
ReadSyncAction == /\ read.state \notin {"unread", "listed"}
                  /\ read.action = "unread"
                  /\ read' = [read EXCEPT !.action = IF Gone THEN "none" ELSE syncAction]
                  /\ toRead' = Members
                  /\ UNCHANGED <<array, tally, mdHistory>>

\* A member that is gone by now has no state to read and is not counted.
ReadMember(d) == /\ d \in toRead
                 /\ toRead' = toRead \ {d}
                 /\ tally' = IF d \in Members
                             THEN [tally EXCEPT ![Bucket(flags[d])] = @ + 1]
                             ELSE tally
                 /\ UNCHANGED <<array, read, mdHistory>>

MdRead == /\ read.action # "unread"
          /\ toRead = {}

\* The tick has its numbers and forgets what it read.
Forget == /\ read' = Unread
          /\ tally' = [b \in Buckets |-> 0]
          /\ activities' = {}
          /\ steady' = {}
          /\ UNCHANGED <<array, toRead>>

MdStates == {"active", "inactive", "recovering", "resync", "check", "repair", "reshape"}

MdMetrics ==
    LET current == Activity(read.state, read.action) IN
    {Metric("md_state", [device |-> "md0", state |-> s], IF s = current THEN 1 ELSE 0, "md0") :
        s \in {t \in MdStates : current # "none"}}
    \cup {Metric("md_disks", [device |-> "md0", state |-> b], tally[b], "md0") : b \in Buckets}

-----------------------------------------------------------------------------
(* The array *)

\* The history is kept while the array is read.
Observe(changed) == /\ activities' = IF read = Unread THEN {}
                                     ELSE activities \cup {Activity(arrayState', syncAction')}
                    /\ steady' = steady \ changed
                    /\ UNCHANGED reading

Running == arrayState = "clean"

SetFlags(d, f) == /\ flags' = [flags EXCEPT ![d] = f]
                  /\ UNCHANGED <<arrayState, syncAction>>
                  /\ Observe({d})

\* An error; in_sync may stay for a while.
Fail(d) == /\ Running
           /\ "in_sync" \in flags[d] /\ "faulty" \notin flags[d]
           /\ \E f \in {{"faulty"}, {"faulty", "in_sync"}} : SetFlags(d, f)

Remove(d) == "in_sync" \notin flags[d] /\ flags[d] # Absent /\ SetFlags(d, Absent)

Add(d) == ~Gone /\ flags[d] = Absent /\ SetFlags(d, {"spare"})

StartSync == /\ Running
             /\ syncAction = "idle"
             /\ syncAction' \in {"recover", "check"}
             /\ UNCHANGED <<arrayState, flags>>
             /\ Observe({})

\* A recovery makes the spares that are left part of the array.
EndSync == LET rebuilt == {d \in Disks : syncAction = "recover" /\ flags[d] = {"spare"}} IN
           /\ syncAction # "idle"
           /\ syncAction' = "idle"
           /\ flags' = [d \in Disks |-> IF d \in rebuilt THEN {"in_sync"} ELSE flags[d]]
           /\ UNCHANGED arrayState
           /\ Observe(rebuilt)

Stop == /\ Running
        /\ syncAction = "idle"
        /\ arrayState' = "inactive"
        /\ UNCHANGED <<syncAction, flags>>
        /\ Observe({})

Start == /\ arrayState = "inactive"
         /\ arrayState' = "clean"
         /\ UNCHANGED <<syncAction, flags>>
         /\ Observe({})

Disassemble == /\ arrayState = "inactive"
               /\ arrayState' = "gone"
               /\ flags' = [d \in Disks |-> Absent]
               /\ UNCHANGED syncAction
               /\ Observe(Disks)

Assemble == /\ Gone
            /\ arrayState' = "inactive"
            /\ flags' = [d \in Disks |-> {"in_sync"}]
            /\ UNCHANGED syncAction
            /\ Observe(Disks)

MdMoves == \/ StartSync \/ EndSync \/ Stop \/ Start \/ Disassemble \/ Assemble
           \/ \E d \in Disks : Fail(d) \/ Remove(d) \/ Add(d)
=============================================================================
