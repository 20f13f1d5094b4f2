------------------------------ MODULE Journal ------------------------------
(***************************************************************************)
(* The systemd journal as src/log/source/journald.rs uses it.  It is code  *)
(* outside the repository: an append-only log that other processes write   *)
(* at any moment, that journald shortens from its old end, and that wakes  *)
(* a reader through a file descriptor.                                     *)
(*                                                                         *)
(* Entry number e is the e-th entry ever written; journal[e] is its        *)
(* LogEntry::approx_size.  Entries below `first' have been vacuumed.  An   *)
(* entry number stands for the opaque cursor of that entry.                *)
(***************************************************************************)
EXTENDS Naturals, Sequences

CONSTANTS Sizes,        \* the approximate sizes an entry may have
          MaxEntries,   \* bound: entries ever written
          MaxVacuumed   \* bound: entries ever removed from the old end

ASSUME JournalAssumption == /\ Sizes \subseteq Nat
                            /\ MaxEntries \in Nat
                            /\ MaxVacuumed \in Nat

VARIABLES journal,    \* the sizes of the entries, in the order written
          first,      \* the oldest entry still retained
          notified    \* the journal fd is readable: something was written
                      \* that the reader's process() has not consumed

journalVars == <<journal, first, notified>>

NoEntry == 0

Written == Len(journal)

JournalInit == /\ journal = <<>>
               /\ first = 1
               /\ notified = FALSE

\* Another process logs a message; inotify makes the reader's fd readable.
Log(size) == /\ Written < MaxEntries
             /\ journal' = Append(journal, size)
             /\ notified' = TRUE
             /\ UNCHANGED first

\* journald deletes archived files: the oldest retained entries disappear.
Vacuum == \E f \in (first + 1) .. (Written + 1) :
             /\ f <= MaxVacuumed + 1
             /\ first' = f
             /\ UNCHANGED <<journal, notified>>

JournalNext == Vacuum \/ \E size \in Sizes : Log(size)

\* Where next_entry() takes a reader that stands on entry p: to the entry
\* after it, or over the gap that vacuuming left.
After(p) == IF p + 1 < first THEN first ELSE p + 1

\* What seek_cursor + next make of a cursor whose entry is gone: the reader
\* stands on the oldest retained entry, or at the end when none is left.
Closest == IF first <= Written THEN first ELSE Written
=============================================================================
