--------------------------- MODULE AtLeastOnceLog ---------------------------
(***************************************************************************)
(* What a log shipper promises, without batches, chunks, retries or        *)
(* processes: entries are written, each is accounted for in some order     *)
(* (ingested, refused for good, or knowingly passed over), and a durable   *)
(* cursor moves forward over entries that are all accounted for.  Nothing  *)
(* is ever un-accounted and the cursor never moves back, so whoever        *)
(* resumes after the cursor misses nothing, though it may repeat.          *)
(***************************************************************************)
EXTENDS Naturals

VARIABLES written,   \* entries written so far
          cursor,    \* the durable cursor
          done       \* the entries accounted for

logVars == <<written, cursor, done>>

LogInit == written = 0 /\ cursor = 0 /\ done = {}

WriteEntry == /\ written' = written + 1
              /\ UNCHANGED <<cursor, done>>

Account == /\ done \subseteq done'
           /\ done' \subseteq 1 .. written
           /\ UNCHANGED <<written, cursor>>

Commit == /\ cursor' > cursor
          /\ 1 .. cursor' \subseteq done
          /\ UNCHANGED <<written, done>>

LogNext == WriteEntry \/ Account \/ Commit

LogSpec == LogInit /\ [][LogNext]_logVars
=============================================================================
