---------------------------- MODULE MCCollectors ----------------------------
(* Two devices; one is mounted as a whole and twice as a bind mount.  A      *)
(* max_runtime that leaves just enough room for the client's timeout, and    *)
(* one that is equal to it.                                                  *)
EXTENDS Collectors

FourMounts == {[dev |-> "sda", root |-> TRUE, point |-> 2],
               [dev |-> "sda", root |-> FALSE, point |-> 1],
               [dev |-> "sda", root |-> FALSE, point |-> 3],
               [dev |-> "sdb", root |-> FALSE, point |-> 4]}

TightAndEqual == {[scrapeTimeout |-> 1, maxRuntime |-> 2],
                  [scrapeTimeout |-> 1, maxRuntime |-> 1]}
=============================================================================
