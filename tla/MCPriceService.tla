--------------------------- MODULE MCPriceService ---------------------------
(* Two handlers of the server and one caller of Stop. The clock stands     *)
(* still once the daemon is being stopped, and it is only stopped early:   *)
(* how a stop goes does not depend on the time.                            *)
EXTENDS PriceService

Running == ~cancelled /\ \A s \in Stopper : stoppers[s] = "none"
MCNext ==
  /\ Next
  /\ now' # now => Running
  /\ Running /\ ~Running' => now <= 1
MCSpec == Init /\ [][MCNext]_vars /\ Fairness
=============================================================================
