-------------------------------- MODULE EventLoop ------------------------------
(***************************************************************************)
(* Class EventLoop (libsponge/util/eventloop.{hh,cc}): rules served by     *)
(* poll(2).  A rule is a number; what it watches, and its interest() and   *)
(* cancel() callbacks, are operators of the owner of the loop on its own   *)
(* state s.  wait_next_event() is cut in two: asking the rules, with the   *)
(* poll, and the work on the results.  Between the two, and between two    *)
(* callbacks, other threads run, and what poll() said grows stale.         *)
(***************************************************************************)
EXTENDS Integers

\* Each of the two loops of the program has four rules, numbered in the order they were added.
Rules == 1..4

NothingToDo == [r \in Rules |-> "none"]

\* The rules that were not cancelled, and the results of poll() still to be served.
NewEventLoop == [rules |-> Rules, todo |-> NothingToDo]

\* Before the loop that prepares poll().
Asking(s) == [s |-> s, rules |-> s.loop.rules, polled |-> {}]

\* Lines 67-88 for rule r: a rule whose descriptor is used up is cancelled, which leaves the owner
\* as given; any other one is polled if it is interested.
Asked(acc, r, usedUp, interested, cancelled) ==
  IF r \notin acc.rules
  THEN acc
  ELSE IF usedUp
       THEN [s |-> cancelled, rules |-> acc.rules \ {r}, polled |-> acc.polled]
       ELSE [acc EXCEPT !.polled = IF interested THEN @ \cup {r} ELSE @]

\* What poll() reports on the descriptor of each rule (revents) makes of the rule.  Errors and
\* hang-ups are reported on placeholders too.
Verdict(r, polled, direction, revents) ==
  IF "ERR" \in revents[r] THEN "error"
  ELSE IF r \notin polled THEN "none"
  ELSE IF direction[r] \in revents[r] THEN "ready"
  ELSE IF "HUP" \in revents[r] THEN "defunct" ELSE "none"

\* Does poll() return before its timeout?
Awake(rules, polled, direction, revents) ==
  \E r \in rules :
    revents[r] \cap {"ERR", "HUP"} # {} \/ Verdict(r, polled, direction, revents) = "ready"

\* Lines 107-142: what there is to do for each rule.
Results(rules, polled, direction, revents) ==
  [r \in Rules |-> IF r \in rules THEN Verdict(r, polled, direction, revents) ELSE "none"]

\* The rules are served in order.
Turn(loop, r, verdict) == loop.todo[r] = verdict /\ \A q \in Rules : q < r => loop.todo[q] = "none"

Served(loop, r) == [loop EXCEPT !.todo[r] = "none"]

Erased(loop, r) == [rules |-> loop.rules \ {r}, todo |-> Served(loop, r).todo]
===============================================================================
