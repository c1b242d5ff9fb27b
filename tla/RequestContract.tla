---------------------------- MODULE RequestContract ----------------------------
(***************************************************************************)
(* What the server promises a client about its requests, without queue,    *)
(* threads, tokens or postponement.  A request is in one of these states:  *)
(*                                                                         *)
(*   "queued"    received, its handler has not begun                       *)
(*   "doomed"    cancelled while queued: its handler never runs            *)
(*   "running"   its handler has begun                                     *)
(*   "stopping"  cancelled while running: the handler may give up          *)
(*   an answer   final                                                     *)
(*   "forgotten" final: it never gets an answer                            *)
(*                                                                         *)
(* A request stays in its state until it is answered, is never answered    *)
(* twice, and one read after the server answered shutdown is refused at    *)
(* once.  Only a request that was waived while it was queued is ever       *)
(* forgotten; which ones those are is up to the implementation.            *)
(***************************************************************************)
EXTENDS Naturals

VARIABLES
    request,   \* [numbers of the requests received -> state]
    waived,    \* numbers of requests the server does not promise to answer
    open       \* shutdown has not been answered

contractVars == <<request, waived, open>>

Refusals == {"InvalidRequest", "ServerNotInitialized"}
Results  == {"result", "error"}
Answers  == Refusals \cup Results \cup {"RequestCancelled"}

AnswersFrom(state) ==
    CASE state = "queued"   -> Refusals
      [] state = "doomed"   -> Refusals \cup {"RequestCancelled"}
      [] state = "running"  -> Results
      [] state = "stopping" -> Results \cup {"RequestCancelled"}
      [] OTHER -> {}

Init == request = [n \in {} |-> "queued"] /\ waived = {} /\ open = TRUE

Receive(n, state) ==
    /\ n \notin DOMAIN request
    /\ request' = [m \in DOMAIN request \cup {n} |->
                     IF m = n THEN state ELSE request[m]]
    /\ UNCHANGED <<waived, open>>

Accept(n) == open = TRUE /\ Receive(n, "queued")
Refuse(n) == open = FALSE /\ Receive(n, "InvalidRequest")

Move(n, from, to) ==
    /\ request[n] = from
    /\ request' = [request EXCEPT ![n] = to]
    /\ UNCHANGED <<waived, open>>

Cancel(n) == Move(n, "queued", "doomed") \/ Move(n, "running", "stopping")
Start(n)  == Move(n, "queued", "running")
Answer(n) == \E answer \in AnswersFrom(request[n]) : Move(n, request[n], answer)

Waive(n) ==
    /\ request[n] \in {"queued", "doomed"}
    /\ waived' = waived \cup {n}
    /\ UNCHANGED <<request, open>>

Forget(n) ==
    /\ n \in waived
    /\ Move(n, "queued", "forgotten") \/ Move(n, "doomed", "forgotten")

Close == open = TRUE /\ open' = FALSE /\ UNCHANGED <<request, waived>>

Next ==
    \/ \E n \in DOMAIN request' : Accept(n) \/ Refuse(n)
    \/ \E n \in DOMAIN request : Cancel(n) \/ Start(n) \/ Answer(n)
    \/ \E n \in DOMAIN request : Waive(n) \/ Forget(n)
    \/ Close

Spec == Init /\ [][Next]_contractVars
===============================================================================
