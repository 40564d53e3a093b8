------------------------------ MODULE Computer ------------------------------
(***************************************************************************)
(* The browser computer (services/depdek-computer): host.mjs brokers one    *)
(* order of a person or of the model to that person's container, starting   *)
(* it when it is not there, and server.mjs serves the orders one after the  *)
(* other on a page that changes by itself.  A person acts on what was last  *)
(* shown, so an order that touches the page carries the revision it was     *)
(* made of.  An order whose answer is late is given up but stays queued.    *)
(***************************************************************************)
EXTENDS Naturals, Sequences

CONSTANTS
  Viewers,          \* who is shown the page and gives orders
  Pages,            \* what the page may show
  MaxLives,         \* a bound on how often the container is started
  MaxPageRevision,  \* a bound on the changes seen in one life
  MaxQueued         \* a bound on the orders that wait in the container

VARIABLES
  container,  \* the browser: its page, the page last looked at, and the orders
  broker,     \* the one broker that runs (the daemon holds a lock)
  views       \* what each viewer was last shown

computerVars == <<container, broker, views>>

OrderKinds == {"status", "open", "click", "respond", "request_input", "screenshot", "stop"}
Touching == {"click", "respond"}
Shown == [life : 0..MaxLives, revision : 0..MaxPageRevision, page : Pages \cup {"none"}, asked : BOOLEAN]
Orders == [kind : OrderKinds, viewer : Viewers, seen : Shown, waited : BOOLEAN]

ComputerTypeOK ==
  /\ container \in [up : BOOLEAN, life : 0..MaxLives, page : Pages \cup {"none"}, print : Pages \cup {"none"},
                    revision : 0..MaxPageRevision, asked : BOOLEAN, queue : Seq(Orders), serving : {<<>>} \cup (Seq(Orders))]
  /\ broker \in [at : {"idle", "inspects", "starts", "execs", "waits"}, order : Seq(Orders)]
  /\ views \in [Viewers -> Shown]

NothingShown == [life |-> 0, revision |-> 0, page |-> "none", asked |-> FALSE]
IdleBroker == [at |-> "idle", order |-> <<>>]
Off(c) == [up |-> FALSE, life |-> c.life, page |-> "none", print |-> "none", revision |-> 0, asked |-> FALSE,
           queue |-> <<>>, serving |-> <<>>]

ComputerInit ==
  /\ container = Off([life |-> 0])
  /\ broker = IdleBroker
  /\ views = [v \in Viewers |-> NothingShown]

\* A look at the page: one that changed gets the next revision, and no input is asked for.
Snapshot(c) ==
  IF c.print \in {"none", c.page} THEN [c EXCEPT !.print = c.page]
  ELSE [c EXCEPT !.print = c.page, !.revision = @ + 1, !.asked = FALSE]
Seen(c) == [life |-> c.life, revision |-> c.revision, page |-> c.print, asked |-> c.asked]

Order == broker.order[1]
BrokerGoes(at) == broker' = [broker EXCEPT !.at = at]
Tells(shown) == broker' = IdleBroker /\ views' = [views EXCEPT ![Order.viewer] = shown]
Refuses == broker' = IdleBroker /\ UNCHANGED views

\* A click is of an element shown, an answer of a request shown.
SendOrder(v, kind) ==
  /\ broker.at = "idle" /\ UNCHANGED <<container, views>>
  /\ kind = "click" => views[v].revision > 0
  /\ kind = "respond" => views[v].asked
  /\ broker' = [at |-> "inspects", order |-> <<[kind |-> kind, viewer |-> v, waited |-> TRUE,
                  seen |-> IF kind \in Touching THEN views[v] ELSE NothingShown]>>]

InspectedAs(found) ==
  CASE Order.kind = "stop" -> Tells(NothingShown) /\ container' = IF found THEN Off(container) ELSE container
    [] ~found /\ Order.kind = "status" -> Tells(NothingShown) /\ UNCHANGED container
    [] OTHER -> BrokerGoes(IF found THEN "execs" ELSE "starts") /\ UNCHANGED <<container, views>>

\* A container that cannot be inspected is taken for none; one that is not as it
\* was made is not used.
Inspect(found) ==
  /\ broker.at = "inspects" /\ (found => container.up)
  /\ \/ found /\ Refuses /\ UNCHANGED container
     \/ InspectedAs(found)

\* The name is taken when there is one after all.
StartContainer ==
  /\ broker.at = "starts"
  /\ \/ /\ ~container.up /\ container.life < MaxLives
        /\ \E p \in Pages :
             container' = Snapshot([Off(container) EXCEPT !.up = TRUE, !.life = @ + 1, !.page = p, !.revision = 1])
        /\ BrokerGoes("execs") /\ UNCHANGED views
     \/ Refuses /\ UNCHANGED container

ExecOrder ==
  /\ broker.at = "execs"
  /\ \/ /\ container.up /\ Len(container.queue) < MaxQueued
        /\ container' = [container EXCEPT !.queue = Append(@, Order)] /\ BrokerGoes("waits") /\ UNCHANGED views
     \/ Refuses /\ UNCHANGED container

\* The broker gives up, or is killed; what it put in the queue stays there.
GiveUp ==
  /\ broker.at = "waits" /\ Refuses
  /\ LET forsaken(os) == [i \in DOMAIN os |-> [os[i] EXCEPT !.waited = FALSE]] IN
     container' = [container EXCEPT !.queue = forsaken(@), !.serving = forsaken(@)]

\* An order has been served: its viewer sees the page, or gets an error.
Served(c, order, shown) ==
  /\ container' = [c EXCEPT !.serving = <<>>]
  /\ IF ~order.waited THEN UNCHANGED <<broker, views>>
     ELSE /\ broker' = IdleBroker
          /\ views' = IF shown THEN [views EXCEPT ![order.viewer] = Seen(c)] ELSE views

\* Mutant: the revision is compared before the page is looked at.
ServeNextAsLast ==
  /\ container.up /\ container.serving = <<>> /\ container.queue # <<>>
  /\ LET order == Head(container.queue)
         c == Snapshot([container EXCEPT !.queue = Tail(@)])
     IN  /\ c.revision <= MaxPageRevision
         /\ IF order.kind \in Touching /\ order.seen.revision # container.revision THEN Served(c, order, FALSE)
            ELSE container' = [c EXCEPT !.serving = <<order>>] /\ UNCHANGED <<broker, views>>

\* The page is looked at, and an order for another revision of it refused.
ServeNext ==
  /\ container.up /\ container.serving = <<>> /\ container.queue # <<>>
  /\ LET order == Head(container.queue)
         c == Snapshot([container EXCEPT !.queue = Tail(@)])
     IN  /\ c.revision <= MaxPageRevision
         /\ IF order.kind \in Touching /\ order.seen.revision # c.revision THEN Served(c, order, FALSE)
            ELSE container' = [c EXCEPT !.serving = <<order>>] /\ UNCHANGED <<broker, views>>

\* What an order does to the page before the last look.
Done(order, c) ==
  CASE order.kind \in {"open", "click"} -> {[c EXCEPT !.page = p, !.asked = @ /\ order.kind = "click"] : p \in Pages}
    [] order.kind = "respond" -> {[c EXCEPT !.page = p, !.asked = FALSE] : p \in Pages}
    [] order.kind = "request_input" -> {[c EXCEPT !.asked = TRUE]}
    [] OTHER -> {c}

\* An answer needs that the page still asks; an element may be gone; and the last
\* look, or the screenshot, may fail after all was done.
ServeOrder ==
  /\ container.up /\ container.serving # <<>>
  /\ LET order == container.serving[1]
         before == IF order.kind = "respond" THEN Snapshot(container) ELSE container
     IN  /\ before.revision <= MaxPageRevision
         /\ \/ (order.kind = "respond" => ~before.asked) /\ order.kind \in Touching /\ Served(before, order, FALSE)
            \/ /\ order.kind = "respond" => before.asked
               /\ \E c \in Done(order, before) :
                    LET after == Snapshot(c) IN
                    /\ after.revision <= MaxPageRevision
                    /\ \/ Served([after EXCEPT !.asked = @ \/ order.kind = "request_input"], order, TRUE)
                       \/ Served(c, order, FALSE)

\* The page's own scripts, and the network.
PageChanges(p) ==
  /\ container.up /\ container.page # p /\ UNCHANGED <<broker, views>>
  /\ container' = [container EXCEPT !.page = p]

IdleEnds ==
  /\ container.up /\ container.queue = <<>> /\ container.serving = <<>>
  /\ container' = Off(container) /\ UNCHANGED <<broker, views>>

ComputerNext ==
  \/ \E v \in Viewers, kind \in OrderKinds : SendOrder(v, kind)
  \/ \E found \in BOOLEAN : Inspect(found)
  \/ StartContainer \/ ExecOrder \/ GiveUp \/ ServeNext \/ ServeOrder \/ IdleEnds
  \/ \E p \in Pages : PageChanges(p)

ComputerSpec == ComputerInit /\ [][ComputerNext]_computerVars

-----------------------------------------------------------------------------
(* Within one life of the container, the page that a click or an answer is  *)
(* let through to is the page its viewer was shown, and an answer finds it  *)
(* unchanged wherever it is still asked for: however long the order waited  *)
(* behind others and however often the page changed (server.mjs:129-176;    *)
(* services/depdek-computer/README.md:16).  A revision means one page.      *)
TouchedAsShown ==
  /\ \A i \in DOMAIN container.serving :
       LET order == container.serving[i] IN
       (order.kind \in Touching /\ order.seen.life = container.life) =>
         /\ container.print = order.seen.page
         /\ (container.asked /\ container.page = container.print) => container.page = order.seen.page
  /\ \A v \in Viewers :
       (container.up /\ views[v].life = container.life /\ views[v].revision = container.revision)
         => views[v].page = container.print
=============================================================================
