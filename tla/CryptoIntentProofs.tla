------------------------- MODULE CryptoIntentProofs -------------------------
(***************************************************************************)
(* What TLC checks of CryptoIntent for two worker processes holds for any  *)
(* number of them, and any number of recoveries, mishaps and deposits.     *)
(* The inductive invariant is IntentInv.  Its Core speaks of any number of *)
(* workers: there is a lemma for each of their actions (...OK), which      *)
(* rests on Others, that no action disturbs what another worker relies on, *)
(* and on Assembled, that the acting worker's own part then suffices.      *)
(* Single is what holds of one worker besides (...Single); PhaseOK makes   *)
(* of the intent an order in the sense of PaidOrder.                       *)
(***************************************************************************)
EXTENDS CryptoIntent, SequenceTheorems, TLAPS

USE DEF vars, intent, clock, resource, workers, At, Fine, Quiet

Core == TypeOK /\ WorkersRely /\ RowFollowsIntent /\ RefundEnds

----------------------------------------------------------------------------
(* Workers and their locals.                                               *)

LEMMA FreshRow == Fresh \in LocRows(Fresh.total) /\ Fresh.token = 0 /\ Fresh.mode = "none"
  BY DEF Fresh, LocRows

\* A move changes the place and the locals of one worker.
Moved(p) == /\ pc' \in [Workers -> Places] /\ DOMAIN loc' = Workers
            /\ \A q \in Workers : loc'[q] \in LocRows(loc'[q].total)
            /\ \A q \in Workers \ {p} : pc'[q] = pc[q] /\ loc'[q] = loc[q]

LEMMA Moving ==
  ASSUME TypeOK, NEW p \in Workers, NEW place \in Places, NEW knows, knows \in LocRows(knows.total),
         Move(p, place, knows)
  PROVE  Moved(p) /\ pc'[p] = place /\ loc'[p] = IF place = "idle" THEN Fresh ELSE knows
<1>1. loc' = [loc EXCEPT ![p] = IF place = "idle" THEN Fresh ELSE knows] /\ DOMAIN loc = Workers
  BY DEF Move, TypeOK
<1>2. DOMAIN loc' = Workers
  BY <1>1
<1>3. loc'[p] = (IF place = "idle" THEN Fresh ELSE knows) /\ \A q \in Workers \ {p} : loc'[q] = loc[q]
  BY <1>1
<1>4. \A q \in Workers : loc'[q] \in LocRows(loc'[q].total)
  BY <1>3, FreshRow DEF TypeOK
<1>5. pc' \in [Workers -> Places] /\ pc'[p] = place /\ \A q \in Workers \ {p} : pc'[q] = pc[q]
  BY DEF Move, TypeOK
<1> QED
  BY <1>2, <1>3, <1>4, <1>5 DEF Moved

LEMMA Going ==
  ASSUME TypeOK, NEW p \in Workers, NEW place \in Places, Goto(p, place)
  PROVE  Moved(p) /\ pc'[p] = place /\ loc'[p] = IF place = "idle" THEN Fresh ELSE loc[p]
<1>1. loc[p] \in LocRows(loc[p].total)
  BY DEF TypeOK
<1> QED
  BY <1>1, Moving DEF Goto

\* Turn changes the mode besides.
Modes == {"none", "trigger", "domain", "resume"} \cup ForVMModes

LEMMA Turning ==
  ASSUME TypeOK, NEW p \in Workers, NEW mode \in Modes, NEW place \in Places, place # "idle", Turn(p, mode, place)
  PROVE  /\ Moved(p) /\ pc'[p] = place
         /\ loc'[p].mode = mode /\ loc'[p].token = loc[p].token /\ loc'[p].wasOwed = loc[p].wasOwed
         /\ loc'[p].wasDone = loc[p].wasDone /\ loc'[p].wasAwaiting = loc[p].wasAwaiting
<1> DEFINE r == [loc[p] EXCEPT !.mode = mode]
<1>1. /\ r \in LocRows(r.total) /\ r.mode = mode /\ r.token = loc[p].token /\ r.wasOwed = loc[p].wasOwed
      /\ r.wasDone = loc[p].wasDone /\ r.wasAwaiting = loc[p].wasAwaiting
  BY DEF TypeOK, LocRows, Modes
<1>2. Move(p, place, r)
  BY DEF Turn
<1> HIDE DEF r
<1>3. Moved(p) /\ pc'[p] = place /\ loc'[p] = r
  BY <1>1, <1>2, Moving
<1> QED
  BY <1>1, <1>3

\* What a poller knows of itself.
LEMMA Poller ==
  ASSUME Core, NEW p \in terms.fleet
  PROVE  /\ p \in Pollers /\ p \in Workers /\ p # Attempt /\ p # Sweeper
         /\ PollerRelies(p) /\ loc[p] \in LocRows(loc[p].total) /\ loc[p].token \in {0, 1}
         /\ loc[p].mode \in Modes /\ pc[p] \in Places /\ token \in Nat /\ token \in 0..MaxToken
  BY PollersDistinct, BoundsAreNumbers DEF Core, TypeOK, WorkersRely, Workers, LocRows, Modes

\* Everything but where workers are keeps its type.
Typed == /\ terms' = terms /\ chain' = chain
         /\ late' \in BOOLEAN /\ expired' \in BOOLEAN /\ ripe' \in BOOLEAN /\ planned' \in BOOLEAN
         /\ guest' \in BOOLEAN /\ attached' \in BOOLEAN
         /\ status' \in {"none", "CREATED", "WAITING_PAYMENT", "SETTLED"} \cup Terminal
         /\ token' \in 0..MaxToken /\ owed' \in Nat /\ mishaps' \in Nat
         /\ vm' \in {"none", "reserved", "pending", "ready", "delivered", "failed", "released"}
         /\ quote' \in {"none", "CREATED", "CONSUMED"}
         /\ order' \in {"none", "awaiting_payment", "expired", "queued", "refund_due"}

\* Two workers are never at work on a VM together unless a recovery has taken the token.
LEMMA Alone ==
  ASSUME Core, ForVM, NEW p \in Pollers, NEW q \in Pollers, p # q, Busy(p), Busy(q)
  PROVE  token > 1
<1>1. PollerRelies(p) /\ PollerRelies(q) /\ token \in Nat
  BY BoundsAreNumbers DEF Core, WorkersRely, TypeOK
<1>2. loc[p].token = 0 \/ loc[q].token = 0
  BY <1>1 DEF Core, WorkersRely, PollerRelies
<1> QED
  BY <1>1, <1>2 DEF PollerRelies

\* A worker that stands still keeps what it relies on: it is not busy, the token was taken from
\* it, the intent and the VM are left alone, or there is no VM.
LEMMA Others ==
  ASSUME Core, NEW q \in Pollers, pc'[q] = pc[q], loc'[q] = loc[q], terms' = terms, Typed,
         token' = token \/ token' = token + 1,
         ForVM /\ status \in Refused => status' \in Refused,
         \/ ~Busy(q)
         \/ ForVM /\ token' > 1 /\ "PROVISIONED" \notin {status, status'} /\ vm' \notin {"ready", "delivered", "failed"}
         \/ UNCHANGED <<status, token, vm>>
         \/ ~ForVM /\ vm' = "none"
  PROVE  PollerRelies(q)'
<1>0. /\ PollerRelies(q) /\ token \in Nat /\ token' \in Nat /\ Busy(q)' = Busy(q) /\ ForVM' = ForVM
      /\ token # 0 => token' # 0
  BY BoundsAreNumbers DEF Core, WorkersRely, TypeOK, Busy, ForVM, Typed
<1>1. CASE ~Busy(q)
  BY <1>0, <1>1 DEF PollerRelies, Busy, Waiting, Handoff, Checks, Cleanup, Ordering, Refunding
<1>2. CASE ForVM /\ token' > 1 /\ "PROVISIONED" \notin {status, status'} /\ vm' \notin {"ready", "delivered", "failed"}
  BY <1>0, <1>2 DEF PollerRelies, Launched
<1>3. CASE UNCHANGED <<status, token, vm>>
  BY <1>0, <1>3 DEF PollerRelies, Launched, Busy
<1>4. CASE ~ForVM /\ vm' = "none"
  BY <1>0, <1>4 DEF PollerRelies, Launched
<1> QED
  BY <1>1, <1>2, <1>3, <1>4

\* What is left to show of a step.
LEMMA Assembled ==
  ASSUME Core, NEW w \in Workers, Moved(w), Typed, RowFollowsIntent', DaemonsRely',
         \A q \in Pollers : PollerRelies(q)',
         loc'[w].token = 1 => loc[w].token = 1 \/ \A q \in Pollers \ {w} : loc[q].token = 0,
         ForVM /\ status \in Refused => status' \in Refused,
         ForVM /\ owed' > 0 => status' \in Refused,
         ForVM /\ pc'[w] = "owe" => (loc'[w].wasDone => status' \in Refused) /\ ~loc'[w].wasAwaiting
  PROVE  Core'
<1>2. TypeOK'
  BY DEF Moved, Typed, Core, TypeOK
<1>4. \A x, y \in Pollers : loc'[x].token = 1 /\ loc'[y].token = 1 => x = y
  BY DEF Moved, Core, WorkersRely, Workers
<1>5. RefundEnds'
  <2> SUFFICES ASSUME ForVM PROVE /\ owed' > 0 => status' \in Refused
                                  /\ \A p \in Workers : pc'[p] = "owe" => /\ loc'[p].wasDone => status' \in Refused
                                                                          /\ ~loc'[p].wasAwaiting
    BY DEF RefundEnds, Typed, ForVM
  <2> QED
    BY DEF Moved, RefundEnds, Core
<1> QED
  BY <1>2, <1>4, <1>5 DEF Core, WorkersRely

\* What is left to show of a poller's step.
LEMMA PollerActs ==
  ASSUME Core, NEW p \in terms.fleet, Moved(p), Typed, PollerRelies(p)', RowFollowsIntent',
         \A q \in Pollers \ {p} : PollerRelies(q)',
         loc'[p].token = 1 => loc[p].token = 1 \/ \A q \in Pollers \ {p} : loc[q].token = 0,
         Launched => UNCHANGED <<vm, status>>,
         ForVM /\ status \in Refused => status' \in Refused,
         ForVM /\ owed' > 0 => status' \in Refused,
         ForVM /\ pc'[p] = "owe" => (loc'[p].wasDone => status' \in Refused) /\ ~loc'[p].wasAwaiting
  PROVE  Core'
<1>1. /\ pc'[Attempt] = pc[Attempt] /\ pc'[Sweeper] = pc[Sweeper] /\ loc'[Attempt] = loc[Attempt]
      /\ p \in Workers
  BY Poller DEF Moved, Workers
<1>2. DaemonsRely'
  BY <1>1 DEF Core, WorkersRely, DaemonsRely, Launched, Refunding
<1>3. \A q \in Pollers : PollerRelies(q)'
  OBVIOUS
<1> QED
  BY <1>1, <1>2, <1>3, Assembled

\* What of the others when this one is at work on the VM's row or the intent's status.
LEMMA OthersAside ==
  ASSUME Core, NEW p \in terms.fleet, Busy(p), Moved(p), Typed,
         token' = token, ForVM /\ status \in Refused => status' \in Refused,
         ForVM /\ token > 1 => status' # "PROVISIONED" /\ vm' \notin {"ready", "delivered", "failed"},
         ~ForVM => vm' = "none"
  PROVE  \A q \in Pollers \ {p} : PollerRelies(q)'
<1> SUFFICES ASSUME NEW q \in Pollers, q # p PROVE PollerRelies(q)'
  OBVIOUS
<1>1. pc'[q] = pc[q] /\ loc'[q] = loc[q] /\ terms' = terms /\ p \in Pollers
  BY Poller DEF Moved, Workers, Typed
<1>2. CASE ~Busy(q) \/ ~ForVM
  BY <1>1, <1>2, Others
<1>3. CASE Busy(q) /\ ForVM
  <2>1. token > 1
    BY <1>1, <1>3, Alone
  <2>2. status # "PROVISIONED"
    BY <2>1, <1>3 DEF Core, RowFollowsIntent
  <2> QED
    BY <1>1, <1>3, <2>1, <2>2, Others
<1> QED
  BY <1>2, <1>3

\* What is left to show of a step that changes only what the invariant does not mention.
LEMMA Quietly ==
  ASSUME Core, NEW p \in terms.fleet, Moved(p), Typed,
         UNCHANGED <<status, token, owed, vm, guest, order>>, PollerRelies(p)',
         loc'[p].token = 1 => loc[p].token = 1,
         ForVM /\ pc'[p] = "owe" => (loc'[p].wasDone => status \in Refused) /\ ~loc'[p].wasAwaiting
  PROVE  Core'
<1>1. \A q \in Pollers \ {p} : PollerRelies(q)'
  <2> SUFFICES ASSUME NEW q \in Pollers, q # p PROVE PollerRelies(q)'
    OBVIOUS
  <2>1. pc'[q] = pc[q] /\ loc'[q] = loc[q]
    BY DEF Moved, Workers
  <2> QED
    BY <2>1, Others DEF Typed
<1>2. RowFollowsIntent'
  BY DEF Core, RowFollowsIntent, ForVM, Launched, Typed
<1>3. ForVM /\ owed' > 0 => status' \in Refused
  BY DEF Core, RefundEnds
<1> QED
  BY <1>1, <1>2, <1>3, PollerActs

\* A call that ends relies on nothing.
LEMMA IdleRelies ==
  ASSUME Core, NEW p \in terms.fleet, pc'[p] = "idle", loc'[p] = Fresh
  PROVE  PollerRelies(p)'
  BY Poller, FreshRow DEF PollerRelies, Busy, Waiting, Handoff, Checks, Cleanup, Ordering, ForVMModes

\* A call that ends, while nothing else changes that matters.
LEMMA EndOK ==
  ASSUME Core, NEW p \in terms.fleet, Goto(p, "idle"), Typed, UNCHANGED <<status, token, owed, vm, guest, order>>
  PROVE  Core'
<1>1. Moved(p) /\ pc'[p] = "idle" /\ loc'[p] = Fresh
  BY Poller, Going DEF Core, Places, Waiting
<1> QED
  BY <1>1, IdleRelies, FreshRow, Quietly

----------------------------------------------------------------------------
(* Polling.                                                                *)

\* In the beginning nobody is at work.
LEMMA NobodyBusy ==
  ASSUME Core, token = 0, NEW q \in Pollers
  PROVE  ~Busy(q) /\ loc[q].token = 0
  BY DEF Core, WorkersRely, PollerRelies

\* A worker goes from one place of polling to another.
LEMMA WaitRelies ==
  ASSUME Core, NEW p \in terms.fleet, terms' = terms, pc[p] \in Waiting, pc'[p] \in Waiting,
         loc'[p].token = 0, loc'[p].mode = loc[p].mode
  PROVE  PollerRelies(p)'
  BY Poller DEF PollerRelies, Busy, Waiting, Handoff, Checks, Cleanup, Ordering, ForVM

LEMMA ListedOK == ASSUME Core, NEW p \in terms.fleet, Listed(p) PROVE Core'
<1>1. Typed /\ UNCHANGED <<status, token, owed, vm, guest, order>> /\ pc[p] \in Waiting /\ loc[p].token = 0
  BY Poller DEF Core, TypeOK, Listed, Typed, Waiting, PollerRelies, Busy
<1>2. Moved(p) /\ pc'[p] = "poll" /\ loc'[p] = loc[p]
  BY Poller, Going DEF Core, Listed, Places, Waiting
<1>3. PollerRelies(p)'
  BY <1>1, <1>2, WaitRelies DEF Typed, Waiting
<1> QED
  BY <1>1, <1>2, <1>3, Quietly

LEMMA PollOK == ASSUME Core, NEW p \in terms.fleet, Poll(p) PROVE Core'
<1> DEFINE knows == [loc[p] EXCEPT !.total = Total(chain), !.deep = Confirmed]
<1>1. Typed /\ UNCHANGED <<status, token, owed, vm, guest, order>> /\ pc[p] \in Waiting /\ loc[p].token = 0
  BY Poller DEF Core, TypeOK, Poll, Typed, Waiting, PollerRelies, Busy
<1>2. CASE Goto(p, "idle")
  BY <1>1, <1>2, EndOK
<1>3. ASSUME Move(p, "apply", knows) PROVE Core'
  <2>1. knows \in LocRows(knows.total) /\ knows.token = 0 /\ knows.mode = loc[p].mode
    BY <1>1, Poller DEF LocRows, Confirmed
  <2> HIDE DEF knows
  <2>2. Moved(p) /\ pc'[p] = "apply" /\ loc'[p] = knows
    BY <1>3, <2>1, Poller, Moving DEF Core, Places, Waiting
  <2>3. PollerRelies(p)'
    BY <1>1, <2>1, <2>2, WaitRelies DEF Typed, Waiting
  <2> QED
    BY <1>1, <2>1, <2>2, <2>3, Quietly
<1> QED
  BY <1>2, <1>3 DEF Poll

\* A scan decides while nobody has taken the token.
LEMMA ApplyOK == ASSUME Core, NEW p \in terms.fleet, Apply(p) PROVE Core'
<1>0. /\ pc[p] \in Waiting /\ loc[p].token = 0 /\ UNCHANGED <<token, owed, vm, guest, order>>
  BY Poller DEF Apply, Waiting, PollerRelies, Busy
<1>1. PICK place \in {"idle", "trigger"} :
        /\ Goto(p, place)
        /\ \/ status' = status
           \/ status \notin Terminal /\ status' \in {"EXPIRED", "WAITING_PAYMENT", "SETTLED", "REFUND_MANUAL"}
  BY DEF Apply, Decide
<1>2. Typed
  BY <1>0, <1>1 DEF Apply, Typed, Core, TypeOK, Terminal
<1>3. Moved(p) /\ pc'[p] = place /\ loc'[p] = (IF place = "idle" THEN Fresh ELSE loc[p])
  BY <1>1, Going, Poller DEF Core, Places, Waiting
<1>4. PollerRelies(p)'
  BY <1>0, <1>2, <1>3, IdleRelies, WaitRelies DEF Typed, Waiting
<1>5. CASE status' = status
  BY <1>0, <1>2, <1>3, <1>4, <1>5, FreshRow, Quietly
<1>6. CASE status \notin Terminal /\ status' \in {"EXPIRED", "WAITING_PAYMENT", "SETTLED", "REFUND_MANUAL"}
  <2>1. token = 0 /\ vm = "none" /\ owed = 0
    BY <1>6 DEF Core, RowFollowsIntent, Terminal, Refused
  <2>2. \A q \in Pollers \ {p} : PollerRelies(q)'
    BY <1>0, <1>2, <1>3, <1>6, <2>1, NobodyBusy, Others DEF Terminal, Refused, Moved, Workers, Typed
  <2>3. RowFollowsIntent'
    BY <1>0, <1>2, <1>6, <2>1 DEF Core, RowFollowsIntent, ForVM, Launched, Refused, Typed
  <2> QED
    BY <1>0, <1>2, <1>3, <1>4, <1>6, <2>1, <2>2, <2>3, FreshRow, PollerActs DEF Launched, Refused, Terminal
<1> QED
  BY <1>1, <1>5, <1>6

\* The first process that triggers takes the token; it is the only one that ever does.
LEMMA TriggerOK == ASSUME Core, NEW p \in terms.fleet, Trigger(p) PROVE Core'
<1>0. pc[p] = "trigger" /\ loc[p].token = 0 /\ UNCHANGED <<owed, vm, guest, order>>
  BY Poller DEF Trigger, Waiting, PollerRelies, Busy
<1>1. CASE token # 0
  <2>1. Goto(p, "idle") /\ UNCHANGED <<token, status>> /\ Typed
    BY <1>1 DEF Trigger, Typed, Core, TypeOK
  <2> QED
    BY <1>0, <2>1, EndOK
<1>2. CASE token = 0
  <2> DEFINE place == IF terms.resource = "vm" THEN "plan" ELSE "handoff"
             knows == [Fresh EXCEPT !.token = token + 1, !.mode = "trigger"]
  <2>1. token' = 1 /\ status' = "PROVISIONING" /\ Move(p, place, knows) /\ ripe' = FALSE
    BY <1>2 DEF Trigger, HandOver
  <2>2. Typed
    <3>1. token' \in 0..MaxToken
      BY <2>1, BoundsAreNumbers
    <3> HIDE DEF place, knows
    <3> QED
      BY <1>0, <2>1, <3>1 DEF Trigger, Typed, Core, TypeOK, Terminal
  <2>3. knows \in LocRows(knows.total) /\ knows.token = 1 /\ knows.mode = "trigger"
    <3>1. knows = [Fresh EXCEPT !.token = 1, !.mode = "trigger"]
      BY <1>2
    <3> QED
      BY <3>1 DEF Fresh, LocRows
  <2>4. place \in Places /\ place # "idle" /\ place # "owe"
    BY DEF Places, Handoff, Ordering
  <2>5. pc'[p] = place /\ loc'[p] = knows /\ Moved(p)
    <3> HIDE DEF place, knows
    <3> QED
      BY <2>1, <2>3, <2>4, Moving, Poller DEF Core
  <2>6. vm = "none" /\ owed = 0 /\ status \notin {"PROVISIONED", "FAILED"} /\ ~guest
    BY <1>2 DEF Core, RowFollowsIntent
  <2>7. PollerRelies(p)'
    <3> HIDE DEF knows
    <3> QED
      BY <1>0, <2>1, <2>2, <2>3, <2>5, <2>6 DEF PollerRelies, Busy, Waiting, Handoff, Checks, Cleanup, Ordering,
         Refunding, ForVM, ForVMModes, Launched, Typed
  <2>8. \A q \in Pollers \ {p} : PollerRelies(q)' /\ loc[q].token = 0
    <3> SUFFICES ASSUME NEW q \in Pollers, q # p PROVE PollerRelies(q)' /\ loc[q].token = 0
      OBVIOUS
    <3>1. pc'[q] = pc[q] /\ loc'[q] = loc[q] /\ ~Busy(q) /\ loc[q].token = 0 /\ PollerRelies(q)
      BY <1>2, <2>5, NobodyBusy DEF Moved, Workers, Core, WorkersRely
    <3> QED
      BY <2>2, <3>1 DEF PollerRelies, Waiting, Handoff, Checks, Cleanup, Ordering, ForVM, Busy, Typed
  <2>9. RowFollowsIntent'
    BY <1>0, <2>1, <2>2, <2>6 DEF Core, RowFollowsIntent, ForVM, Launched, Typed
  <2>10. TypeOK' /\ DaemonsRely'
    BY <1>0, <2>2, <2>5, <2>6, Poller DEF Core, TypeOK, Typed, WorkersRely, DaemonsRely, Refunding, Moved, Workers
  <2>11. \A x, y \in Pollers : loc'[x].token = 1 /\ loc'[y].token = 1 => x = y
    BY <2>5, <2>8 DEF Moved, Workers
  <2>12. RefundEnds'
    <3>1. \A q \in Workers : pc'[q] # "owe"
      <4> SUFFICES ASSUME NEW q \in Workers PROVE pc'[q] # "owe"
        OBVIOUS
      <4>1. CASE q = p
        BY <2>5, <4>1
      <4>2. CASE q \in Pollers /\ q # p
        BY <1>2, <2>5, <4>2, NobodyBusy DEF Moved, Busy, Waiting
      <4>3. CASE q \in {Attempt, Sweeper}
        BY <1>0, <2>6, <4>3, <2>10 DEF DaemonsRely, Refunding
      <4> QED
        BY <4>1, <4>2, <4>3 DEF Workers
    <3> QED
      BY <1>0, <2>6, <3>1 DEF RefundEnds
  <2> QED
    BY <2>7, <2>8, <2>9, <2>10, <2>11, <2>12, Poller DEF Core, WorkersRely
<1> QED
  BY <1>1, <1>2

----------------------------------------------------------------------------
(* The handoff to a VM.                                                    *)

\* What the process that triggered knows while it hands over.
LEMMA HandingOver ==
  ASSUME Core, NEW p \in terms.fleet, pc[p] \in Handoff
  PROVE  /\ ForVM /\ Busy(p) /\ ~Launched /\ ~guest /\ order = "none" /\ token # 0 /\ token \in Nat
         /\ loc[p].token = 1 /\ loc[p].mode = "trigger"
         /\ vm \in {"none", "reserved", "pending", "released"}
         /\ IF pc[p] = "start" THEN status = "PROVISIONED" /\ vm = "pending" /\ token = 1
                               ELSE status # "PROVISIONED" /\ (token = 1 => status = "PROVISIONING")
         /\ owed > 0 => status \in Refused
<1>1. ForVM /\ Busy(p) /\ PollerRelies(p)
  BY Poller DEF PollerRelies, Busy, Waiting, Handoff, Checks
<1>2. /\ ~Launched /\ token # 0 /\ token \in Nat /\ loc[p].mode = "trigger" /\ loc[p].token = 1
      /\ vm \in {"none", "reserved", "pending", "released"}
  BY <1>1, Poller DEF PollerRelies, Core, TypeOK, Launched
<1>3. IF pc[p] = "start" THEN status = "PROVISIONED" /\ vm = "pending" /\ token = 1
                         ELSE status # "PROVISIONED" /\ (token = 1 => status = "PROVISIONING")
  BY <1>1, <1>2 DEF PollerRelies, Core, RowFollowsIntent, Refunding, Handoff, Checks
<1>4. ~guest /\ order = "none" /\ (owed > 0 => status \in Refused)
  BY <1>1, <1>2 DEF Core, RowFollowsIntent, RefundEnds
<1> QED
  BY <1>1, <1>2, <1>3, <1>4

\* It goes on to a place that the row is fit for.
LEMMA OnRelies ==
  ASSUME Core, NEW p \in terms.fleet, pc[p] \in Handoff, Moved(p), pc'[p] \in Handoff,
         loc'[p].token = loc[p].token, loc'[p].mode = loc[p].mode, Typed, token' = token,
         vm' \notin {"ready", "delivered", "failed"},
         IF pc'[p] = "start" THEN status' = "PROVISIONED" /\ vm' = "pending"
                             ELSE status' = status /\ pc[p] # "start",
         token = 1 => vm' \in (IF pc'[p] \in {"check5", "link", "start"} THEN {"pending"} ELSE {"none", "reserved"})
  PROVE  PollerRelies(p)'
  BY HandingOver, Poller DEF PollerRelies, Busy, Waiting, Handoff, Checks, Cleanup, Ordering, Refunding, ForVM,
     ForVMModes, Launched, Typed

\* It turns to the refund, the giving up of the domain, or, fenced, to the release.
LEMMA TurnRelies ==
  ASSUME Core, NEW p \in terms.fleet, pc[p] \in Handoff, Moved(p), Typed, token' = token,
         loc'[p].token = loc[p].token, vm' \notin {"ready", "delivered", "failed"},
         status' = "PROVISIONED" => vm' = "pending",
         \/ pc'[p] = "refund" /\ loc'[p].mode = "error"
         \/ pc'[p] \in {"refund", "giveup"} /\ loc'[p].mode = "return" /\ status' # "PROVISIONED"
         \/ pc'[p] = "release" /\ loc'[p].mode = "fence" /\ token > 1 /\ status' # "PROVISIONED"
  PROVE  PollerRelies(p)'
  BY HandingOver, Poller DEF PollerRelies, Busy, Waiting, Handoff, Checks, Cleanup, Ordering, Refunding, ForVM,
     ForVMModes, Launched, Typed

\* The row changes while it hands over.
LEMMA RowOK ==
  ASSUME Core, NEW p \in terms.fleet, pc[p] \in Handoff, Moved(p), Typed,
         UNCHANGED <<status, token, owed, guest, order>>, loc'[p].token = loc[p].token,
         vm' \in {"none", "reserved", "pending", "released"}, status = "PROVISIONED" => vm' = "pending",
         PollerRelies(p)', pc'[p] # "owe"
  PROVE  Core'
<1>1. \A q \in Pollers \ {p} : PollerRelies(q)'
  BY HandingOver, OthersAside DEF Core, RowFollowsIntent
<1>2. RowFollowsIntent'
  BY HandingOver DEF Core, RowFollowsIntent, ForVM, Launched, Typed
<1> QED
  BY <1>1, <1>2, HandingOver, PollerActs

\* The places of the handoff are places.
LEMMA HandoffPlaces == Handoff \subseteq Places /\ {"refund", "giveup", "release"} \subseteq Places
                       /\ {"error", "return", "fence", "recover", "trigger", "domain", "resume"} \subseteq Modes
  BY DEF Places, Refunding, Cleanup, Modes, ForVMModes

LEMMA PlanOK == ASSUME Core, NEW p \in terms.fleet, Plan(p) PROVE Core'
<1>1. /\ pc[p] = "plan" /\ pc[p] \in Handoff /\ Goto(p, "check1") /\ "check1" \in Handoff
      /\ Typed /\ UNCHANGED <<status, token, owed, vm, guest, order>>
  BY DEF Plan, Handoff, Checks, Typed, Core, TypeOK
<1>2. Moved(p) /\ pc'[p] = "check1" /\ loc'[p] = loc[p]
  BY <1>1, HandoffPlaces, Going, Poller DEF Core
<1>3. PollerRelies(p)'
  BY <1>1, <1>2, OnRelies, HandingOver, Poller DEF PollerRelies, Launched
<1> QED
  BY <1>1, <1>2, <1>3, Quietly

\* Who fails the check has lost the token to a recovery.
LEMMA FencedOK ==
  ASSUME Core, NEW p \in terms.fleet, pc[p] \in Handoff \ {"start"}, Fenced(p), Typed,
         UNCHANGED <<status, token, owed, vm, guest, order>>, ~(status = "PROVISIONING" /\ token = loc[p].token)
  PROVE  Core'
<1>1. Moved(p) /\ pc'[p] = "release" /\ loc'[p].mode = "fence" /\ loc'[p].token = loc[p].token
  BY HandoffPlaces, Turning, Poller DEF Core, Fenced, Places
<1>2. token > 1 /\ status # "PROVISIONED"
  BY HandingOver
<1>3. PollerRelies(p)'
  BY <1>1, <1>2, TurnRelies, HandingOver DEF Launched
<1> QED
  BY <1>1, <1>3, Quietly

LEMMA CheckOK == ASSUME Core, NEW p \in terms.fleet, Check(p) PROVE Core'
<1>1. /\ pc[p] \in Handoff \ {"start"} /\ Typed /\ UNCHANGED <<status, token, owed, vm, guest, order>>
  BY DEF Check, Handoff, Checks, Typed, Core, TypeOK, Fenced
<1>2. CASE status = "PROVISIONING" /\ token = loc[p].token
  <2> DEFINE place == AfterCheck(pc[p])
  <2>1. /\ place \in Handoff \ {"start", "check5"}
        /\ place = "link" <=> pc[p] = "check5"
        /\ pc[p] # "link"
    BY DEF Check, Checks, AfterCheck, Handoff
  <2>2. Goto(p, place)
    BY <1>2 DEF Check
  <2> HIDE DEF place
  <2>3. Moved(p) /\ pc'[p] = place /\ loc'[p] = loc[p]
    BY <2>1, <2>2, HandoffPlaces, Going, Poller DEF Core, Handoff, Checks
  <2>4. token = 1 => vm \in (IF place \in {"check5", "link", "start"} THEN {"pending"} ELSE {"none", "reserved"})
    BY <1>1, <2>1, Poller DEF PollerRelies
  <2>5. PollerRelies(p)'
    BY <1>1, <2>1, <2>3, <2>4, OnRelies, HandingOver DEF Launched
  <2> QED
    BY <1>1, <2>1, <2>3, <2>5, Quietly DEF Handoff, Checks
<1>3. CASE ~(status = "PROVISIONING" /\ token = loc[p].token)
  BY <1>1, <1>3, FencedOK DEF Check
<1> QED
  BY <1>2, <1>3

\* A refusal of the handoff is refunded; whatever was done to the row stays.
LEMMA RefusedOK ==
  ASSUME Core, NEW p \in terms.fleet, pc[p] \in Handoff, Typed, UNCHANGED <<status, token, owed, guest, order>>,
         vm' \in {"none", "reserved", "pending", "released"}, status = "PROVISIONED" => vm' = "pending",
         \/ Turn(p, "error", "refund")
         \/ pc[p] # "start" /\ (Turn(p, "return", "refund") \/ Turn(p, "return", "giveup"))
  PROVE  Core'
<1>1. PICK place \in {"refund", "giveup"}, mode \in {"error", "return"} :
        Turn(p, mode, place) /\ (mode = "error" => place = "refund") /\ (mode = "return" => pc[p] # "start")
  OBVIOUS
<1>2. Moved(p) /\ pc'[p] = place /\ loc'[p].mode = mode /\ loc'[p].token = loc[p].token
  BY <1>1, HandoffPlaces, Turning, Poller DEF Core
<1>3. PollerRelies(p)'
  BY <1>1, <1>2, TurnRelies, HandingOver
<1> QED
  BY <1>2, <1>3, RowOK

LEMMA QuoteOK == ASSUME Core, NEW p \in terms.fleet, Quote(p) PROVE Core'
<1>1. /\ pc[p] = "quote" /\ pc[p] \in Handoff /\ Typed /\ UNCHANGED <<status, token, owed, vm, guest, order>>
  BY DEF Quote, Handoff, Typed, Core, TypeOK
<1>2. CASE Turn(p, "return", "refund")
  BY <1>1, <1>2, RefusedOK, HandingOver
<1>3. CASE Goto(p, "check2")
  <2>1. Moved(p) /\ pc'[p] = "check2" /\ loc'[p] = loc[p] /\ "check2" \in Handoff
    BY <1>3, HandoffPlaces, Going, Poller DEF Core, Handoff, Checks
  <2>2. PollerRelies(p)'
    BY <1>1, <2>1, OnRelies, HandingOver, Poller DEF PollerRelies, Launched
  <2> QED
    BY <1>1, <2>1, <2>2, Quietly
<1> QED
  BY <1>2, <1>3 DEF Quote

LEMMA ReserveOK == ASSUME Core, NEW p \in terms.fleet, Reserve(p) PROVE Core'
<1>1. /\ pc[p] = "reserve" /\ pc[p] \in Handoff /\ UNCHANGED <<status, token, owed, guest, order>>
      /\ vm' \in {vm, IF vm = "none" THEN "reserved" ELSE vm}
  BY DEF Reserve, Handoff
<1>2. Typed
  BY <1>1 DEF Reserve, Typed, Core, TypeOK, GoesWrong
<1>3. CASE Turn(p, "error", "refund") \/ Turn(p, "return", "refund")
  BY <1>1, <1>2, <1>3, RefusedOK, HandingOver
<1>4. ASSUME Move(p, "check3", [loc[p] EXCEPT !.reserved = TRUE]), vm' = IF vm = "none" THEN "reserved" ELSE vm
      PROVE  Core'
  <2> DEFINE knows == [loc[p] EXCEPT !.reserved = TRUE]
  <2>1. knows \in LocRows(knows.total) /\ knows.token = loc[p].token /\ knows.mode = loc[p].mode
    BY Poller DEF LocRows
  <2>2. Move(p, "check3", knows)
    BY <1>4
  <2> HIDE DEF knows
  <2>3. Moved(p) /\ pc'[p] = "check3" /\ loc'[p] = knows /\ "check3" \in Handoff
    BY <2>1, <2>2, HandoffPlaces, Moving, Poller DEF Core, Handoff, Checks
  <2>4. PollerRelies(p)'
    BY <1>1, <1>2, <1>4, <2>1, <2>3, OnRelies, HandingOver, Poller DEF PollerRelies
  <2> QED
    BY <1>1, <1>2, <1>4, <2>1, <2>3, <2>4, RowOK, HandingOver
<1> QED
  BY <1>3, <1>4 DEF Reserve

LEMMA ClaimDomainOK == ASSUME Core, NEW p \in terms.fleet, ClaimDomain(p) PROVE Core'
<1>0. attached' \in BOOLEAN
  BY DEF ClaimDomain, Core, TypeOK
<1>1. /\ pc[p] = "claim" /\ pc[p] \in Handoff /\ Typed /\ UNCHANGED <<status, token, owed, vm, guest, order>>
  BY <1>0 DEF ClaimDomain, Handoff, Typed, Core, TypeOK
<1>2. CASE Turn(p, "return", "giveup")
  BY <1>1, <1>2, RefusedOK, HandingOver
<1>3. ASSUME Move(p, "check4", [loc[p] EXCEPT !.claimed = TRUE]) PROVE Core'
  <2> DEFINE knows == [loc[p] EXCEPT !.claimed = TRUE]
  <2>1. knows \in LocRows(knows.total) /\ knows.token = loc[p].token /\ knows.mode = loc[p].mode
    BY Poller DEF LocRows
  <2>2. Move(p, "check4", knows)
    BY <1>3
  <2> HIDE DEF knows
  <2>3. Moved(p) /\ pc'[p] = "check4" /\ loc'[p] = knows /\ "check4" \in Handoff
    BY <2>1, <2>2, HandoffPlaces, Moving, Poller DEF Core, Handoff, Checks
  <2>4. PollerRelies(p)'
    BY <1>1, <2>1, <2>3, OnRelies, HandingOver, Poller DEF PollerRelies, Launched
  <2> QED
    BY <1>1, <2>1, <2>3, <2>4, Quietly
<1> QED
  BY <1>2, <1>3 DEF ClaimDomain

LEMMA ActivateOK == ASSUME Core, NEW p \in terms.fleet, Activate(p) PROVE Core'
<1>1. /\ pc[p] = "activate" /\ pc[p] \in Handoff /\ UNCHANGED <<status, token, owed, guest, order>>
      /\ vm' \in {vm, IF vm = "reserved" THEN "pending" ELSE vm}
  BY DEF Activate, Handoff
<1>0. attached' \in BOOLEAN
  BY DEF Activate, Core, TypeOK
<1>2. Typed
  BY <1>0, <1>1 DEF Activate, Onward, Typed, Core, TypeOK, GoesWrong
<1>3. CASE Turn(p, "error", "refund") \/ Turn(p, "return", "giveup")
  BY <1>1, <1>2, <1>3, RefusedOK, HandingOver
<1>4. ASSUME Goto(p, "check5"), vm # "none", vm' = IF vm = "reserved" THEN "pending" ELSE vm PROVE Core'
  <2>1. Moved(p) /\ pc'[p] = "check5" /\ loc'[p] = loc[p] /\ "check5" \in Handoff
    BY <1>4, HandoffPlaces, Going, Poller DEF Core, Handoff, Checks
  <2>2. PollerRelies(p)'
    BY <1>1, <1>2, <1>4, <2>1, OnRelies, HandingOver, Poller DEF PollerRelies
  <2> QED
    BY <1>1, <1>2, <1>4, <2>1, <2>2, RowOK, HandingOver
<1> QED
  BY <1>3, <1>4 DEF Activate, Onward

\* The intent is linked by the only process that is at work on it.
LEMMA LinkOK == ASSUME Core, NEW p \in terms.fleet, Link(p) PROVE Core'
<1>1. pc[p] = "link" /\ pc[p] \in Handoff \ {"start"} /\ UNCHANGED <<token, owed, vm, guest, order>>
  BY DEF Link, Handoff
<1>2. Typed
  BY <1>1 DEF Link, Onward, Fenced, Typed, Core, TypeOK, GoesWrong, Terminal
<1>3. CASE status = "PROVISIONING" /\ token = loc[p].token
  <2>1. status' = "PROVISIONED" /\ Onward(p, "link", "start")
    BY <1>3 DEF Link
  <2>2. token = 1 /\ vm = "pending" /\ owed = 0 /\ ForVM /\ Busy(p) /\ ~Launched /\ ~guest /\ order = "none"
    BY <1>1, <1>3, HandingOver, Poller DEF PollerRelies, Refused, Core, TypeOK
  <2>3. /\ Moved(p) /\ loc'[p].token = loc[p].token
        /\ \/ pc'[p] = "start" /\ loc'[p].mode = loc[p].mode
           \/ pc'[p] = "refund" /\ loc'[p].mode = "error"
    <3>1. CASE Goto(p, "start")
      BY <3>1, HandoffPlaces, Going, Poller DEF Core, Handoff
    <3>2. CASE Turn(p, "error", "refund")
      BY <3>2, HandoffPlaces, Turning, Poller DEF Core
    <3> QED
      BY <2>1, <3>1, <3>2 DEF Onward
  <2>4. PollerRelies(p)'
    <3>1. CASE pc'[p] = "start" /\ loc'[p].mode = loc[p].mode
      BY <1>1, <1>2, <2>1, <2>2, <2>3, <3>1, OnRelies DEF Handoff
    <3>2. CASE pc'[p] = "refund" /\ loc'[p].mode = "error"
      BY <1>1, <1>2, <2>1, <2>2, <2>3, <3>2, TurnRelies
    <3> QED
      BY <2>3, <3>1, <3>2
  <2>5. \A q \in Pollers \ {p} : PollerRelies(q)'
    BY <1>1, <1>2, <1>3, <2>1, <2>2, <2>3, OthersAside DEF Refused
  <2>6. RowFollowsIntent'
    BY <1>1, <1>2, <2>1, <2>2 DEF RowFollowsIntent, ForVM, Launched, Typed
  <2> QED
    <3>1. /\ loc'[p].token = 1 => loc[p].token = 1
          /\ Launched => UNCHANGED <<vm, status>>
          /\ ForVM /\ status \in Refused => status' \in Refused
          /\ ForVM /\ owed' > 0 => status' \in Refused
          /\ pc'[p] # "owe"
      BY <1>1, <1>3, <2>2, <2>3 DEF Refused
    <3> QED
      BY <1>2, <2>3, <2>4, <2>5, <2>6, <3>1, PollerActs
<1>4. CASE ~(status = "PROVISIONING" /\ token = loc[p].token)
  <2>1. status' = status /\ Fenced(p)
    BY <1>4 DEF Link
  <2> QED
    BY <1>1, <1>2, <1>4, <2>1, FencedOK
<1> QED
  BY <1>3, <1>4

\* The VM is dispatched by the process that linked it, which then has nothing left to do; were the
\* acknowledgement of this commit lost, it would go on to refund what it has dispatched.
LEMMA StartOK == ASSUME Core, "start" \notin LostAt, NEW p \in terms.fleet, Start(p) PROVE Core'
<1>1. /\ pc[p] = "start" /\ pc[p] \in Handoff /\ UNCHANGED <<status, token, owed, guest, order>>
      /\ vm' = (IF vm = "pending" THEN "ready" ELSE vm) /\ Goto(p, "idle")
  BY DEF Start, Handoff, Onward
<1>2. Typed
  BY <1>1 DEF Start, Onward, Typed, Core, TypeOK, GoesWrong
<1>3. status = "PROVISIONED" /\ vm' = "ready" /\ token = 1 /\ owed = 0 /\ ForVM /\ Busy(p) /\ ~guest /\ order = "none"
      /\ ~Launched
  BY <1>1, HandingOver DEF Refused, Core, TypeOK
<1>4. Moved(p) /\ pc'[p] = "idle" /\ loc'[p] = Fresh
  BY <1>1, Poller, Going DEF Core, Places, Waiting
<1>5. PollerRelies(p)'
  BY <1>4, IdleRelies
<1>6. \A q \in Pollers \ {p} : PollerRelies(q)'
  BY <1>1, <1>2, <1>3, <1>4, OthersAside
<1>7. RowFollowsIntent'
  BY <1>1, <1>2, <1>3 DEF Core, RowFollowsIntent, ForVM, Launched, Typed
<1> QED
  BY <1>1, <1>2, <1>3, <1>4, <1>5, <1>6, <1>7, FreshRow, PollerActs

LEMMA HandoffRaisesOK == ASSUME Core, NEW p \in terms.fleet, HandoffRaises(p) PROVE Core'
<1>1. pc[p] \in Handoff /\ Typed /\ UNCHANGED <<status, token, owed, vm, guest, order>>
  BY DEF HandoffRaises, GoesWrong, Typed, Core, TypeOK
<1>2. Turn(p, "error", "refund") \/ (pc[p] # "start" /\ Turn(p, "return", "giveup"))
  BY DEF HandoffRaises
<1>3. vm \in {"none", "reserved", "pending", "released"} /\ (status = "PROVISIONED" => vm = "pending")
  BY <1>1, HandingOver
<1> QED
  BY <1>1, <1>2, <1>3, RefusedOK

\* Every step of the handoff.
LEMMA HandoffOK ==
  ASSUME Core, "start" \notin LostAt, NEW p \in terms.fleet, HandoffStep(p) \/ HandoffRaises(p)
  PROVE  Core'
  BY PlanOK, CheckOK, QuoteOK, ReserveOK, ClaimDomainOK, ActivateOK, LinkOK, StartOK, HandoffRaisesOK DEF HandoffStep

----------------------------------------------------------------------------
(* Refund and cleanup.                                                     *)

\* What a worker knows while it cleans up.
LEMMA Cleaning ==
  ASSUME Core, NEW p \in terms.fleet, pc[p] \in Cleanup
  PROVE  /\ ForVM /\ Busy(p) /\ ~Launched /\ ~guest /\ order = "none" /\ token # 0
         /\ loc[p].mode \in ForVMModes /\ status # "PROVISIONED" /\ (owed > 0 => status \in Refused)
         /\ pc[p] \in {"giveup", "discard"} => loc[p].mode = "return"
<1>1. ForVM /\ Busy(p) /\ PollerRelies(p) /\ pc[p] \notin Handoff \cup Refunding /\ pc[p] # "start"
  BY Poller DEF PollerRelies, Busy, Waiting, Handoff, Checks, Cleanup, Refunding
<1>2. /\ ~Launched /\ token # 0 /\ loc[p].mode \in ForVMModes /\ status # "PROVISIONED"
      /\ pc[p] \in {"giveup", "discard"} => loc[p].mode = "return"
  BY <1>1 DEF PollerRelies
<1>3. ~guest /\ order = "none" /\ (owed > 0 => status \in Refused)
  BY <1>1, <1>2 DEF Core, RowFollowsIntent, RefundEnds, Launched
<1> QED
  BY <1>1, <1>2, <1>3

\* A step of the cleanup: it goes on, to the refund that was still to be recorded, or ends.
LEMMA CleanOK ==
  ASSUME Core, NEW p \in terms.fleet, pc[p] \in Cleanup, NEW place \in Cleanup \cup {"refund", "idle"},
         Goto(p, place), Typed, UNCHANGED <<status, token, owed, guest, order>>, vm' \in {vm, "none", "released"},
         place \in {"giveup", "discard"} => pc[p] \in {"giveup", "discard"},
         place = "refund" => pc[p] \in {"giveup", "discard"} \/ loc[p].mode = "recover"
  PROVE  Core'
<1>1. Moved(p) /\ pc'[p] = place /\ loc'[p] = (IF place = "idle" THEN Fresh ELSE loc[p])
  BY Going, Poller DEF Core, Places, Waiting, Refunding
<1>2. vm' \notin {"ready", "delivered", "failed"}
  BY Cleaning DEF Launched
<1>3. PollerRelies(p)'
  <2>1. CASE place = "idle"
    BY <1>1, <2>1, IdleRelies
  <2>2. CASE place # "idle"
    BY <1>1, <1>2, <2>2, Cleaning, Poller DEF PollerRelies, Busy, Waiting, Handoff, Checks, Cleanup, Ordering, Refunding,
       ForVM, ForVMModes, Launched, Typed
  <2> QED
    BY <2>1, <2>2
<1>4. \A q \in Pollers \ {p} : PollerRelies(q)'
  BY <1>1, <1>2, Cleaning, OthersAside
<1>5. RowFollowsIntent'
  BY <1>2, Cleaning DEF Core, RowFollowsIntent, ForVM, Launched, Typed
<1>6. pc'[p] # "owe" /\ (loc'[p].token = 1 => loc[p].token = 1)
  BY <1>1, FreshRow DEF Cleanup
<1> QED
  BY <1>1, <1>3, <1>4, <1>5, <1>6, Cleaning, PollerActs

LEMMA ReleaseOK == ASSUME Core, NEW p \in terms.fleet, Release(p) PROVE Core'
<1> DEFINE place == CASE vm = "reserved" /\ At(p, "release") -> "erase"
                      [] vm = "reserved" /\ At(p, "giveup") -> "discard"
                      [] vm # "reserved" /\ At(p, "release") -> "fail"
                      [] vm # "reserved" /\ At(p, "giveup") -> "refund"
<1>1. /\ pc[p] \in {"release", "giveup"} /\ Typed /\ UNCHANGED <<status, token, owed, vm, guest, order>>
      /\ Goto(p, place)
  BY DEF Release, Typed, Core, TypeOK
<1>2. place \in {"erase", "discard", "fail", "refund"} /\ (place \in {"discard", "refund"} => pc[p] = "giveup")
  BY <1>1
<1> HIDE DEF place
<1> QED
  BY <1>1, <1>2, CleanOK DEF Cleanup

LEMMA EraseOK == ASSUME Core, NEW p \in terms.fleet, Erase(p) PROVE Core'
<1> DEFINE place == IF At(p, "erase") THEN "fail" ELSE "refund"
<1>1. /\ pc[p] \in {"erase", "discard"} /\ Typed /\ UNCHANGED <<status, token, owed, guest, order>> /\ vm' = "none"
      /\ Goto(p, place)
  BY DEF Erase, Typed, Core, TypeOK
<1>2. place \in {"fail", "refund"} /\ (place = "refund" => pc[p] = "discard")
  BY <1>1
<1> HIDE DEF place
<1> QED
  BY <1>1, <1>2, CleanOK DEF Cleanup

LEMMA MarkFailedOK == ASSUME Core, NEW p \in terms.fleet, MarkFailed(p) PROVE Core'
<1> DEFINE place == IF vm \in {"none", "failed", "released"} THEN "unclaim" ELSE "free"
<1>1. /\ pc[p] = "fail" /\ Typed /\ UNCHANGED <<status, token, owed, vm, guest, order>> /\ Goto(p, place)
  BY DEF MarkFailed, Typed, Core, TypeOK
<1>2. place \in {"unclaim", "free"}
  OBVIOUS
<1> HIDE DEF place
<1> QED
  BY <1>1, <1>2, CleanOK DEF Cleanup

LEMMA FreePrefixOK == ASSUME Core, NEW p \in terms.fleet, FreePrefix(p) PROVE Core'
<1>1. /\ pc[p] = "free" /\ UNCHANGED <<status, token, owed, guest, order>> /\ vm' \in {vm, "released"}
      /\ Goto(p, "idle") \/ Goto(p, "unclaim")
  BY DEF FreePrefix
<1>2. Typed
  BY <1>1 DEF FreePrefix, Typed, Core, TypeOK
<1> QED
  BY <1>1, <1>2, CleanOK DEF Cleanup

LEMMA UnclaimOK == ASSUME Core, NEW p \in terms.fleet, Unclaim(p) PROVE Core'
<1>0. attached' \in BOOLEAN
  BY DEF Unclaim
<1>1. /\ pc[p] = "unclaim" /\ Typed /\ UNCHANGED <<status, token, owed, vm, guest, order>>
      /\ Goto(p, IF loc[p].mode = "recover" THEN "refund" ELSE "idle")
  BY <1>0 DEF Unclaim, Typed, Core, TypeOK
<1>2. CASE loc[p].mode = "recover"
  BY <1>1, <1>2, CleanOK DEF Cleanup
<1>3. CASE loc[p].mode # "recover"
  BY <1>1, <1>3, CleanOK DEF Cleanup
<1> QED
  BY <1>2, <1>3

\* What a worker knows while it refunds: for a VM it is the process that linked and failed, or the
\* intent is not linked; for a domain order there is no VM.
LEMMA RefundingPoller ==
  ASSUME Core, NEW p \in terms.fleet, pc[p] \in Refunding
  PROVE  /\ Busy(p) /\ ~Launched /\ ~guest /\ token # 0
         /\ ForVM => /\ loc[p].mode \in {"return", "error", "recover"} /\ order = "none"
                     /\ status = "PROVISIONED" => vm = "pending" /\ loc[p].mode = "error"
         /\ ~ForVM => vm = "none" /\ loc[p].mode \notin ForVMModes
<1>1. Busy(p) /\ PollerRelies(p) /\ pc[p] \notin Handoff /\ pc[p] # "start"
  BY Poller DEF PollerRelies, Busy, Waiting, Handoff, Checks, Refunding
<1>2. /\ ~Launched /\ token # 0 /\ (~ForVM => loc[p].mode \notin ForVMModes)
      /\ ForVM => loc[p].mode \in ForVMModes \ {"fence"}
      /\ ForVM /\ status = "PROVISIONED" => vm = "pending" /\ loc[p].mode = "error"
  BY <1>1 DEF PollerRelies
<1> QED
  BY <1>1, <1>2 DEF Core, RowFollowsIntent, Launched, ForVMModes

\* What the refund read is known until it is written.
LEMMA Reading ==
  ASSUME Core, NEW p \in Workers, RefundRead(p)
  PROVE  /\ pc[p] = "refund" /\ Typed /\ UNCHANGED <<status, token, owed, vm, guest, order>>
         /\ Moved(p) /\ pc'[p] = "owe" /\ loc'[p].token = loc[p].token /\ loc'[p].mode = loc[p].mode
         /\ loc'[p].wasOwed <=> owed > 0
         /\ loc'[p].wasDone <=> status = "REFUND_MANUAL"
         /\ loc'[p].wasAwaiting <=> order = "awaiting_payment"
<1> DEFINE a == owed > 0
           b == status = "REFUND_MANUAL"
           c == order = "awaiting_payment"
           knows == [loc[p] EXCEPT !.wasOwed = a, !.wasDone = b, !.wasAwaiting = c]
<1>1. /\ pc[p] = "refund" /\ Typed /\ UNCHANGED <<status, token, owed, vm, guest, order>>
      /\ Move(p, "owe", knows)
  BY DEF RefundRead, Typed, Core, TypeOK
<1>2. a \in BOOLEAN /\ b \in BOOLEAN /\ c \in BOOLEAN /\ loc[p] \in LocRows(loc[p].total)
  BY DEF Core, TypeOK
<1> HIDE DEF a, b, c
<1>3. /\ knows \in LocRows(knows.total) /\ knows.token = loc[p].token /\ knows.mode = loc[p].mode
      /\ knows.wasOwed = a /\ knows.wasDone = b /\ knows.wasAwaiting = c
  BY <1>2 DEF LocRows
<1> HIDE DEF knows
<1>4. Moved(p) /\ pc'[p] = "owe" /\ loc'[p] = knows
  BY <1>1, <1>3, Moving DEF Core, Places, Refunding
<1>5. (loc'[p].wasOwed <=> a) /\ (loc'[p].wasDone <=> b) /\ (loc'[p].wasAwaiting <=> c)
  BY <1>3, <1>4
<1> QED
  BY <1>1, <1>3, <1>4, <1>5 DEF a, b, c

LEMMA RefundReadOK == ASSUME Core, NEW p \in terms.fleet, RefundRead(p) PROVE Core'
<1>1. pc[p] = "refund" /\ pc[p] \in Refunding /\ p \in Workers
  BY Poller DEF RefundRead, Refunding
<1>2. PollerRelies(p)'
  BY <1>1, Reading, RefundingPoller, Poller DEF PollerRelies, Busy, Waiting, Handoff, Checks, Cleanup, Ordering, Refunding,
     ForVM, Launched, Typed
<1>3. ForVM => (loc'[p].wasDone => status \in Refused) /\ ~loc'[p].wasAwaiting
  BY <1>1, Reading, RefundingPoller DEF Refused
<1> QED
  BY <1>1, <1>2, <1>3, Reading, Quietly

\* The end of a refund, recorded or failed: the caller returns or, after an error, cleans up.
LEMMA AfterRefundRelies ==
  ASSUME Core, NEW p \in terms.fleet, pc[p] \in Refunding, Goto(p, AfterRefund(p)), Typed,
         token' = token, vm' = vm, ForVM /\ loc[p].mode = "error" => status' \in Refused
  PROVE  Moved(p) /\ PollerRelies(p)' /\ pc'[p] # "owe" /\ (loc'[p].token = 1 => loc[p].token = 1)
<1>1. CASE loc[p].mode = "error" /\ loc[p].reserved
  <2>1. Moved(p) /\ pc'[p] = "release" /\ loc'[p] = loc[p]
    BY <1>1, Going, Poller DEF AfterRefund, Core, Places, Cleanup
  <2>2. ForVM /\ loc[p].mode = "error"
    BY <1>1, RefundingPoller DEF ForVMModes
  <2>3. PollerRelies(p)'
    BY <2>1, <2>2, RefundingPoller, Poller DEF PollerRelies, Busy, Waiting, Handoff, Checks, Cleanup, Ordering, Refunding,
       ForVM, Launched, Typed, Refused
  <2> QED
    BY <2>1, <2>3
<1>2. CASE ~(loc[p].mode = "error" /\ loc[p].reserved)
  <2>1. Moved(p) /\ pc'[p] = "idle" /\ loc'[p] = Fresh
    BY <1>2, Going, Poller DEF AfterRefund, Core, Places, Waiting
  <2> QED
    BY <2>1, IdleRelies, FreshRow
<1> QED
  BY <1>1, <1>2

LEMMA OweOK == ASSUME Core, NEW p \in terms.fleet, Owe(p) PROVE Core'
<1>1. /\ pc[p] = "owe" /\ pc[p] \in Refunding /\ UNCHANGED <<token, vm, guest>> /\ Goto(p, AfterRefund(p))
      /\ status' = (IF loc[p].wasDone THEN status ELSE "REFUND_MANUAL")
      /\ order' = (IF loc[p].wasAwaiting THEN "refund_due" ELSE order)
  BY DEF Owe, Refunding
<1>2. owed' \in Nat
  BY DEF Owe, Core, TypeOK
<1>3. Typed
  BY <1>1, <1>2 DEF Owe, Typed, Core, TypeOK, Terminal
<1>4. ForVM => status' \in Refused /\ order' = order
  BY <1>1, Poller DEF Core, RefundEnds, Refused
<1>5. Moved(p) /\ PollerRelies(p)' /\ pc'[p] # "owe" /\ (loc'[p].token = 1 => loc[p].token = 1)
  BY <1>1, <1>3, <1>4, AfterRefundRelies
<1>6. \A q \in Pollers \ {p} : PollerRelies(q)'
  BY <1>1, <1>3, <1>4, <1>5, RefundingPoller, OthersAside DEF Refused, Launched
<1>7. RowFollowsIntent'
  BY <1>1, <1>3, <1>4, RefundingPoller DEF Core, RowFollowsIntent, ForVM, Launched, Typed, Refused
<1> QED
  BY <1>1, <1>3, <1>4, <1>5, <1>6, <1>7, RefundingPoller, PollerActs

LEMMA RefundRaisesOK == ASSUME Core, NEW p \in terms.fleet, RefundRaises(p) PROVE Core'
<1>1. /\ pc[p] \in Refunding /\ UNCHANGED <<token, owed, vm, guest, order>>
      /\ status' = (IF loc[p].mode = "error" THEN "FAILED" ELSE status)
  BY DEF RefundRaises, Refunding
<1>2. Typed
  BY <1>1 DEF RefundRaises, GoesWrong, Typed, Core, TypeOK, Terminal
<1>3. CASE loc[p].mode = "return"
  <2>1. Turn(p, "error", "refund") /\ status' = status
    BY <1>1, <1>3 DEF RefundRaises
  <2>2. Moved(p) /\ pc'[p] = "refund" /\ loc'[p].mode = "error" /\ loc'[p].token = loc[p].token
    BY <2>1, HandoffPlaces, Turning, Poller DEF Core
  <2>3. PollerRelies(p)'
    BY <1>1, <1>2, <1>3, <2>1, <2>2, RefundingPoller, Poller DEF PollerRelies, Busy, Waiting, Handoff, Checks, Cleanup, Ordering,
       Refunding, ForVM, ForVMModes, Launched, Typed
  <2> QED
    BY <1>1, <1>2, <2>1, <2>2, <2>3, Quietly
<1>4. CASE loc[p].mode # "return"
  <2>1. Goto(p, AfterRefund(p))
    BY <1>4 DEF RefundRaises
  <2>2. Moved(p) /\ PollerRelies(p)' /\ pc'[p] # "owe" /\ (loc'[p].token = 1 => loc[p].token = 1)
    BY <1>1, <1>2, <2>1, AfterRefundRelies DEF Refused
  <2>3. CASE loc[p].mode # "error"
    BY <1>1, <1>2, <2>2, <2>3, Quietly
  <2>4. CASE loc[p].mode = "error"
    <3>1. ForVM /\ status' = "FAILED"
      BY <1>1, <2>4, RefundingPoller DEF ForVMModes
    <3>2. \A q \in Pollers \ {p} : PollerRelies(q)'
      BY <1>1, <1>2, <2>2, <3>1, RefundingPoller, OthersAside DEF Refused, Launched
    <3>3. RowFollowsIntent'
      BY <1>1, <1>2, <3>1, RefundingPoller DEF Core, RowFollowsIntent, ForVM, Launched, Typed, Refused
    <3> QED
      BY <1>1, <1>2, <2>2, <3>1, <3>2, <3>3, RefundingPoller, PollerActs DEF Refused
  <2> QED
    BY <2>3, <2>4
<1> QED
  BY <1>3, <1>4

\* A recovery takes the token: whoever is at work from now on works in vain.
LEMMA RecoverOK == ASSUME Core, NEW p \in terms.fleet, Recover(p) PROVE Core'
<1>1. /\ pc[p] = "idle" /\ status = "PROVISIONING" /\ ForVM /\ token' = token + 1 /\ ripe' = FALSE
      /\ UNCHANGED <<status, owed, vm, guest, order>> /\ token < MaxToken
      /\ Turn(p, "recover", IF planned THEN "release" ELSE "refund")
  BY DEF Recover, ForVM
<1>2. token # 0 /\ token \in Nat /\ token' \in 0..MaxToken /\ token' > 1
  <2>1. token \in Nat /\ token \in 0..MaxToken /\ token # 0
    BY <1>1, Poller DEF Core, RowFollowsIntent
  <2> QED
    BY <1>1, <2>1, BoundsAreNumbers
<1>3. Typed
  BY <1>1, <1>2 DEF Recover, Typed, Core, TypeOK
<1>4. ~Launched /\ loc[p].token = 0 /\ owed = 0
  BY <1>1, Poller DEF Core, RowFollowsIntent, RefundEnds, PollerRelies, Busy, Waiting, Refused, TypeOK
<1>5. /\ Moved(p) /\ pc'[p] \in {"release", "refund"} /\ loc'[p].mode = "recover" /\ loc'[p].token = 0
  BY <1>1, <1>4, HandoffPlaces, Turning, Poller DEF Core
<1>6. PollerRelies(p)'
  BY <1>1, <1>2, <1>3, <1>4, <1>5, Poller DEF PollerRelies, Busy, Waiting, Handoff, Checks, Cleanup, Ordering,
       Refunding, ForVM, ForVMModes, Launched, Typed
<1>7. \A q \in Pollers \ {p} : PollerRelies(q)'
  BY <1>1, <1>2, <1>3, <1>4, <1>5, Others DEF Moved, Workers, Launched, Typed
<1>8. RowFollowsIntent'
  BY <1>1, <1>2, <1>3, <1>4 DEF Core, RowFollowsIntent, ForVM, Launched, Typed, Refused
<1> QED
  BY <1>1, <1>3, <1>4, <1>5, <1>6, <1>7, <1>8, PollerActs

----------------------------------------------------------------------------
(* The handoff to a domain order.                                          *)

\* What a worker knows while it hands over to a domain order.
LEMMA OrderingPoller ==
  ASSUME Core, NEW p \in terms.fleet, pc[p] \in Ordering
  PROVE  ~ForVM /\ Busy(p) /\ vm = "none" /\ ~guest /\ ~Launched /\ token # 0 /\ loc[p].mode \notin ForVMModes
<1>1. ~ForVM /\ Busy(p) /\ PollerRelies(p)
  BY Poller DEF PollerRelies, Busy, Waiting, Ordering
<1> QED
  BY <1>1 DEF PollerRelies, Core, RowFollowsIntent, Launched

\* A step of it ends, goes on, or turns to the refund.
LEMMA OrderOK ==
  ASSUME Core, NEW p \in terms.fleet, pc[p] \in Ordering, Moved(p), Typed, UNCHANGED <<token, vm, guest>>,
         pc'[p] \in Ordering \cup {"refund", "idle"}, loc'[p].token \in {0, loc[p].token},
         loc'[p].mode \notin ForVMModes, pc'[p] = "idle" => loc'[p] = Fresh,
         status' \in {status, "PROVISIONED", "REFUND_MANUAL"}
  PROVE  Core'
<1>1. PollerRelies(p)'
  <2>1. CASE pc'[p] = "idle"
    BY <2>1, IdleRelies
  <2>2. CASE pc'[p] # "idle"
    BY <2>2, OrderingPoller, Poller DEF PollerRelies, Busy, Waiting, Handoff, Checks, Cleanup, Ordering, Refunding,
       ForVM, Launched, Typed
  <2> QED
    BY <2>1, <2>2
<1>2. \A q \in Pollers \ {p} : PollerRelies(q)'
  BY OrderingPoller, OthersAside
<1>3. RowFollowsIntent'
  BY OrderingPoller DEF Core, RowFollowsIntent, ForVM, Launched, Typed, Refused
<1> QED
  BY <1>1, <1>2, <1>3, OrderingPoller, PollerActs

LEMMA MarkPaidOK == ASSUME Core, NEW p \in terms.fleet, MarkPaid(p) PROVE Core'
<1> DEFINE knows == [loc[p] EXCEPT !.due = order' = "refund_due"]
<1>1. pc[p] = "handoff" /\ pc[p] \in Ordering /\ UNCHANGED <<token, vm, guest, status>>
  BY DEF MarkPaid, Ordering
<1>2. owed' \in Nat /\ order' \in {order, "queued", "refund_due"}
  BY DEF MarkPaid, Core, TypeOK
<1>3. Typed
  BY <1>1, <1>2 DEF MarkPaid, GoesWrong, Typed, Core, TypeOK
<1>4. CASE Move(p, "settle", knows)
  <2>1. knows \in LocRows(knows.total) /\ knows.token = loc[p].token /\ knows.mode = loc[p].mode
    BY Poller DEF LocRows
  <2>2. Move(p, "settle", knows)
    BY <1>4
  <2> HIDE DEF knows
  <2>3. Moved(p) /\ pc'[p] = "settle" /\ loc'[p] = knows
    BY <2>1, <2>2, Moving, Poller DEF Core, Places, Ordering
  <2> QED
    BY <1>1, <1>3, <2>1, <2>3, OrderOK, OrderingPoller DEF Ordering
<1>5. CASE Goto(p, IF loc[p].mode = "trigger" THEN "reread" ELSE "idle")
  <2>1. Moved(p) /\ pc'[p] \in {"reread", "idle"} /\ loc'[p] = IF pc'[p] = "idle" THEN Fresh ELSE loc[p]
    BY <1>5, Going, Poller DEF Core, Places, Ordering, Waiting
  <2> QED
    BY <1>1, <1>3, <2>1, OrderOK, OrderingPoller, FreshRow DEF Ordering, ForVMModes
<1> QED
  BY <1>4, <1>5 DEF MarkPaid

LEMMA MarkPaidRaisesOK == ASSUME Core, NEW p \in terms.fleet, MarkPaidRaises(p) PROVE Core'
<1>1. pc[p] = "handoff" /\ pc[p] \in Ordering /\ UNCHANGED <<token, vm, guest, status>> /\ Typed
  BY DEF MarkPaidRaises, Ordering, GoesWrong, Typed, Core, TypeOK
<1>2. Goto(p, IF loc[p].mode = "trigger" THEN "reread" ELSE "idle")
  BY DEF MarkPaidRaises
<1>3. Moved(p) /\ pc'[p] \in {"reread", "idle"} /\ loc'[p] = IF pc'[p] = "idle" THEN Fresh ELSE loc[p]
  BY <1>2, Going, Poller DEF Core, Places, Ordering, Waiting
<1> QED
  BY <1>1, <1>3, OrderOK, OrderingPoller, FreshRow DEF Ordering, ForVMModes

LEMMA SettleOrderOK == ASSUME Core, NEW p \in terms.fleet, SettleOrder(p) PROVE Core'
<1>1. /\ pc[p] = "settle" /\ pc[p] \in Ordering /\ UNCHANGED <<token, vm, guest>> /\ Goto(p, "idle")
      /\ status' \in {status, "PROVISIONED", "REFUND_MANUAL"}
  BY DEF SettleOrder, Ordering
<1>2. Typed
  BY <1>1 DEF SettleOrder, Typed, Core, TypeOK, Terminal
<1>3. Moved(p) /\ pc'[p] = "idle" /\ loc'[p] = Fresh
  BY <1>1, Going, Poller DEF Core, Places, Waiting
<1> QED
  BY <1>1, <1>2, <1>3, OrderOK, FreshRow DEF ForVMModes

LEMMA RereadOK == ASSUME Core, NEW p \in terms.fleet, Reread(p) PROVE Core'
<1>1. /\ pc[p] = "reread" /\ pc[p] \in Ordering /\ UNCHANGED <<token, vm, guest>>
      /\ status' \in {status, "PROVISIONED", "REFUND_MANUAL"}
      /\ Goto(p, "idle") \/ Turn(p, "domain", "refund")
  BY DEF Reread, Ordering
<1>2. Typed
  BY <1>1 DEF Reread, Typed, Core, TypeOK, Terminal
<1>3. CASE Goto(p, "idle")
  <2>1. Moved(p) /\ pc'[p] = "idle" /\ loc'[p] = Fresh
    BY <1>3, Going, Poller DEF Core, Places, Waiting
  <2> QED
    BY <1>1, <1>2, <2>1, OrderOK, FreshRow DEF ForVMModes
<1>4. CASE Turn(p, "domain", "refund")
  <2>1. Moved(p) /\ pc'[p] = "refund" /\ loc'[p].mode = "domain" /\ loc'[p].token = loc[p].token
    BY <1>4, HandoffPlaces, Turning, Poller DEF Core
  <2> QED
    BY <1>1, <1>2, <2>1, OrderOK DEF ForVMModes
<1> QED
  BY <1>1, <1>3, <1>4

LEMMA ResumeOrderOK == ASSUME Core, NEW p \in terms.fleet, ResumeOrder(p) PROVE Core'
<1>1. /\ pc[p] = "idle" /\ status = "PROVISIONING" /\ ~ForVM /\ Turn(p, "resume", "handoff")
      /\ Typed /\ UNCHANGED <<status, token, owed, vm, guest, order>>
  BY DEF ResumeOrder, ForVM, Typed, Core, TypeOK
<1>2. token # 0 /\ vm = "none" /\ ~Launched /\ loc[p].token = 0
  BY <1>1, Poller DEF Core, RowFollowsIntent, Launched, PollerRelies, Busy, Waiting
<1>3. Moved(p) /\ pc'[p] = "handoff" /\ loc'[p].mode = "resume" /\ loc'[p].token = 0
  BY <1>1, <1>2, HandoffPlaces, Turning, Poller DEF Core, Places, Ordering
<1>4. PollerRelies(p)'
  BY <1>1, <1>2, <1>3, Poller DEF PollerRelies, Busy, Waiting, Handoff, Checks, Cleanup, Ordering, Refunding,
     ForVM, ForVMModes, Launched, Typed
<1> QED
  BY <1>1, <1>3, <1>4, Quietly

LEMMA CrashOK == ASSUME Core, NEW p \in terms.fleet, Crash(p) PROVE Core'
<1>1. Goto(p, "idle") /\ Typed /\ UNCHANGED <<status, token, owed, vm, guest, order>>
  BY DEF Crash, GoesWrong, Typed, Core, TypeOK
<1> QED
  BY <1>1, EndOK

LEMMA PollerOK == ASSUME Core, "start" \notin LostAt, NEW p \in terms.fleet, PollerNext(p) PROVE Core'
  BY ListedOK, PollOK, ApplyOK, TriggerOK, HandoffOK, RefundReadOK, OweOK, ReleaseOK, EraseOK, MarkFailedOK, FreePrefixOK,
     UnclaimOK, MarkPaidOK, SettleOrderOK, RereadOK, RecoverOK, ResumeOrderOK, RefundRaisesOK, MarkPaidRaisesOK, CrashOK
  DEF PollerNext, PollStep, RefundStep, CleanupStep, OrderStep

----------------------------------------------------------------------------
(* The customer, the clock, the sweeper and the attempt.                   *)

\* What is left to show of a step that no worker makes.
LEMMA StillOK ==
  ASSUME Core, TypeOK', UNCHANGED workers, UNCHANGED <<terms, token, owed, vm, guest>>,
         order' = order \/ (~ForVM /\ order' = "expired"),
         status' = status \/ (status = "none" /\ status' = "CREATED")
  PROVE  Core'
<1>0. status = "none" => token = 0 /\ owed = 0
  BY DEF Core, TypeOK, RowFollowsIntent, Refused, RefundEnds
<1>1. \A q \in Pollers : PollerRelies(q)'
  <2> SUFFICES ASSUME NEW q \in Pollers PROVE PollerRelies(q)'
    OBVIOUS
  <2>1. PollerRelies(q) /\ pc' = pc /\ loc' = loc /\ terms' = terms /\ token' = token /\ vm' = vm
    BY DEF Core, WorkersRely
  <2>2. CASE status' = status
    BY <2>1, <2>2 DEF PollerRelies, Busy, ForVM, Launched
  <2>3. CASE status = "none"
    <3>1. ~Busy(q) /\ loc[q].token = 0
      BY <1>0, <2>3, NobodyBusy
    <3> QED
      BY <2>1, <3>1 DEF PollerRelies, Busy, ForVM, Waiting, Handoff, Checks, Cleanup, Ordering, Refunding
  <2> QED
    BY <2>2, <2>3
<1>2. DaemonsRely'
  BY DEF Core, WorkersRely, DaemonsRely
<1>3. RowFollowsIntent'
  BY <1>0 DEF Core, RowFollowsIntent, ForVM, Launched, TypeOK
<1>4. RefundEnds'
  BY <1>0 DEF Core, RefundEnds, ForVM, Refused
<1> QED
  BY <1>1, <1>2, <1>3, <1>4 DEF Core, WorkersRely

LEMMA InsertIntentOK == ASSUME Core, InsertIntent PROVE Core'
<1>1. TypeOK'
  BY DEF InsertIntent, Core, TypeOK
<1> QED
  BY <1>1, StillOK DEF InsertIntent

LEMMA DepositOK == ASSUME Core, NEW a \in Amounts, Deposit(a) PROVE Core'
<1>1. chain' \in Seq([amount : Amounts, deep : BOOLEAN])
  <2>1. chain \in Seq([amount : Amounts, deep : BOOLEAN]) /\ [amount |-> a, deep |-> FALSE] \in [amount : Amounts, deep : BOOLEAN]
    BY DEF Core, TypeOK
  <2> QED
    BY <2>1 DEF Deposit
<1>2. TypeOK'
  BY <1>1 DEF Deposit, Core, TypeOK
<1> QED
  BY <1>2, StillOK DEF Deposit

LEMMA ConfirmOK == ASSUME Core, NEW i \in DOMAIN chain, Confirm(i) PROVE Core'
<1>1. chain' \in Seq([amount : Amounts, deep : BOOLEAN])
  <2>1. chain \in Seq([amount : Amounts, deep : BOOLEAN])
    BY DEF Core, TypeOK
  <2>5. chain' = [chain EXCEPT ![i] = [chain[i] EXCEPT !.deep = TRUE]]
    BY DEF Confirm
  <2>4. i \in 1..Len(chain) /\ DOMAIN chain = 1..Len(chain)
    BY <2>1, SMT
  <2>2. chain[i] \in [amount : Amounts, deep : BOOLEAN]
    BY <2>1, <2>4, ElementOfSeq
  <2>3. [chain[i] EXCEPT !.deep = TRUE] \in [amount : Amounts, deep : BOOLEAN]
    BY <2>2
  <2> QED
    BY <2>1, <2>3, <2>4, <2>5, ExceptSeq
<1>2. TypeOK'
  BY <1>1 DEF Confirm, Core, TypeOK
<1> QED
  BY <1>2, StillOK DEF Confirm

LEMMA TimeOK == ASSUME Core, ClockAdvances \/ QuoteTaken \/ ExpireOrder PROVE Core'
<1>1. CASE ClockAdvances
  <2>2. late' \in BOOLEAN /\ expired' \in BOOLEAN /\ ripe' \in BOOLEAN
    <3>1. late \in BOOLEAN /\ expired \in BOOLEAN /\ ripe \in BOOLEAN
      BY DEF Core, TypeOK
    <3> QED
      BY <1>1, <3>1, Zenon DEF ClockAdvances
  <2>3. UNCHANGED <<terms, chain, status, token, planned, owed, vm, guest, quote, attached, order, pc, loc, mishaps>>
    BY <1>1 DEF ClockAdvances
  <2>1. TypeOK'
    BY <2>2, <2>3 DEF Core, TypeOK
  <2> QED
    BY <1>1, <2>1, StillOK DEF ClockAdvances
<1>2. CASE QuoteTaken
  <2>1. TypeOK'
    BY <1>2 DEF QuoteTaken, Core, TypeOK
  <2> QED
    BY <1>2, <2>1, StillOK DEF QuoteTaken
<1>3. CASE ExpireOrder
  <2>1. TypeOK'
    BY <1>3 DEF ExpireOrder, Core, TypeOK
  <2>2. ~ForVM
    BY <1>3 DEF ExpireOrder, Core, RowFollowsIntent
  <2> QED
    BY <1>3, <2>1, <2>2, StillOK DEF ExpireOrder
<1> QED
  BY <1>1, <1>2, <1>3

LEMMA Daemons == {Attempt, Sweeper} \subseteq Workers /\ Attempt # Sweeper
  BY DEF Workers, Attempt, Sweeper

\* The workers' part of a daemon's step: none relies on what it changes.
LEMMA DaemonAside ==
  ASSUME Core, NEW w \in {Attempt, Sweeper}, Moved(w), Typed, token' = token,
         ForVM /\ status \in Refused => status' \in Refused,
         UNCHANGED <<status, vm>> \/ Launched \/ (vm = "reserved" /\ vm' = "none" /\ status' = status)
  PROVE  \A q \in Pollers : PollerRelies(q)'
<1> SUFFICES ASSUME NEW q \in Pollers PROVE PollerRelies(q)'
  OBVIOUS
<1>1. pc'[q] = pc[q] /\ loc'[q] = loc[q] /\ terms' = terms /\ PollerRelies(q)
  BY PollersDistinct DEF Moved, Workers, Typed, Core, WorkersRely
<1>2. CASE UNCHANGED <<status, vm>> \/ ~Busy(q)
  BY <1>1, <1>2, Others
<1>3. CASE Launched
  BY <1>1, <1>2, <1>3 DEF PollerRelies
<1>4. CASE vm = "reserved" /\ vm' = "none" /\ status' = status /\ Busy(q)
  <2>1. ForVM /\ Busy(q)' /\ ForVM' /\ token' = token
    BY <1>1, <1>4 DEF Core, RowFollowsIntent, ForVM, Busy
  <2> QED
    BY <1>1, <1>4, <2>1 DEF PollerRelies, Launched
<1> QED
  BY <1>2, <1>3, <1>4

LEMMA SweeperOK == ASSUME Core, SweeperStep PROVE Core'
<1>1. PICK place \in {"idle", "purge"} : Goto(Sweeper, place)
  BY DEF SweeperStep, SelectReservation, PurgeReservation
<1>2. /\ UNCHANGED <<status, token, owed, guest, order>>
      /\ vm' = vm \/ (vm = "reserved" /\ vm' = "none")
  BY DEF SweeperStep, SelectReservation, PurgeReservation
<1>3. Typed
  <2>1. attached' \in BOOLEAN
    BY DEF SweeperStep, SelectReservation, PurgeReservation, Core, TypeOK
  <2>2. UNCHANGED <<terms, chain, late, expired, ripe, planned, mishaps, quote>>
    BY DEF SweeperStep, SelectReservation, PurgeReservation
  <2> QED
    BY <1>2, <2>1, <2>2 DEF Typed, Core, TypeOK
<1>4. Moved(Sweeper) /\ pc'[Sweeper] = place /\ loc'[Sweeper] = IF place = "idle" THEN Fresh ELSE loc[Sweeper]
  BY <1>1, Going, Daemons DEF Core, Places, Waiting
<1>5. \A q \in Pollers : PollerRelies(q)'
  BY <1>2, <1>3, <1>4, DaemonAside
<1>6. DaemonsRely'
  BY <1>2, <1>4, Daemons DEF Core, WorkersRely, DaemonsRely, Moved, Refunding
<1>7. RowFollowsIntent'
  BY <1>2, <1>3 DEF Core, RowFollowsIntent, ForVM, Launched, Typed
<1>8. ForVM /\ owed' > 0 => status' \in Refused
  BY <1>2 DEF Core, RefundEnds
<1> QED
  BY <1>2, <1>3, <1>4, <1>5, <1>6, <1>7, <1>8, FreshRow, Daemons, Assembled

\* What the attempt knows: the VM is dispatched, so nobody else is at work on it.
LEMMA Attempting ==
  ASSUME Core, pc[Attempt] # "idle" \/ vm = "ready"
  PROVE  /\ ForVM /\ Launched /\ order = "none" /\ token # 0 /\ (owed > 0 => status \in Refused)
         /\ pc[Attempt] \in {"clone", "await"} => vm = "ready" /\ status = "PROVISIONED"
         /\ pc[Attempt] \in Refunding => vm = "failed" /\ status = "PROVISIONED"
         /\ pc[Attempt] \in {"idle", "clone", "await"} \cup Refunding
         /\ loc[Attempt].mode = "none" /\ \A q \in Pollers : ~Busy(q) /\ loc[q].token = 0
<1>1. Launched
  BY DEF Core, WorkersRely, DaemonsRely, Launched
<1>2. ForVM /\ order = "none" /\ token # 0 /\ (vm # "failed" => status = "PROVISIONED")
  BY <1>1 DEF Core, RowFollowsIntent, Launched
<1> QED
  BY <1>1, <1>2 DEF Core, WorkersRely, DaemonsRely, RefundEnds, PollerRelies, Refunding

LEMMA DispatchOK == ASSUME Core, Dispatch PROVE Core'
<1>1. /\ Goto(Attempt, "clone") /\ pc[Attempt] = "idle" /\ vm = "ready" /\ Typed
      /\ UNCHANGED <<status, token, owed, vm, guest, order>>
  BY DEF Dispatch, Typed, Core, TypeOK
<1>2. Moved(Attempt) /\ pc'[Attempt] = "clone" /\ loc'[Attempt] = loc[Attempt]
  BY <1>1, Going, Daemons DEF Core, Places
<1>3. \A q \in Pollers : PollerRelies(q)'
  BY <1>1, <1>2, DaemonAside
<1>4. DaemonsRely'
  BY <1>1, <1>2, Attempting, Daemons DEF Core, WorkersRely, DaemonsRely, Moved, Refunding
<1>5. RowFollowsIntent'
  BY <1>1 DEF Core, RowFollowsIntent, ForVM, Launched, Typed
<1> QED
  BY <1>1, <1>2, <1>3, <1>4, <1>5, Attempting, Daemons, Assembled

LEMMA CloneOK == ASSUME Core, Clone PROVE Core'
<1>1. /\ Goto(Attempt, "await") /\ pc[Attempt] = "clone" /\ guest' = TRUE /\ Typed
      /\ UNCHANGED <<status, token, owed, vm, order>>
  BY DEF Clone, Typed, Core, TypeOK
<1>2. Moved(Attempt) /\ pc'[Attempt] = "await" /\ loc'[Attempt] = loc[Attempt]
  BY <1>1, Going, Daemons DEF Core, Places
<1>3. \A q \in Pollers : PollerRelies(q)'
  BY <1>1, <1>2, DaemonAside
<1>4. DaemonsRely'
  BY <1>1, <1>2, Attempting, Daemons DEF Core, WorkersRely, DaemonsRely, Moved, Refunding
<1>5. RowFollowsIntent'
  BY <1>1, Attempting DEF Core, RowFollowsIntent, ForVM, Launched, Typed
<1> QED
  BY <1>1, <1>2, <1>3, <1>4, <1>5, Attempting, Daemons, Assembled

LEMMA ConcludeOK == ASSUME Core, Conclude PROVE Core'
<1>0. /\ pc[Attempt] \in {"clone", "await"} /\ pc[Attempt] # "idle"
      /\ UNCHANGED <<terms, chain, late, expired, ripe, planned, mishaps, quote, status, token, owed, order>>
      /\ vm' \in {vm, "delivered", "failed"}
  BY DEF Conclude
<1>1. Typed
  <2>1. attached' \in BOOLEAN /\ guest' \in BOOLEAN
    BY DEF Conclude, Core, TypeOK
  <2> QED
    BY <1>0, <2>1 DEF Typed, Core, TypeOK
<1>2. \/ Goto(Attempt, "idle") /\ vm' = "delivered" /\ guest' = guest
      \/ Goto(Attempt, "refund") /\ vm' = "failed" /\ guest' = FALSE
  BY <1>0, <1>1, Attempting DEF Conclude
<1>3. /\ Moved(Attempt) /\ (loc'[Attempt] = Fresh \/ loc'[Attempt] = loc[Attempt])
      /\ pc'[Attempt] = (IF vm' = "failed" THEN "refund" ELSE "idle")
  BY <1>2, Going, Daemons DEF Core, Places, Waiting, Refunding
<1>4. \A q \in Pollers : PollerRelies(q)'
  BY <1>0, <1>1, <1>3, Attempting, DaemonAside
<1>5. DaemonsRely'
  BY <1>0, <1>1, <1>2, <1>3, FreshRow, Attempting, Daemons DEF Core, WorkersRely, DaemonsRely, Moved, Refunding
<1>6. RowFollowsIntent'
  BY <1>0, <1>1, <1>2, Attempting DEF Core, RowFollowsIntent, ForVM, Launched, Typed
<1> QED
  BY <1>0, <1>1, <1>3, <1>4, <1>5, <1>6, FreshRow, Attempting, Daemons, Assembled

LEMMA AttemptReadOK == ASSUME Core, RefundRead(Attempt) PROVE Core'
<1>0. pc[Attempt] = "refund" /\ pc[Attempt] \in Refunding /\ pc[Attempt] # "idle" /\ Attempt \in Workers
  BY Daemons DEF RefundRead, Refunding
<1>3. \A q \in Pollers : PollerRelies(q)'
  BY <1>0, Reading, DaemonAside
<1>4. DaemonsRely'
  BY <1>0, Reading, Attempting, Daemons DEF Core, WorkersRely, DaemonsRely, Moved, Refunding
<1>5. RowFollowsIntent'
  BY <1>0, Reading DEF Core, RowFollowsIntent, ForVM, Launched, Typed
<1> QED
  BY <1>0, <1>3, <1>4, <1>5, Reading, Attempting, Daemons, Assembled DEF Refused

LEMMA AttemptOweOK == ASSUME Core, Owe(Attempt) PROVE Core'
<1>0. pc[Attempt] = "owe" /\ pc[Attempt] \in Refunding /\ pc[Attempt] # "idle" /\ Attempt \in Workers
  BY Daemons DEF Owe, Refunding
<1>1. ForVM /\ vm = "failed" /\ status = "PROVISIONED" /\ ~loc[Attempt].wasDone /\ ~loc[Attempt].wasAwaiting
  BY <1>0, Attempting DEF Core, RefundEnds, Refused
<1>2. UNCHANGED <<token, vm, guest, order>> /\ status' = "REFUND_MANUAL" /\ Goto(Attempt, "idle")
  BY <1>0, <1>1, Attempting DEF Owe, AfterRefund
<1>3. owed' \in Nat
  BY DEF Owe, Core, TypeOK
<1>4. Typed
  BY <1>2, <1>3 DEF Owe, Typed, Core, TypeOK, Terminal
<1>5. Moved(Attempt) /\ pc'[Attempt] = "idle" /\ loc'[Attempt] = Fresh
  BY <1>0, <1>2, Going DEF Core, Places, Waiting
<1>6. \A q \in Pollers : PollerRelies(q)'
  BY <1>0, <1>2, <1>4, <1>5, Attempting, DaemonAside DEF Refused
<1>7. DaemonsRely'
  BY <1>5, FreshRow, Daemons DEF Core, WorkersRely, DaemonsRely, Moved, Refunding
<1>8. RowFollowsIntent'
  BY <1>0, <1>1, <1>2, <1>4, Attempting DEF Core, RowFollowsIntent, ForVM, Launched, Typed, Refused
<1> QED
  BY <1>0, <1>2, <1>4, <1>5, <1>6, <1>7, <1>8, FreshRow, Assembled DEF Refused

LEMMA AttemptOK == ASSUME Core, AttemptStep PROVE Core'
  BY DispatchOK, CloneOK, ConcludeOK, AttemptReadOK, AttemptOweOK DEF AttemptStep, RefundStep

\* The beginning.
LEMMA CoreInit == Init => Core
<1> SUFFICES ASSUME Init PROVE Core
  OBVIOUS
<1>1. \A p \in Workers : pc[p] = "idle" /\ loc[p] = Fresh
  BY DEF Init
<1>2. TypeOK
  <2>1. pc \in [Workers -> Places] /\ DOMAIN loc = Workers
    BY DEF Init, Places, Waiting
  <2>2. 0 \in 0..MaxToken
    BY BoundsAreNumbers
  <2>3. chain \in Seq([amount : Amounts, deep : BOOLEAN])
    BY DEF Init
  <2>4. terms \in [asset : {"BTC", "XMR"}, resource : {"vm", "domain_order"}, quoted : BOOLEAN,
                   custom : BOOLEAN, fleet : SUBSET Pollers]
    BY TermsAreKnown, FleetsOfPollers DEF Init
  <2>5. \A p \in Workers : loc[p] \in LocRows(loc[p].total)
    BY <1>1, FreshRow
  <2> QED
    BY <2>1, <2>2, <2>3, <2>4, <2>5 DEF Init, TypeOK
<1>3. WorkersRely
  <2>1. \A p \in Pollers : PollerRelies(p)
    BY <1>1, FreshRow DEF PollerRelies, Workers, Busy, Waiting, Handoff, Checks, Cleanup, Ordering, ForVMModes
  <2>2. \A p \in Pollers : loc[p].token # 1
    BY <1>1, FreshRow DEF Workers
  <2>3. DaemonsRely
    BY <1>1, FreshRow, Daemons DEF DaemonsRely, Refunding
  <2> QED
    BY <2>1, <2>2, <2>3 DEF WorkersRely
<1>4. RowFollowsIntent
  BY <1>2 DEF Init, RowFollowsIntent, ForVM, Launched, TypeOK
<1>5. RefundEnds
  BY <1>1 DEF Init, RefundEnds
<1> QED
  BY <1>2, <1>3, <1>4, <1>5 DEF Core

LEMMA CoreStep == ASSUME Core, "start" \notin LostAt, [Next]_vars PROVE Core'
<1>1. CASE UNCHANGED vars
  <2>1. TypeOK'
    BY <1>1 DEF Core, TypeOK
  <2> QED
    BY <1>1, <2>1, StillOK
<1>2. CASE Next
  BY <1>2, InsertIntentOK, DepositOK, ConfirmOK, TimeOK, SweeperOK, PollerOK, AttemptOK DEF Next, CreateIntent, EnsureOrderIntent
<1> QED
  BY <1>1, <1>2

----------------------------------------------------------------------------
(* One worker: a refund is owed once.                                      *)

Single == OneObligation /\ RefundedNotQueued /\ RefundReadIsCurrent

\* The worker that acts is the only one, but for the daemons.
LEMMA Sole ==
  ASSUME Core, OneWorker, NEW p \in terms.fleet, NEW q \in Pollers, q # p
  PROVE  pc[q] = "idle"
  BY DEF OneWorker, Core, WorkersRely, PollerRelies

\* Every step moves one worker, and only RefundRead moves it to the place where a refund is written.
Stepped(w) == /\ pc'[w] # "owe" /\ terms' = terms
              /\ \A q \in Workers \ {w} : pc'[q] = pc[q] /\ loc'[q] = loc[q]

LEMMA Stepping ==
  ASSUME TypeOK, NEW w \in Workers, NEW place, place # "owe", NEW knows, terms' = terms, Move(w, place, knows)
  PROVE  Stepped(w) /\ pc'[w] = place
<1>1. pc' = [pc EXCEPT ![w] = place] /\ w \in DOMAIN pc /\ pc'[w] = place
      /\ \A q \in Workers \ {w} : pc'[q] = pc[q]
  BY DEF Move, TypeOK
<1>2. \A q \in Workers \ {w} : loc'[q] = loc[q]
  BY DEF Move, TypeOK
<1> QED
  BY <1>1, <1>2 DEF Stepped

LEMMA SteppingOn ==
  ASSUME TypeOK, NEW w \in Workers, NEW place, place # "owe", terms' = terms,
         Goto(w, place) \/ \E mode \in Modes : Turn(w, mode, place)
  PROVE  Stepped(w) /\ pc'[w] = place
  BY Stepping DEF Goto, Turn

\* For a VM, a step that leaves the ledger alone; the order is none of its business.
LEMMA SingleVM ==
  ASSUME Core, Single, OneWorker, ForVM, NEW w \in Workers, Stepped(w), UNCHANGED <<owed, order>>
  PROVE  Single'
<1>1. ~ForVM' => FALSE
  BY DEF ForVM, Stepped
<1>2. \A q \in Workers : pc'[q] = "owe" => (loc'[q].wasOwed <=> owed' > 0)
  BY DEF Stepped, Single, RefundReadIsCurrent
<1> QED
  BY <1>1, <1>2 DEF Single, OneObligation, RefundedNotQueued, RefundReadIsCurrent, OneWorker, Stepped

\* For a domain order, what is left to show of the only worker's step.
LEMMA SingleOrder ==
  ASSUME Core, Single, OneWorker, ~ForVM, NEW p \in terms.fleet, Stepped(p), owed' <= 1,
         owed' > 0 => order' # "queued",
         owed' > 0 /\ status' = "PROVISIONING" => order' = "refund_due",
         pc'[p] \in Ordering \cup Refunding => status' = "PROVISIONING",
         pc'[p] \in Refunding => order' \in {"awaiting_payment", "expired"}
  PROVE  Single'
<1>1. \A q \in Pollers \ {p} : pc'[q] = "idle"
  BY Sole DEF Stepped, Workers
<1>2. pc'[Attempt] # "owe" /\ pc'[Sweeper] # "owe"
  BY Poller, Daemons DEF Stepped, Core, WorkersRely, DaemonsRely, RowFollowsIntent, Refunding
<1>3. \A q \in Workers : pc'[q] # "owe"
  BY <1>1, <1>2 DEF Stepped, Workers
<1> QED
  BY <1>1, <1>3 DEF Single, OneObligation, RefundedNotQueued, RefundReadIsCurrent, OneWorker, Stepped, Ordering, Refunding, Workers

\* Nobody waits to write a refund unless its place says so; a daemon does not while a poller works.
LEMMA SoleRefund ==
  ASSUME Core, OneWorker, NEW w \in terms.fleet \cup {Attempt}, pc[w] \in Refunding, NEW q \in Workers, q # w
  PROVE  pc[q] # "owe"
<1>1. CASE w = Attempt
  <2>1. Launched /\ q # Attempt
    BY <1>1, Attempting DEF Refunding
  <2>2. CASE q \in Pollers
    BY <2>1, <2>2 DEF Core, WorkersRely, PollerRelies, Busy, Waiting
  <2>3. CASE q = Sweeper
    BY <2>3 DEF Core, WorkersRely, DaemonsRely
  <2> QED
    BY <2>1, <2>2, <2>3 DEF Workers
<1>2. CASE w \in terms.fleet
  <2>1. CASE q \in Pollers
    BY <1>2, <2>1, Sole
  <2>2. CASE q = Sweeper
    BY <2>2 DEF Core, WorkersRely, DaemonsRely
  <2>3. CASE q = Attempt
    BY <1>2, <2>3, RefundingPoller, Attempting DEF Refunding
  <2> QED
    BY <2>1, <2>2, <2>3 DEF Workers
<1> QED
  BY <1>1, <1>2

\* What a refund reads, and what it writes on the strength of it.
LEMMA ReadSingle ==
  ASSUME Core, Single, OneWorker, NEW w \in terms.fleet \cup {Attempt}, RefundRead(w)
  PROVE  Single'
<1>0. w \in Workers /\ pc[w] = "refund" /\ pc[w] \in Refunding
  BY Poller, Daemons DEF RefundRead, Refunding
<1>1. terms' = terms /\ UNCHANGED <<owed, order, status>>
  BY DEF RefundRead
<1>2. \A q \in Workers \ {w} : pc'[q] = pc[q] /\ loc'[q] = loc[q]
  BY <1>0, Reading DEF Moved
<1>3. \A q \in Workers : pc'[q] = "owe" => (loc'[q].wasOwed <=> owed' > 0)
  BY <1>0, <1>1, <1>2, Reading DEF Single, RefundReadIsCurrent
<1>4. ASSUME ~ForVM, NEW q \in Pollers
      PROVE  /\ pc'[q] \in Ordering \cup Refunding => status' = "PROVISIONING"
             /\ pc'[q] \in Refunding => order' \in {"awaiting_payment", "expired"}
             /\ pc'[q] = "owe" => ~loc'[q].wasDone
  <2>1. pc[q] = "idle" \/ q = w
    BY <1>4, Sole, Attempting, <1>0 DEF Refunding
  <2>2. w # Attempt
    BY <1>0, <1>4, Attempting
  <2> QED
    BY <1>0, <1>1, <1>2, <1>4, <2>1, <2>2, Reading, Poller
    DEF Single, RefundReadIsCurrent, Ordering, Refunding, Workers
<1> QED
  BY <1>1, <1>3, <1>4 DEF Single, OneObligation, RefundedNotQueued, RefundReadIsCurrent, OneWorker, ForVM

LEMMA OweSingle ==
  ASSUME Core, Single, OneWorker, NEW w \in terms.fleet \cup {Attempt}, Owe(w)
  PROVE  Single'
<1>0. w \in Workers /\ pc[w] = "owe" /\ pc[w] \in Refunding /\ terms' = terms /\ owed \in Nat
  BY Poller, Daemons DEF Owe, Refunding, Core, TypeOK
<1>1. owed' = 1
  BY <1>0 DEF Owe, Single, RefundReadIsCurrent, OneObligation
<1>2. /\ status' = (IF loc[w].wasDone THEN status ELSE "REFUND_MANUAL")
      /\ order' = (IF loc[w].wasAwaiting THEN "refund_due" ELSE order)
      /\ Goto(w, AfterRefund(w)) /\ AfterRefund(w) \in {"release", "idle"}
  BY DEF Owe, AfterRefund
<1>3. Stepped(w) /\ pc'[w] \in {"release", "idle"}
  BY <1>0, <1>2, SteppingOn DEF Core
<1>4. \A q \in Workers : pc'[q] # "owe"
  BY <1>0, <1>3, SoleRefund DEF Stepped
<1>5. CASE ForVM
  <2>1. order' = order /\ order = "none"
    BY <1>0, <1>2, <1>5 DEF Core, RefundEnds, RowFollowsIntent
  <2> QED
    BY <1>0, <1>1, <1>4, <1>5, <2>1 DEF Single, OneObligation, RefundedNotQueued, RefundReadIsCurrent, ForVM
<1>6. CASE ~ForVM
  <2>1. w \in terms.fleet
    BY <1>0, <1>6, Attempting
  <2>2. ~loc[w].wasDone /\ order \in {"awaiting_payment", "expired"} /\ status' = "REFUND_MANUAL"
    BY <1>0, <1>2, <1>6, <2>1, Poller DEF Single, RefundReadIsCurrent
  <2> QED
    BY <1>1, <1>2, <1>3, <1>6, <2>1, <2>2, SingleOrder DEF Ordering, Refunding
<1> QED
  BY <1>5, <1>6

\* A step that leaves the ledger and the order alone, and hands no domain order over.
LEMMA CalmStep ==
  ASSUME Core, Single, OneWorker, NEW p \in terms.fleet, Stepped(p), UNCHANGED <<owed, order>>,
         ~ForVM => /\ pc'[p] \notin Ordering \cup Refunding
                   /\ status' = "PROVISIONING" => status = "PROVISIONING"
  PROVE  Single'
<1>1. CASE ForVM
  BY <1>1, Poller, SingleVM
<1>2. CASE ~ForVM
  <2>1. /\ owed <= 1 /\ (owed > 0 => order # "queued")
        /\ owed > 0 /\ status = "PROVISIONING" => order = "refund_due"
    BY <1>2 DEF Single, OneObligation, RefundedNotQueued, RefundReadIsCurrent
  <2> QED
    BY <1>2, <2>1, SingleOrder
<1> QED
  BY <1>1, <1>2

LEMMA PollSingle ==
  ASSUME Core, Single, OneWorker, NEW p \in terms.fleet, Listed(p) \/ Poll(p) \/ Apply(p) \/ Crash(p)
  PROVE  Single'
<1>1. UNCHANGED <<owed, order>> /\ terms' = terms /\ p \in Workers
  BY Poller DEF Listed, Poll, Apply, Crash
<1>2. status' = "PROVISIONING" => status = "PROVISIONING"
  BY DEF Listed, Poll, Apply, Crash, Decide
<1>3. \E place \in Waiting : \E knows : Move(p, place, knows)
  BY DEF Listed, Poll, Apply, Crash, Goto, Waiting
<1>4. Stepped(p) /\ pc'[p] \in Waiting
  <2>1. PICK place \in Waiting : \E knows : Move(p, place, knows)
    BY <1>3
  <2> QED
    BY <1>1, <2>1, Stepping DEF Waiting, Core
<1> QED
  BY <1>1, <1>2, <1>4, CalmStep DEF Waiting, Ordering, Refunding

LEMMA TriggerSingle ==
  ASSUME Core, Single, OneWorker, NEW p \in terms.fleet, Trigger(p)
  PROVE  Single'
<1>1. UNCHANGED <<owed, order>> /\ terms' = terms /\ p \in Workers
  BY Poller DEF Trigger
<1>2. CASE token # 0
  <2>1. Goto(p, "idle") /\ status' = status
    BY <1>2 DEF Trigger
  <2>2. Stepped(p) /\ pc'[p] = "idle"
    BY <1>1, <2>1, SteppingOn DEF Core
  <2> QED
    BY <1>1, <2>1, <2>2, CalmStep DEF Ordering, Refunding
<1>3. CASE token = 0
  <2> DEFINE place == IF terms.resource = "vm" THEN "plan" ELSE "handoff"
             knows == [Fresh EXCEPT !.token = token + 1, !.mode = "trigger"]
  <2>1. Move(p, place, knows) /\ status' = "PROVISIONING"
    BY <1>3 DEF Trigger, HandOver
  <2>2. Stepped(p) /\ pc'[p] = place
    <3>1. place # "owe"
      OBVIOUS
    <3> HIDE DEF place, knows
    <3> QED
      BY <1>1, <2>1, <3>1, Stepping DEF Core
  <2>3. owed = 0
    BY <1>3 DEF Core, RowFollowsIntent
  <2>4. pc'[p] \notin Refunding
    BY <2>2 DEF Refunding
  <2>5. CASE ForVM
    BY <1>1, <2>2, <2>5, SingleVM
  <2>6. CASE ~ForVM
    BY <1>1, <2>1, <2>2, <2>3, <2>4, <2>6, SingleOrder
  <2> QED
    BY <2>5, <2>6
<1> QED
  BY <1>2, <1>3

\* The handoff to a VM and its cleanup are about an intent for a VM.
LEMMA VMSingle ==
  ASSUME Core, Single, OneWorker, NEW p \in terms.fleet,
         HandoffStep(p) \/ HandoffRaises(p) \/ CleanupStep(p) \/ Recover(p)
  PROVE  Single'
<1>1. ForVM
  <2>1. pc[p] \in Handoff \cup Cleanup \/ ForVM
    BY DEF HandoffStep, HandoffRaises, CleanupStep, Recover, Plan, Check, Quote, Reserve, ClaimDomain, Activate, Link, Start,
           Release, Erase, MarkFailed, FreePrefix, Unclaim, Handoff, Checks, Cleanup, ForVM
  <2> QED
    BY <2>1, Poller DEF PollerRelies
<1>2. UNCHANGED <<owed, order>> /\ terms' = terms /\ p \in Workers
  BY Poller DEF HandoffStep, HandoffRaises, CleanupStep, Recover, Plan, Check, Quote, Reserve, ClaimDomain, Activate, Link,
                Start, Release, Erase, MarkFailed, FreePrefix, Unclaim
<1>3. \E place \in Places \ {"owe"} : \E knows : Move(p, place, knows)
  <2>1. CASE HandoffStep(p)
    BY <2>1, Poller DEF HandoffStep, Plan, Check, Checks, AfterCheck, Fenced, Quote, Reserve, ClaimDomain, Activate, Link, Start,
           Onward, Goto, Turn, Places, Handoff, Refunding, Cleanup, Waiting
  <2>2. CASE HandoffRaises(p)
    BY <2>2 DEF HandoffRaises, Turn, Places, Refunding, Cleanup
  <2>3. CASE CleanupStep(p)
    BY <2>3 DEF CleanupStep, Release, Erase, MarkFailed, FreePrefix, Unclaim, Goto, Places, Cleanup, Refunding, Waiting
  <2>4. CASE Recover(p)
    BY <2>4 DEF Recover, Turn, Places, Refunding, Cleanup
  <2> QED
    BY <2>1, <2>2, <2>3, <2>4
<1>4. Stepped(p)
  <2>1. PICK place \in Places \ {"owe"} : \E knows : Move(p, place, knows)
    BY <1>3
  <2> QED
    BY <1>2, <2>1, Stepping DEF Core
<1> QED
  BY <1>1, <1>2, <1>4, SingleVM

LEMMA RefundRaisesSingle ==
  ASSUME Core, Single, OneWorker, NEW p \in terms.fleet, RefundRaises(p)
  PROVE  Single'
<1>1. /\ UNCHANGED <<owed, order>> /\ terms' = terms /\ p \in Workers /\ pc[p] \in Refunding
      /\ status' = "PROVISIONING" => status = "PROVISIONING"
  BY Poller DEF RefundRaises, Refunding
<1>2. CASE loc[p].mode = "return"
  <2>1. Turn(p, "error", "refund") /\ ForVM
    BY <1>1, <1>2, RefundingPoller DEF RefundRaises, ForVMModes
  <2>2. Stepped(p)
    BY <1>1, <2>1, SteppingOn DEF Core, Modes, ForVMModes
  <2> QED
    BY <1>1, <2>1, <2>2, SingleVM
<1>3. CASE loc[p].mode # "return"
  <2>1. Goto(p, AfterRefund(p)) /\ AfterRefund(p) \in {"release", "idle"}
    BY <1>3 DEF RefundRaises, AfterRefund
  <2>2. Stepped(p) /\ pc'[p] \in {"release", "idle"}
    BY <1>1, <2>1, SteppingOn DEF Core
  <2> QED
    BY <1>1, <2>2, CalmStep DEF Ordering, Refunding
<1> QED
  BY <1>2, <1>3

\* While a domain order is handed over, the intent is PROVISIONING: a refund there is the order's own.
LEMMA OrderSingle ==
  ASSUME Core, Single, OneWorker, NEW p \in terms.fleet, OrderStep(p) \/ MarkPaidRaises(p) \/ ResumeOrder(p)
  PROVE  Single'
<1>0. /\ p \in Workers /\ terms' = terms /\ owed \in Nat /\ owed <= 1
      /\ owed > 0 => order # "queued"
  BY Poller DEF OrderStep, MarkPaid, MarkPaidRaises, SettleOrder, Reread, ResumeOrder, Core, TypeOK, Single, OneObligation, RefundedNotQueued
<1>1. ~ForVM
  BY Poller DEF OrderStep, MarkPaid, MarkPaidRaises, SettleOrder, Reread, ResumeOrder, ForVM, Ordering, PollerRelies
<1>2. status = "PROVISIONING" /\ (owed > 0 => order = "refund_due")
  BY <1>1, Poller DEF OrderStep, MarkPaid, MarkPaidRaises, SettleOrder, Reread, ResumeOrder, Single, RefundReadIsCurrent, Ordering
<1>3. CASE MarkPaid(p)
  <2>1. /\ status' = status
        /\ \/ UNCHANGED <<owed, order>>
           \/ owed = 0 /\ order' = "queued" /\ owed' = owed
           \/ owed = 0 /\ order' = "refund_due" /\ owed' = owed + 1
    BY <1>0, <1>2, <1>3 DEF MarkPaid
  <2>2. \E place \in {"settle", "reread", "idle"} : \E knows : Move(p, place, knows)
    BY <1>3 DEF MarkPaid, Goto
  <2>3. Stepped(p) /\ pc'[p] \in {"settle", "reread", "idle"}
    <3>1. PICK place \in {"settle", "reread", "idle"} : \E knows : Move(p, place, knows)
      BY <2>2
    <3> QED
      BY <1>0, <3>1, Stepping DEF Core
  <2> QED
    BY <1>0, <1>1, <1>2, <2>1, <2>3, SingleOrder DEF Refunding
<1>4. CASE MarkPaidRaises(p)
  <2>1. UNCHANGED <<status, owed, order>> /\ (Goto(p, "reread") \/ Goto(p, "idle"))
    BY <1>4 DEF MarkPaidRaises
  <2>2. Stepped(p) /\ pc'[p] \in {"reread", "idle"}
    BY <1>0, <2>1, SteppingOn DEF Core
  <2> QED
    BY <1>0, <1>1, <1>2, <2>1, <2>2, SingleOrder DEF Refunding
<1>5. CASE SettleOrder(p)
  <2>1. UNCHANGED <<owed, order>> /\ Goto(p, "idle")
    BY <1>5 DEF SettleOrder
  <2>2. Stepped(p) /\ pc'[p] = "idle"
    BY <1>0, <2>1, SteppingOn DEF Core
  <2> QED
    BY <1>2, <2>1, <2>2, CalmStep DEF Ordering, Refunding
<1>6. CASE Reread(p)
  <2>1. /\ UNCHANGED <<owed, order>>
        /\ \/ Goto(p, "idle")
           \/ order = "awaiting_payment" /\ status' = status /\ Turn(p, "domain", "refund")
    BY <1>6 DEF Reread
  <2>2. CASE Goto(p, "idle")
    <3>1. Stepped(p) /\ pc'[p] = "idle"
      BY <1>0, <2>2, SteppingOn DEF Core
    <3> QED
      BY <1>2, <2>1, <3>1, CalmStep DEF Ordering, Refunding
  <2>3. CASE order = "awaiting_payment" /\ status' = status /\ Turn(p, "domain", "refund")
    <3>1. Stepped(p)
      BY <1>0, <2>3, SteppingOn DEF Core, Modes
    <3> QED
      BY <1>0, <1>1, <1>2, <2>1, <2>3, <3>1, SingleOrder
  <2> QED
    BY <2>1, <2>2, <2>3
<1>7. CASE ResumeOrder(p)
  <2>1. UNCHANGED <<status, owed, order>> /\ Turn(p, "resume", "handoff")
    BY <1>7 DEF ResumeOrder
  <2>2. Stepped(p) /\ pc'[p] = "handoff"
    BY <1>0, <2>1, SteppingOn DEF Core, Modes
  <2> QED
    BY <1>0, <1>1, <1>2, <2>1, <2>2, SingleOrder DEF Refunding
<1> QED
  BY <1>3, <1>4, <1>5, <1>6, <1>7 DEF OrderStep

LEMMA PollerSingle ==
  ASSUME Core, Single, OneWorker, NEW p \in terms.fleet, PollerNext(p)
  PROVE  Single'
  BY PollSingle, TriggerSingle, VMSingle, RefundRaisesSingle, OrderSingle, ReadSingle, OweSingle
  DEF PollerNext, PollStep, RefundStep

\* No worker moves; the order expires while it awaits its payment.
LEMMA StillSingle ==
  ASSUME Core, Single, OneWorker, UNCHANGED workers, terms' = terms, owed' = owed,
         order' = order \/ (order = "awaiting_payment" /\ order' = "expired"),
         status' = status \/ (status = "none" /\ status' = "CREATED")
  PROVE  Single'
<1>1. status = "none" => \A q \in Pollers : pc[q] \notin Ordering \cup Refunding
  BY NobodyBusy DEF Core, RowFollowsIntent, Refused, Busy, Waiting, Ordering, Refunding
<1> QED
  BY <1>1 DEF Single, OneObligation, RefundedNotQueued, RefundReadIsCurrent, OneWorker, ForVM

LEMMA StillingSingle ==
  ASSUME Core, Single, OneWorker,
         InsertIntent \/ (\E a \in Amounts : Deposit(a)) \/ (\E i \in DOMAIN chain : Confirm(i))
           \/ ClockAdvances \/ QuoteTaken \/ ExpireOrder
  PROVE  Single'
  BY StillSingle DEF InsertIntent, Deposit, Confirm, ClockAdvances, QuoteTaken, ExpireOrder

\* A daemon moves, to anywhere but the writing of a refund.
LEMMA DaemonSingle ==
  ASSUME Core, Single, OneWorker, NEW w \in {Attempt, Sweeper}, Stepped(w), UNCHANGED <<status, owed, order>>
  PROVE  Single'
<1>1. \A q \in Pollers : pc'[q] = pc[q] /\ loc'[q] = loc[q]
  BY PollersDistinct DEF Stepped, Workers
<1>2. \A q \in Workers : pc'[q] = "owe" => pc[q] = "owe" /\ loc'[q] = loc[q]
  BY DEF Stepped
<1> QED
  BY <1>1, <1>2 DEF Single, OneObligation, RefundedNotQueued, RefundReadIsCurrent, OneWorker, ForVM, Stepped

LEMMA DaemonsSingle ==
  ASSUME Core, Single, OneWorker, SweeperStep \/ Dispatch \/ Clone \/ Conclude
  PROVE  Single'
<1>1. CASE SweeperStep
  <2>1. terms' = terms /\ UNCHANGED <<status, owed, order>> /\ (Goto(Sweeper, "idle") \/ Goto(Sweeper, "purge"))
    BY <1>1 DEF SweeperStep, SelectReservation, PurgeReservation
  <2>2. Stepped(Sweeper)
    BY <2>1, Daemons, SteppingOn DEF Core
  <2> QED
    BY <2>1, <2>2, DaemonSingle
<1>2. CASE Dispatch \/ Clone \/ Conclude
  <2>1. /\ terms' = terms /\ UNCHANGED <<status, owed, order>>
        /\ \E place \in {"idle", "clone", "await", "refund"} : Goto(Attempt, place)
    BY <1>2 DEF Dispatch, Clone, Conclude
  <2>2. Stepped(Attempt)
    BY <2>1, Daemons, SteppingOn DEF Core
  <2> QED
    BY <2>1, <2>2, DaemonSingle
<1> QED
  BY <1>1, <1>2

LEMMA SingleStep == ASSUME Core, Single, [Next]_vars PROVE Single'
<1>1. CASE ~OneWorker
  <2>1. terms' = terms
    BY DEF Next, CreateIntent, EnsureOrderIntent, InsertIntent, Deposit, Confirm, ClockAdvances, QuoteTaken, SweeperStep,
           SelectReservation, PurgeReservation, ExpireOrder, AttemptStep, Dispatch, Clone, Conclude, RefundStep, RefundRead, Owe,
           PollerNext, PollStep, Listed, Poll, Apply, Trigger, HandoffStep, Plan, Check, Quote, Reserve, ClaimDomain, Activate,
           Link, Start, CleanupStep, Release, Erase, MarkFailed, FreePrefix, Unclaim, OrderStep, MarkPaid, SettleOrder, Reread,
           Recover, ResumeOrder, HandoffRaises, RefundRaises, MarkPaidRaises, Crash
  <2> QED
    BY <1>1, <2>1 DEF Single, OneObligation, RefundedNotQueued, RefundReadIsCurrent, OneWorker
<1>2. CASE OneWorker /\ UNCHANGED vars
  BY <1>2, StillSingle
<1>3. CASE OneWorker /\ Next
  <2>1. CASE CreateIntent \/ EnsureOrderIntent \/ (\E a \in Amounts : Deposit(a)) \/ (\E i \in DOMAIN chain : Confirm(i))
               \/ ClockAdvances \/ QuoteTaken \/ ExpireOrder
    BY <1>3, <2>1, StillingSingle DEF CreateIntent, EnsureOrderIntent
  <2>2. CASE SweeperStep \/ AttemptStep
    BY <1>3, <2>2, DaemonsSingle, ReadSingle, OweSingle DEF AttemptStep, RefundStep
  <2>3. CASE \E p \in terms.fleet : PollerNext(p)
    BY <1>3, <2>3, PollerSingle
  <2> QED
    BY <1>3, <2>1, <2>2, <2>3 DEF Next
<1> QED
  BY <1>1, <1>2, <1>3

LEMMA SingleInit == Init => Single
<1>1. Init => owed = 0 /\ \A p \in Workers : pc[p] = "idle"
  BY DEF Init
<1> QED
  BY <1>1 DEF Single, OneObligation, RefundedNotQueued, RefundReadIsCurrent, Ordering, Refunding, Workers

----------------------------------------------------------------------------
(* The intent as a paid order.                                             *)

Phase == IF owed > 0 THEN "refunded"
         ELSE IF Delivered THEN "delivered"
         ELSE IF token # 0 THEN "settled" ELSE "open"

PhaseStep == \/ Phase' = Phase
             \/ Phase = "open" /\ Phase' = "settled"
             \/ Phase = "settled" /\ Phase' \in {"delivered", "refunded"}

Phases == [o \in {"intent"} |-> Phase]
Becomes(o, from, to) == Phases[o] = from /\ Phases' = [Phases EXCEPT ![o] = to]

\* An order keeps its place: a refund stays owed, what is delivered stays so and is not refunded, and
\* nothing happens before the token is taken.
LEMMA PhaseMoves ==
  ASSUME Core, owed' \in Nat, terms' = terms, owed > 0 => owed' > 0,
         Delivered /\ owed = 0 => Delivered' /\ owed' = 0,
         IF token = 0 THEN owed' = 0 /\ vm' = "none" /\ order' \notin {"queued", "refund_due"} ELSE token' # 0
  PROVE  PhaseStep
<1>1. token = 0 => owed = 0 /\ ~Delivered /\ ~Delivered'
  BY DEF Core, RowFollowsIntent, Delivered
<1> QED
  BY <1>1 DEF PhaseStep, Phase, Core, TypeOK

\* Most steps leave the ledger and the order, and do not undo a delivery.
LEMMA PhaseStays ==
  ASSUME Core, terms' = terms, UNCHANGED <<owed, order>>, vm = "delivered" => vm' = "delivered",
         token' = token \/ token' = token + 1, token = 0 => vm' = vm
  PROVE  PhaseStep
<1>1. owed \in Nat /\ (token # 0 => token' # 0)
  BY BoundsAreNumbers DEF Core, TypeOK
<1>2. Delivered => Delivered'
  BY DEF Delivered, OneWorker
<1>3. token = 0 => owed = 0 /\ vm = "none" /\ order \notin {"queued", "refund_due"}
  BY DEF Core, RowFollowsIntent
<1> QED
  BY <1>1, <1>2, <1>3, PhaseMoves

LEMMA PhaseOfOwe ==
  ASSUME Core, Single, NEW w \in terms.fleet \cup {Attempt}, Owe(w)
  PROVE  PhaseStep
<1>0. w \in Workers /\ pc[w] = "owe" /\ pc[w] \in Refunding /\ terms' = terms /\ owed \in Nat
      /\ token' = token /\ vm' = vm
  BY Poller, Daemons DEF Owe, Refunding, Core, TypeOK
<1>1. owed' \in Nat /\ (owed > 0 => owed' > 0)
  BY <1>0 DEF Owe
<1>2. token # 0 /\ vm # "delivered"
  BY <1>0, RefundingPoller, Attempting DEF Launched
<1>3. OneWorker => order # "queued"
  <2> SUFFICES ASSUME OneWorker PROVE order # "queued"
    OBVIOUS
  <2>1. CASE ForVM
    BY <2>1 DEF Core, RowFollowsIntent
  <2>2. CASE ~ForVM
    <3>1. w \in Pollers
      BY <1>0, <2>2, Attempting, Poller
    <3> QED
      BY <1>0, <2>2, <3>1 DEF Single, RefundReadIsCurrent
  <2> QED
    BY <2>1, <2>2
<1> QED
  BY <1>0, <1>1, <1>2, <1>3, PhaseMoves DEF Delivered

LEMMA PhaseOfMarkPaid == ASSUME Core, NEW p \in terms.fleet, MarkPaid(p) PROVE PhaseStep
<1>1. ~Launched /\ token # 0 /\ token' = token /\ terms' = terms /\ vm' = vm /\ owed \in Nat
  BY OrderingPoller DEF MarkPaid, Ordering, Core, TypeOK
<1>2. \/ owed' = owed /\ (order = "queued" => order' = "queued")
      \/ owed' = owed + 1 /\ order # "queued"
  BY DEF MarkPaid
<1> QED
  BY <1>1, <1>2, PhaseMoves DEF Delivered, Launched, OneWorker

LEMMA PhaseOfPoller == ASSUME Core, Single, NEW p \in terms.fleet, PollerNext(p) PROVE PhaseStep
<1>1. CASE PollStep(p) \/ Recover(p) \/ ResumeOrder(p) \/ Crash(p) \/ RefundRead(p) \/ RefundRaises(p) \/ MarkPaidRaises(p)
           \/ SettleOrder(p) \/ Reread(p)
  BY <1>1, PhaseStays DEF PollStep, Listed, Poll, Apply, Trigger, HandOver, Recover, ResumeOrder, Crash, RefundRead, RefundRaises,
     MarkPaidRaises, SettleOrder, Reread
<1>2. CASE HandoffStep(p) \/ HandoffRaises(p)
  <2>1. pc[p] \in Handoff
    BY <1>2 DEF HandoffStep, HandoffRaises, Plan, Check, Quote, Reserve, ClaimDomain, Activate, Link, Start, Handoff, Checks
  <2>2. ~Launched /\ token # 0
    BY <2>1, HandingOver
  <2>3. terms' = terms /\ UNCHANGED <<owed, order, token>>
    BY <1>2 DEF HandoffStep, HandoffRaises, Plan, Check, Quote, Reserve, ClaimDomain, Activate, Link, Start
  <2> QED
    BY <2>2, <2>3, PhaseStays DEF Launched
<1>3. CASE CleanupStep(p)
  <2>1. pc[p] \in Cleanup
    BY <1>3 DEF CleanupStep, Release, Erase, MarkFailed, FreePrefix, Unclaim, Cleanup
  <2>2. ~Launched /\ token # 0
    BY <2>1, Cleaning
  <2>3. terms' = terms /\ UNCHANGED <<owed, order, token>>
    BY <1>3 DEF CleanupStep, Release, Erase, MarkFailed, FreePrefix, Unclaim
  <2> QED
    BY <2>2, <2>3, PhaseStays DEF Launched
<1> QED
  BY <1>1, <1>2, <1>3, PhaseOfOwe, PhaseOfMarkPaid DEF PollerNext, RefundStep, OrderStep

LEMMA PhaseOK == ASSUME Core, Single, [Next]_vars PROVE PhaseStep
<1>1. CASE CreateIntent \/ EnsureOrderIntent \/ (\E a \in Amounts : Deposit(a)) \/ (\E i \in DOMAIN chain : Confirm(i))
           \/ ClockAdvances \/ QuoteTaken \/ UNCHANGED vars
  BY <1>1, PhaseStays DEF CreateIntent, EnsureOrderIntent, InsertIntent, Deposit, Confirm, ClockAdvances, QuoteTaken
<1>2. CASE ExpireOrder
  <2>1. /\ UNCHANGED <<terms, owed, token, vm>> /\ order = "awaiting_payment" /\ order' = "expired" /\ owed \in Nat
        /\ token = 0 => vm = "none" /\ owed = 0
    BY <1>2 DEF ExpireOrder, Core, TypeOK, RowFollowsIntent
  <2> QED
    BY <2>1, PhaseMoves DEF Delivered
<1>3. CASE SweeperStep
  <2>1. /\ UNCHANGED <<terms, owed, order, token>> /\ (vm = "reserved" \/ vm' = vm)
    BY <1>3 DEF SweeperStep, SelectReservation, PurgeReservation
  <2>2. token = 0 => vm = "none"
    BY DEF Core, RowFollowsIntent
  <2> QED
    BY <2>1, <2>2, PhaseStays
<1>4. CASE Dispatch \/ Clone \/ Conclude \/ RefundRead(Attempt)
  <2>1. UNCHANGED <<terms, owed, order, token>> /\ (pc[Attempt] # "idle" \/ vm = "ready")
    BY <1>4 DEF Dispatch, Clone, Conclude, RefundRead
  <2>2. vm = "delivered" => vm' = vm
    BY <1>4, Attempting DEF Dispatch, Clone, Conclude, RefundRead
  <2> QED
    BY <2>1, <2>2, Attempting, PhaseStays
<1>5. CASE Owe(Attempt)
  BY <1>5, PhaseOfOwe
<1>6. CASE \E p \in terms.fleet : PollerNext(p)
  BY <1>6, PhaseOfPoller
<1> QED
  BY <1>1, <1>2, <1>3, <1>4, <1>5, <1>6 DEF Next, AttemptStep, RefundStep

----------------------------------------------------------------------------
(* Theorems.                                                               *)

\* What follows from the core alone.
LEMMA CoreGives == Core => FreedPrefixUnused /\ LinkedToPaidRow /\ RefundedNotDelivered
<1> SUFFICES ASSUME Core PROVE FreedPrefixUnused /\ LinkedToPaidRow /\ RefundedNotDelivered
  OBVIOUS
<1>1. FreedPrefixUnused /\ LinkedToPaidRow
  BY DEF Core, RowFollowsIntent, FreedPrefixUnused, LinkedToPaidRow, ForVM, Launched
<1>2. ASSUME owed > 0, vm \in {"ready", "delivered"} PROVE FALSE
  <2>1. ForVM /\ status = "PROVISIONED"
    BY <1>2 DEF Core, RowFollowsIntent, Launched
  <2> QED
    BY <1>2, <2>1 DEF Core, RefundEnds, Refused
<1> QED
  BY <1>1, <1>2 DEF RefundedNotDelivered

\* Unless the commit of start_provisioning succeeds and is reported as an error, the token fences every
\* worker that a recovery has overtaken: an intent is linked to a paid VM only, a /64 that was given back
\* is not in use, and one worker owes a refund once (_trigger_provisioning, _require_current_vm_handoff,
\* _recover_interrupted_vm_provisioning, record_native_intent_refund).
THEOREM IntentSafe == "start" \notin LostAt => (Spec => []IntentInv)
<1> SUFFICES ASSUME "start" \notin LostAt PROVE Spec => []IntentInv
  OBVIOUS
<1>1. Init => Core /\ Single
  BY CoreInit, SingleInit
<1>2. (Core /\ Single) /\ [Next]_vars => (Core /\ Single)'
  BY CoreStep, SingleStep
<1>3. Core /\ Single => IntentInv
  BY CoreGives DEF Core, Single, IntentInv
<1> QED
  BY <1>1, <1>2, <1>3, PTL DEF Spec

\* On the same condition no VM is delivered, or on its way, once its payment is to be refunded, however many
\* workers poll the intent (record_native_intent_refund, mark_vm_failed, start_provisioning).
THEOREM RefundSafe == "start" \notin LostAt => (Spec => []RefundedNotDelivered)
<1> SUFFICES ASSUME "start" \notin LostAt PROVE Spec => []RefundedNotDelivered
  OBVIOUS
<1>1. Core /\ [Next]_vars => Core'
  BY CoreStep
<1> QED
  BY <1>1, CoreInit, CoreGives, PTL DEF Spec

\* On the same condition the intent is an order in the sense of PaidOrder: settled by the trigger of the
\* handoff, then delivered or refunded, never the one after the other (_trigger_provisioning,
\* record_native_intent_refund, native_order_settled).
THEOREM PaidOrderImplemented == "start" \notin LostAt => (Spec => ImplementsPaidOrder)
<1> SUFFICES ASSUME "start" \notin LostAt PROVE Spec => ImplementsPaidOrder
  OBVIOUS
<1> DEFINE phase == [o \in {"intent"} |->
                CASE owed > 0 -> "refunded"
                  [] owed = 0 /\ Delivered -> "delivered"
                  [] owed = 0 /\ ~Delivered /\ token # 0 -> "settled"
                  [] OTHER -> "open"]
<1>0. ASSUME Core PROVE phase = Phases
  BY <1>0 DEF Phases, Phase, Core, TypeOK
<1>1. Init => Order!Init
  <2> SUFFICES ASSUME Init PROVE Order!Init
    OBVIOUS
  <2>1. Core
    BY CoreInit
  <2>2. Phase = "open"
    BY DEF Init, Phase, Delivered
  <2> QED
    BY <1>0, <2>1, <2>2 DEF Phases, Order!Init
<1>2. Core /\ Single /\ Core' /\ [Next]_vars => [Order!Next]_phase
  <2> SUFFICES ASSUME Core, Single, Core', [Next]_vars PROVE [Order!Next]_phase
    OBVIOUS
  <2>1. phase = Phases /\ phase' = Phases'
    BY <1>0 DEF Phases, Phase, Core, TypeOK
  <2>2. ASSUME NEW from, NEW to, Phase = from, Phase' = to PROVE Becomes("intent", from, to)
    BY <2>2 DEF Phases, Becomes
  <2>3. Phase' = Phase => Phases' = Phases
    BY DEF Phases
  <2>4. \/ Phases' = Phases
        \/ \E o \in {"intent"} : \/ Becomes(o, "open", "settled") \/ Becomes(o, "settled", "delivered")
                                 \/ Becomes(o, "settled", "refunded")
    BY <2>2, <2>3, PhaseOK DEF PhaseStep
  <2> QED
    BY <2>1, <2>4 DEF Becomes, Order!Next, Order!Settle, Order!Deliver, Order!Refund, Order!Become
<1>3. (Core /\ Single) /\ [Next]_vars => (Core /\ Single)'
  BY CoreStep, SingleStep
<1> QED
  BY <1>1, <1>2, <1>3, CoreInit, SingleInit, PTL DEF Spec, ImplementsPaidOrder, Order!Spec
=============================================================================
