------------------------------- MODULE Tunnels -------------------------------
(***************************************************************************)
(* Reverse-SSH tunnels: leases at the tunnel daemon, the rows that record  *)
(* them, and the payments for them.                                        *)
(*                                                                         *)
(* A client sends a create request, and sends it again when the answer is  *)
(* lost, with the same payment authorization.  The requests run on several *)
(* replicas of the API.  Creation verifies the authorization, mints the    *)
(* lease, writes the row and settles last; an extension is charged first,  *)
(* and refunded when it cannot be granted.  The owner may tear the tunnel  *)
(* down, and the worker sweeps what is over.  Each call to the daemon, the *)
(* facilitator, the ledger and the table is a step.  The clock counts      *)
(* hours; a request and a sweep take less than one.                        *)
(***************************************************************************)
EXTENDS Integers, FiniteSets

CONSTANTS
    Creators,     \* create requests that carry the one authorization
    Extenders,    \* extend requests, of an hour each
    Replicas,
    Nothing,
    Grace,        \* tunnel_grace_period_minutes, in hours
    \* Bounds of the model.
    Terms,        \* the hours that the create requests may ask for together
    MaxTime,
    Mishaps,      \* what may go wrong, each kind once
    MaxMishaps

AllMishaps == {"daemon_fails", "daemon_answer_lost", "no_token", "lease_lost", "revocation_lost",
               "table_fails", "declined", "settlement_answer_lost", "charge_unknown",
               "refund_unwritten", "crash"}
ASSUME MishapsAreKnown == Mishaps \subseteq AllMishaps
ASSUME NothingIsApart == Nothing \notin Creators \cup Replicas
ASSUME HoursAreNumbers == Terms \subseteq [Creators -> Nat]
ASSUME ExtendersAreFinite == IsFiniteSet(Extenders)

VARIABLES
    terms,    \* the hours each create request asks for
    row,      \* ReverseTunnelRow by the request that minted the id
    lease,    \* the daemon's leases, by the same id
    minted,   \* the tokens the daemon has made for an id
    work,     \* a create request: where it is, its replica, tunnel, and the lease it was answered
    extend,   \* an extend request: where it is and the expiry it was given
    owner,    \* a teardown by the owner
    swept,    \* the tunnels the sweep has selected, and the one it has revoked
    charged,  \* the tunnel the authorization was spent on
    account,  \* by tunnel: the expiry it was sold with, hours bought since and refunded
    now,
    mishaps   \* what has gone wrong

daemon == <<lease, minted>>
requests == <<work, extend, owner, swept>>
money == <<charged, account>>
tunnelVars == <<terms, row, daemon, requests, money, now, mishaps>>

NoRow == [keyed |-> FALSE, status |-> "none", paid |-> FALSE, expires |-> 0, token |-> 0,
          hours |-> 0, born |-> 0]
NoLease == [token |-> 0, expires |-> 0]
Exists(t) == row[t].status # "none"
Live(t) == lease[t].token # 0

Fine == UNCHANGED mishaps
GoesWrong(kind) == /\ kind \in Mishaps \ mishaps /\ Cardinality(mishaps) < MaxMishaps
                   /\ mishaps' = mishaps \cup {kind}

Go(r, at) == work' = [work EXCEPT ![r].at = at]

----------------------------------------------------------------------------
(* The daemon and the facilitator, as the code uses them.                  *)

\* A lease is made once for an id; a second request gets the same one.
LeaseFor(t, until) ==
    IF Live(t) THEN lease[t] ELSE [token |-> minted[t] + 1, expires |-> until]
Mint(t, until) ==
    /\ lease' = [lease EXCEPT ![t] = LeaseFor(t, until)]
    /\ minted' = [minted EXCEPT ![t] = IF Live(t) THEN @ ELSE @ + 1]
RevokeLease(t) == lease' = [lease EXCEPT ![t] = NoLease] /\ UNCHANGED minted

\* revoke_lease answers TRUE, or the daemon was not reached, or the lease is gone and nobody
\* heard of it: the answer was lost, or whoever asked has died.
Revoked(t, ok) == \/ ok = TRUE /\ RevokeLease(t) /\ Fine
                  \/ ok = FALSE /\ UNCHANGED daemon /\ GoesWrong("daemon_fails")
                  \/ ok = FALSE /\ RevokeLease(t) /\ GoesWrong("revocation_lost")

\* verify_only: a spent authorization may or may not pass.
Verifies(ok) == ok = TRUE \/ charged # Nothing

\* settle_verified: FALSE also when the authorization is spent or the answer is lost.
Settles(t, ok) ==
    \/ ok = FALSE /\ charged # Nothing /\ UNCHANGED charged /\ Fine
    \/ ok = TRUE /\ charged = Nothing /\ charged' = t /\ Fine
    \/ ok = FALSE /\ charged = Nothing /\ UNCHANGED charged /\ GoesWrong("declined")
    \/ ok = FALSE /\ charged = Nothing /\ charged' = t /\ GoesWrong("settlement_answer_lost")

----------------------------------------------------------------------------
(* create_tunnel.                                                          *)

Busy == {"find", "verify", "mint", "insert", "cancel", "conflict", "settle", "recheck", "revoke",
         "delete", "stamp", "recover", "resync", "orphan", "reread", "verify_again",
         "settle_again"}

\* _tunnel_authorization_guard, in the memory of one replica.
Enter(r, p) ==
    /\ work[r].at = "new"
    /\ work' = [work EXCEPT ![r].replica = p,
                  ![r].at = IF \E q \in Creators : work[q].at \in Busy /\ work[q].replica = p
                            THEN "failed" ELSE "find"]
    /\ UNCHANGED <<terms, row, daemon, extend, owner, swept, money, now, mishaps>>

\* The hash of the request is the row's.
SameTerms(r, t) == row[t].hours = terms[r]

\* find_by_idempotency_key, and the terms of the row that is found.
Find(r) ==
    /\ work[r].at \in {"find", "conflict"}
    /\ \/ \E t \in Creators :
            /\ row[t].keyed
            /\ work' = [work EXCEPT ![r].tunnel = t,
                          ![r].at = IF SameTerms(r, t) THEN "recover" ELSE "failed"]
       \/ /\ ~ \E t \in Creators : row[t].keyed
          /\ Go(r, IF work[r].at = "find" THEN "verify" ELSE "failed")
    /\ UNCHANGED <<terms, row, daemon, extend, owner, swept, money, now, mishaps>>

Verify(r) ==
    /\ work[r].at \in {"verify", "verify_again"}
    /\ \E ok \in BOOLEAN : /\ Verifies(ok)
                           /\ Go(r, IF ~ok THEN "failed"
                                    ELSE IF work[r].at = "verify" THEN "mint" ELSE "settle_again")
    /\ UNCHANGED <<terms, row, daemon, extend, owner, swept, money, now, mishaps>>

\* provision asks for the lease; without a token it is of no use.
MintLease(r) ==
    /\ work[r].at = "mint"
    /\ \/ /\ Mint(r, now + terms[r])
          /\ \/ Fine /\ work' = [work EXCEPT ![r].at = "insert", ![r].tunnel = r,
                                   ![r].token = LeaseFor(r, now + terms[r]).token,
                                   ![r].until = LeaseFor(r, now + terms[r]).expires]
             \/ GoesWrong("no_token") /\ work' = [work EXCEPT ![r].at = "cancel",
                                                ![r].until = LeaseFor(r, now + terms[r]).expires]
             \/ GoesWrong("daemon_answer_lost") /\ Go(r, "failed")
       \/ GoesWrong("daemon_fails") /\ UNCHANGED daemon /\ Go(r, "failed")
    /\ UNCHANGED <<terms, row, extend, owner, swept, money, now>>

\* The row is committed; the unique key refuses a second one, and the table may fail.
Insert(r) ==
    /\ work[r].at = "insert"
    /\ \/ /\ ~ \E t \in Creators : row[t].keyed
          /\ row' = [row EXCEPT ![r] = [keyed |-> TRUE, status |-> "active", paid |-> FALSE,
                       expires |-> work[r].until, token |-> work[r].token,
                       hours |-> terms[r], born |-> now]]
          /\ account' = [account EXCEPT ![r].sold = work[r].until]
          /\ Go(r, "settle") /\ Fine
       \/ /\ \/ (\E t \in Creators : row[t].keyed) /\ Fine
             \/ GoesWrong("table_fails")
          /\ Go(r, "cancel") /\ UNCHANGED <<row, account>>
    /\ UNCHANGED <<terms, daemon, extend, owner, swept, charged, now>>

\* The lease is given back, or a marker is left for the sweep; a request that lost the
\* race for the key then answers with the winner's tunnel.
Cancel(r) ==
    /\ work[r].at = "cancel"
    /\ \E ok \in BOOLEAN :
         /\ Revoked(r, ok)
         /\ row' = IF ok THEN row
                   ELSE [row EXCEPT ![r] = [NoRow EXCEPT !.status = "provisioning",
                           !.expires = work[r].until, !.token = work[r].token, !.born = now]]
    /\ Go(r, IF work[r].tunnel = r /\ \E t \in Creators : row[t].keyed THEN "conflict" ELSE "failed")
    /\ UNCHANGED <<terms, extend, owner, swept, money, now>>

Settle(r) ==
    /\ work[r].at \in {"settle", "settle_again"}
    /\ \E ok \in BOOLEAN :
         /\ Settles(work[r].tunnel, ok)
         /\ Go(r, IF work[r].at = "settle_again" \/ ok THEN "stamp" ELSE "recheck")
    /\ UNCHANGED <<terms, row, daemon, extend, owner, swept, account, now>>

\* Not settled: has another request stamped the row meanwhile?
Recheck(r) ==
    /\ work[r].at = "recheck"
    /\ Go(r, IF row[r].paid THEN "answered" ELSE "revoke")
    /\ UNCHANGED <<terms, row, daemon, extend, owner, swept, money, now, mishaps>>

\* svc.revoke: the row goes once the daemon has confirmed.
RevokeUnpaid(r) ==
    /\ work[r].at = "revoke"
    /\ \E ok \in BOOLEAN : Revoked(r, ok) /\ Go(r, IF ok THEN "delete" ELSE "failed")
    /\ UNCHANGED <<terms, row, extend, owner, swept, money, now>>

DeleteUnpaid(r) ==
    /\ work[r].at = "delete" /\ Go(r, "failed")
    /\ row' = [row EXCEPT ![r] = NoRow]
    /\ UNCHANGED <<terms, daemon, extend, owner, swept, money, now, mishaps>>

\* mark_settled gives up after five failures; the answer is sent nevertheless.
Stamp(r) ==
    LET t == work[r].tunnel IN
    /\ work[r].at = "stamp" /\ Go(r, "answered")
    /\ \/ Fine /\ row' = IF Exists(t) THEN [row EXCEPT ![t].paid = TRUE] ELSE row
       \/ GoesWrong("table_fails") /\ UNCHANGED row
    /\ UNCHANGED <<terms, daemon, extend, owner, swept, money, now>>

----------------------------------------------------------------------------
(* _replay_create.                                                         *)

\* recover_lease: the row is read and the daemon asked for the lease again.
Recover(r) ==
    LET t == work[r].tunnel
        until == IF row[t].expires > now THEN row[t].expires ELSE now + 1 IN
    /\ work[r].at = "recover"
    /\ \/ /\ ~Exists(t) /\ Go(r, "failed") /\ Fine /\ UNCHANGED daemon
       \/ /\ Exists(t) /\ Mint(t, until) /\ Fine
          /\ work' = [work EXCEPT ![r].at = "resync", ![r].token = LeaseFor(t, until).token]
       \/ /\ Exists(t) /\ GoesWrong("daemon_fails") /\ Go(r, "failed") /\ UNCHANGED daemon
    /\ UNCHANGED <<terms, row, extend, owner, swept, money, now>>

\* The row gets the token, unless it is gone.
Resync(r) ==
    LET t == work[r].tunnel IN
    /\ work[r].at = "resync"
    /\ IF Exists(t) THEN row' = [row EXCEPT ![t].token = work[r].token] /\ Go(r, "reread")
       ELSE UNCHANGED row /\ Go(r, "orphan")
    /\ UNCHANGED <<terms, daemon, extend, owner, swept, money, now, mishaps>>

\* The lease that was made again for a row that is gone is given back, if the daemon hears.
RevokeOrphan(r) ==
    /\ work[r].at = "orphan" /\ Go(r, "failed")
    /\ \E ok \in BOOLEAN : Revoked(work[r].tunnel, ok)
    /\ UNCHANGED <<terms, row, extend, owner, swept, money, now>>

\* A row with a payment is answered, one without is verified and settled now.
Reread(r) ==
    /\ work[r].at = "reread"
    /\ Go(r, IF row[work[r].tunnel].paid THEN "answered" ELSE "verify_again")
    /\ UNCHANGED <<terms, row, daemon, extend, owner, swept, money, now, mishaps>>

----------------------------------------------------------------------------
(* extend_tunnel.                                                          *)

\* A request that ends with the customer charged, and neither the hour nor a refund on record,
\* is left at what went wrong.
Unbooked == {"charge_unknown", "crash", "refund_unwritten"}
UnderWay == {"pay", "apply", "persist", "refund"}

GoOn(e, at) == extend' = [extend EXCEPT ![e].at = at]
Charge(t) == account' = [account EXCEPT ![t].bought = @ + 1]
RecordExtendRefund(t) == account' = [account EXCEPT ![t].refunded = @ + 1]

\* _tunnel_for_management: the client has a token the row knows.
Managed(t) == \E r \in Creators : /\ work[r].at = "answered" /\ work[r].tunnel = t
                                  /\ work[r].token = row[t].token

\* The client has the token, and the daemon still has the lease.
Preflight(e, t) ==
    /\ extend[e].at = "new" /\ Exists(t) /\ Live(t)
    /\ Managed(t)
    /\ extend' = [extend EXCEPT ![e] = [at |-> "pay", tunnel |-> t, until |-> 0]]
    /\ UNCHANGED <<terms, row, daemon, work, owner, swept, money, now, mishaps>>

\* check_payment charges at once, is refused, or fails after the facilitator has charged: then
\* the request ends without granting or refunding anything.
Pay(e) ==
    /\ extend[e].at = "pay" /\ UNCHANGED <<terms, row, daemon, work, owner, swept, charged, now>>
    /\ \/ Fine /\ Charge(extend[e].tunnel) /\ GoOn(e, "apply")
       \/ GoesWrong("declined") /\ UNCHANGED account /\ GoOn(e, "failed")
       \/ GoesWrong("charge_unknown") /\ Charge(extend[e].tunnel) /\ GoOn(e, "charge_unknown")

ExtendLease(t) == lease' = [lease EXCEPT ![t].expires = @ + 1]

\* The daemon extends the lease, or refuses, or has none.
ApplyExtension(e) ==
    LET t == extend[e].tunnel IN
    /\ extend[e].at = "apply" /\ UNCHANGED <<terms, row, minted, work, owner, swept, money, now>>
    /\ \/ /\ Live(t) /\ Fine /\ ExtendLease(t)
          /\ extend' = [extend EXCEPT ![e].at = "persist", ![e].until = lease[t].expires + 1]
       \/ GoOn(e, "refund") /\ UNCHANGED lease /\ ((~Live(t) /\ Fine) \/ GoesWrong("daemon_fails"))
       \/ Live(t) /\ GoOn(e, "refund") /\ GoesWrong("daemon_answer_lost") /\ ExtendLease(t)

\* Mutant of Persist: the expiry is written whatever the row says by now.
PersistAnyway(e) ==
    LET t == extend[e].tunnel IN
    /\ extend[e].at = "persist" /\ UNCHANGED <<terms, daemon, work, owner, swept, money, now>>
    /\ Exists(t) /\ Fine /\ GoOn(e, "done")
    /\ row' = [row EXCEPT ![t].expires = extend[e].until]

\* The row's expiry only ever advances; a row that is gone, or that cannot be written,
\* makes a refund.
Persist(e) ==
    LET t == extend[e].tunnel IN
    /\ extend[e].at = "persist" /\ UNCHANGED <<terms, daemon, work, owner, swept, money, now>>
    /\ \/ /\ Exists(t) /\ Fine /\ GoOn(e, "done")
          /\ row' = IF row[t].expires < extend[e].until
                    THEN [row EXCEPT ![t].expires = extend[e].until] ELSE row
       \/ GoOn(e, "refund") /\ UNCHANGED row /\ ((~Exists(t) /\ Fine) \/ GoesWrong("table_fails"))

\* _extend_failed_after_payment; _record_extend_refund swallows a failure of the ledger.
RefundExtension(e) ==
    /\ extend[e].at = "refund"
    /\ UNCHANGED <<terms, row, daemon, work, owner, swept, charged, now>>
    /\ \/ Fine /\ RecordExtendRefund(extend[e].tunnel) /\ GoOn(e, "failed")
       \/ GoesWrong("refund_unwritten") /\ UNCHANGED account /\ GoOn(e, "refund_unwritten")

----------------------------------------------------------------------------
(* The end of a tunnel.                                                    *)

\* revoke_tunnel.
OwnerRevokes(t) ==
    /\ owner.at = "idle" /\ Exists(t)
    /\ Managed(t)
    /\ \E ok \in BOOLEAN :
         Revoked(t, ok) /\ owner' = [at |-> IF ok THEN "delete" ELSE "failed", tunnel |-> t]
    /\ UNCHANGED <<terms, row, work, extend, swept, money, now>>

OwnerDeletes ==
    /\ owner.at = "delete" /\ owner' = [owner EXCEPT !.at = "revoked"]
    /\ row' = [row EXCEPT ![owner.tunnel] = NoRow]
    /\ UNCHANGED <<terms, daemon, work, extend, swept, money, now, mishaps>>

\* Mutant of Reapable: a row whose payment is not stamped is taken for an abandoned one.
ReapableUnpaid(t) == Exists(t) /\ (row[t].expires + Grace < now \/ (~row[t].paid /\ row[t].born < now))

\* sweep_expiries: what is over, and the markers.
Reapable(t) == Exists(t) /\ \/ row[t].expires + Grace < now
                            \/ row[t].status = "provisioning" /\ row[t].born < now

SweepSelect ==
    /\ swept.chosen = {} /\ \E t \in Creators : Reapable(t)
    /\ swept' = [swept EXCEPT !.chosen = {t \in Creators : Reapable(t)}]
    /\ UNCHANGED <<terms, row, daemon, work, extend, owner, money, now, mishaps>>

\* Whatever has become of its row since it was selected.
SweepRevoke(t) ==
    /\ t \in swept.chosen /\ swept.revoked = Nothing
    /\ \E ok \in BOOLEAN :
         /\ Revoked(t, ok)
         /\ swept' = IF ok THEN [swept EXCEPT !.revoked = t]
                     ELSE [swept EXCEPT !.chosen = @ \ {t}]
    /\ UNCHANGED <<terms, row, work, extend, owner, money, now>>

SweepDelete ==
    /\ swept.revoked # Nothing /\ row' = [row EXCEPT ![swept.revoked] = NoRow]
    /\ swept' = [chosen |-> swept.chosen \ {swept.revoked}, revoked |-> Nothing]
    /\ UNCHANGED <<terms, daemon, work, extend, owner, money, now, mishaps>>

----------------------------------------------------------------------------
(* Time and faults.                                                        *)

Quiet == /\ swept.chosen = {} /\ owner.at # "delete"
         /\ \A r \in Creators : work[r].at \notin Busy
         /\ \A e \in Extenders : extend[e].at \notin UnderWay

\* An hour passes; the daemon drops the leases that are over.
Tick ==
    /\ Quiet /\ now < MaxTime /\ now' = now + 1
    /\ lease' = [t \in Creators |-> IF lease[t].expires <= now + 1 THEN NoLease ELSE lease[t]]
    /\ UNCHANGED <<terms, row, minted, requests, money, mishaps>>

\* The daemon forgets a lease.
LoseLease(t) ==
    /\ Live(t) /\ GoesWrong("lease_lost") /\ RevokeLease(t)
    /\ UNCHANGED <<terms, row, requests, money, now>>

\* A replica dies with the create requests it runs, and with some of the extensions: one that
\* has been charged ends there.
Crash(p) ==
    \E dead \in SUBSET {e \in Extenders : extend[e].at \in UnderWay} :
      /\ dead # {} \/ \E r \in Creators : work[r].at \in Busy /\ work[r].replica = p
      /\ GoesWrong("crash")
      /\ work' = [r \in Creators |-> IF work[r].at \in Busy /\ work[r].replica = p
                                     THEN [work[r] EXCEPT !.at = "failed"] ELSE work[r]]
      /\ extend' = [e \in Extenders |->
           IF e \notin dead THEN extend[e]
           ELSE [extend[e] EXCEPT !.at = IF @ = "pay" THEN "failed" ELSE "crash"]]
      /\ UNCHANGED <<terms, row, daemon, owner, swept, money, now>>

----------------------------------------------------------------------------
TunnelInit ==
    /\ terms \in Terms /\ now = 0 /\ mishaps = {} /\ charged = Nothing
    /\ row = [t \in Creators |-> NoRow] /\ lease = [t \in Creators |-> NoLease]
    /\ minted = [t \in Creators |-> 0]
    /\ work = [r \in Creators |-> [at |-> "new", replica |-> Nothing, tunnel |-> Nothing, token |-> 0,
                                  until |-> 0]]
    /\ extend = [e \in Extenders |-> [at |-> "new", tunnel |-> Nothing, until |-> 0]]
    /\ owner = [at |-> "idle", tunnel |-> Nothing]
    /\ swept = [chosen |-> {}, revoked |-> Nothing]
    /\ account = [t \in Creators |-> [sold |-> 0, bought |-> 0, refunded |-> 0]]

Create(r) ==
    \/ \E p \in Replicas : Enter(r, p)
    \/ Find(r) \/ Verify(r) \/ MintLease(r) \/ Insert(r) \/ Cancel(r) \/ Settle(r) \/ Recheck(r)
    \/ RevokeUnpaid(r) \/ DeleteUnpaid(r) \/ Stamp(r)
    \/ Recover(r) \/ Resync(r) \/ RevokeOrphan(r) \/ Reread(r)

TunnelNext ==
    \/ \E r \in Creators : Create(r) \/ OwnerRevokes(r) \/ SweepRevoke(r) \/ LoseLease(r)
    \/ \E e \in Extenders : \/ Pay(e) \/ ApplyExtension(e) \/ Persist(e) \/ RefundExtension(e)
                            \/ \E t \in Creators : Preflight(e, t)
    \/ OwnerDeletes \/ SweepSelect \/ SweepDelete \/ Tick \/ \E p \in Replicas : Crash(p)

TunnelSpec == TunnelInit /\ [][TunnelNext]_tunnelVars

----------------------------------------------------------------------------
(* Properties.                                                             *)

\* What the variables hold.
RowRows == [keyed : BOOLEAN, status : {"none", "active", "provisioning"}, paid : BOOLEAN,
            expires : Nat, token : Nat, hours : Nat, born : Nat]
LeaseRows == [token : Nat, expires : Nat]
WorkRows == [at : Busy \cup {"new", "answered", "failed"}, replica : Replicas \cup {Nothing},
             tunnel : Creators \cup {Nothing}, token : Nat, until : Nat]
ExtendRows == [at : UnderWay \cup Unbooked \cup {"new", "done", "failed"},
               tunnel : Creators \cup {Nothing}, until : Nat]
SaleRows == [sold : Nat, bought : Nat, refunded : Nat]
TunnelTypes ==
    /\ terms \in [Creators -> Nat] /\ row \in [Creators -> RowRows]
    /\ lease \in [Creators -> LeaseRows] /\ minted \in [Creators -> Nat]
    /\ work \in [Creators -> WorkRows] /\ extend \in [Extenders -> ExtendRows]
    /\ owner \in [at : {"idle", "delete", "revoked", "failed"}, tunnel : Creators \cup {Nothing}]
    /\ swept \in [chosen : SUBSET Creators, revoked : Creators \cup {Nothing}] /\ charged \in Creators \cup {Nothing}
    /\ account \in [Creators -> SaleRows] /\ now \in Nat /\ mishaps \subseteq AllMishaps

\* The sweep revokes what it has selected.  A request is alone on its replica; one that is creating a tunnel works on its own id, one
\* that found a tunnel on the id of another request, which is past its insertion.
Creating == {"insert", "settle", "recheck", "revoke", "delete"}
Replaying == {"recover", "resync", "orphan", "reread", "verify_again", "settle_again"}
Inserted == {"settle", "recheck", "revoke", "delete", "stamp", "answered", "failed"}
WorkInPlace ==
    /\ owner.at = "idle" => owner.tunnel = Nothing
    /\ swept.revoked # Nothing => swept.revoked \in swept.chosen
    /\ \A r \in Creators :
         /\ work[r].at = "new" => work[r].replica = Nothing
         /\ work[r].at \in Busy => work[r].replica # Nothing
         /\ work[r].at \in Creating => work[r].tunnel = r
         /\ work[r].at \in Replaying => work[r].tunnel \in Creators \ {r}
         /\ work[r].at \in {"stamp", "answered"} => work[r].tunnel \in Creators
    /\ \A q, r \in Creators :
         /\ q # r /\ work[q].tunnel = r => work[r].at \in Inserted
         /\ work[q].at \in Busy /\ work[r].at \in Busy /\ work[q].replica = work[r].replica => q = r

\* One row at most has the key of the authorization, and the request that wrote it is past
\* that; the lease of such a row is never given back as an orphan.
KeyInPlace ==
    /\ \A t \in Creators :
         /\ row[t].keyed <=> row[t].status = "active"
         /\ row[t].keyed => work[t].tunnel = t /\ work[t].at \in Inserted
         /\ work[t].at = "orphan" => ~row[work[t].tunnel].keyed
    /\ \A s, t \in Creators : row[s].keyed /\ row[t].keyed => s = t

\* No two replicas are given the one authorization.
OnOneReplica == \A q, r \in Creators :
    work[q].replica # Nothing /\ work[r].replica # Nothing => work[q].replica = work[r].replica

\* On one replica a request that creates a tunnel is undisturbed, and one whose
\* authorization was charged does not take it for unpaid.
Undisturbed ==
    OnOneReplica => \A r \in Creators :
        /\ work[r].at \in Creating => \A q \in Creators \ {r} : work[q].tunnel # r
        /\ charged = r /\ "settlement_answer_lost" \notin mishaps
             => work[r].at \in {"stamp", "answered", "failed"}

\* The extensions of a tunnel that are paid for and not refunded, those of them whose request
\* ended with nothing on record, and those the daemon has granted.
Lost(t) == {e \in Extenders : extend[e].tunnel = t /\ extend[e].at \in Unbooked}
Bought(t) == {e \in Extenders : extend[e].tunnel = t /\
                extend[e].at \in {"apply", "persist", "refund", "done"}} \cup Lost(t)
Granted(t) == {e \in Extenders : extend[e].tunnel = t /\ extend[e].at \in {"persist", "done"}}

\* Whoever extends a tunnel has got its token in an answer, the books agree with what is under
\* way, and an extension is lost only by one of three mishaps (_extend_failed_after_payment).
ExtensionsInStep ==
    /\ \A e \in Extenders : extend[e].at # "new" =>
         \E r \in Creators : work[r].at = "answered" /\ work[r].tunnel = extend[e].tunnel
    /\ \A e \in Extenders : extend[e].at \in Unbooked => extend[e].at \in mishaps
    /\ \A t \in Creators : account[t].bought - account[t].refunded = Cardinality(Bought(t))

\* Neither the row nor the lease ever grants less than was sold; extensions go beyond
\* that, and what the table was told it remembers.
SoldKept ==
    \A t \in Creators :
      /\ work[t].at = "insert" /\ Live(t) => lease[t].expires >= work[t].until
      /\ row[t].keyed =>
           /\ row[t].expires >= account[t].sold
           /\ Live(t) => lease[t].expires >= account[t].sold
           /\ \A e \in Granted(t) : /\ extend[e].until > account[t].sold
                                    /\ extend[e].at = "done" => extend[e].until <= row[t].expires

\* Nothing has made the daemon forget a lease that somebody relies on: neither a loss of
\* its own, nor a revocation that nobody heard of, nor a request that took the tunnel for
\* unpaid while another replica was answering with it, and died before it deleted the row.
NothingForgotten == /\ {"lease_lost", "revocation_lost"} \cap mishaps = {}
                    /\ "crash" \notin mishaps \/ OnOneReplica

\* The tunnel is there, its owner has not begun to tear it down, and neither the sweep nor a
\* request that took it for unpaid has revoked it.
Kept(t) == row[t].keyed /\ owner.tunnel # t /\ swept.revoked # t /\ work[t].at # "delete"

\* No two extensions are granted the same hour, and the lease, or the row or the clock when
\* there is none, is past all of them (extend, recover_lease).
HoursInStep ==
    NothingForgotten => \A t \in Creators : Kept(t) =>
      \A e \in Granted(t) :
        /\ \A f \in Granted(t) : extend[e].until = extend[f].until => e = f
        /\ IF Live(t) THEN extend[e].until <= lease[t].expires
           ELSE extend[e].until <= row[t].expires \/ extend[e].until <= now

\* The row of a tunnel grants every hour that was paid for, was not refunded and was not lost,
\* whatever the order in which extensions reach the daemon and the table, as long as the
\* daemon has forgotten no lease and the tunnel is kept: its owner has not begun to tear it
\* down and the sweep has not revoked it (extend, the monotonic update).  Hours are lost when the gate reports a failure although the
\* facilitator has charged, when a charged request dies, and when the ledger fails the refund.
PaidHoursKept ==
    NothingForgotten =>
      \A t \in Creators :
        /\ Kept(t)
        /\ \A e \in Extenders : extend[e].tunnel = t => extend[e].at \notin UnderWay
        => row[t].expires >= account[t].sold + account[t].bought - account[t].refunded
                             - Cardinality(Lost(t))

\* What holds in every state.
TunnelInv == /\ TunnelTypes /\ WorkInPlace /\ KeyInPlace /\ Undisturbed
             /\ ExtensionsInStep /\ SoldKept /\ HoursInStep /\ PaidHoursKept

\* A tunnel whose authorization has been charged is torn down by its owner or by the sweep that
\* found its time over, never because a request took it for unpaid: not after a crash between
\* the settlement and its stamp, nor by the sweep.  The exceptions are a charge that the gate
\* reported as declined, and requests on two replicas (create_tunnel, sweep_expiries).
PaidTunnelKept ==
    [][\A t \in Creators :
         /\ charged = t /\ "settlement_answer_lost" \notin mishaps /\ OnOneReplica /\ row[t].keyed
         /\ \/ row'[t].status = "none"
            \/ t \in swept'.chosen
            \/ Live(t) /\ lease'[t].token = 0 /\ now' = now /\ "lease_lost" \notin mishaps' \ mishaps
         => \/ owner'.tunnel = t
            \/ row[t].expires + Grace < now \/ t \in swept.chosen]_tunnelVars

=============================================================================
