------------------------- MODULE AccountsTunnelsProofs -------------------------
(***************************************************************************)
(* The proofs about two models that share no state, one after the other.   *)
(*                                                                         *)
(* Accounts: what TLC checks for three accounts and three requests holds   *)
(* for any number of them.  The inductive invariant is AccountInv with     *)
(* SessionsFollowPassword.  Each action is first reduced to what it does   *)
(* to the rows; each part of the invariant then has a lemma.               *)
(*                                                                         *)
(* Tunnels: the same for any number of create requests, extensions and     *)
(* replicas.  The inductive invariant is TunnelParts; PaidHoursKept        *)
(* follows from it, by counting.  Each step is first reduced to where the  *)
(* request goes, what it does to the rows, to the extensions with their    *)
(* books, and to the leases; each part of the invariant then has a lemma.  *)
(***************************************************************************)
EXTENDS Accounts, Tunnels, FiniteSetTheorems, TLAPS

USE DEF vars

----------------------------------------------------------------------------
(* Requests.                                                               *)

ReqOK == /\ req \in [Requests -> RequestRows] /\ started \in 0..MaxRequests
         /\ \A r \in Requests :
              /\ req[r].kind \in AdminKinds => req[r].target \in Accounts
              /\ req[r].kind \notin {"wallet_login", None} => req[r].acct \in Accounts

\* A request that arrives is well-formed if what was established about it is.
LEMMA ArriveOK ==
  ASSUME ReqOK, started < MaxRequests, NEW r \in Requests, NEW fields \in RequestRows, Arrive(r, fields),
         fields.kind \in AdminKinds => fields.target \in Accounts,
         fields.kind \notin {"wallet_login", None} => fields.acct \in Accounts
  PROVE  ReqOK'
<1> DEFINE rec == [fields EXCEPT !.id = started + 1]
<1>1. started + 1 \in 0..MaxRequests
  BY BoundsAreNumbers DEF ReqOK
<1>2. rec \in RequestRows /\ rec.kind = fields.kind /\ rec.target = fields.target /\ rec.acct = fields.acct
  BY <1>1 DEF RequestRows
<1>3. req' = [req EXCEPT ![r] = rec] /\ started' = started + 1
  BY DEF Arrive
<1> HIDE DEF rec
<1> QED
  BY <1>1, <1>2, <1>3 DEF ReqOK

\* An empty slot is well-formed.
LEMMA IdleOK == Idle \in RequestRows /\ Idle.kind = None /\ None \notin AdminKinds
<1>1. 0 \in 0..MaxRequests
  BY BoundsAreNumbers
<1>2. Idle \in RequestRows
  BY <1>1 DEF Idle, RequestRows
<1> QED
  BY <1>2, NoneIsNothing DEF Idle, Kinds

\* A request that has ended leaves its slot empty.
LEMMA EndsOK == ASSUME ReqOK, NEW r \in Requests, NEW kind, Ends(r, kind) PROVE ReqOK'
  BY IdleOK DEF ReqOK, Ends

\* Every request in flight is well-formed.
LEMMA ReqStep == TypeOK /\ [Next]_vars => ReqOK'
<1> SUFFICES ASSUME TypeOK, [Next]_vars PROVE ReqOK'
  OBVIOUS
<1>0. ReqOK /\ acct \in [Accounts -> AccountRows] /\ \A a \in Accounts : acct[a] \in AccountRows
  BY DEF TypeOK, ReqOK
<1>1. ASSUME NEW r \in Requests, Arrives(r) PROVE ReqOK'
  <2>0. started < MaxRequests
    BY <1>1 DEF Arrives
  <2>1. ASSUME NEW s \in sessions, NEW kind \in SessionKinds \cup AdminKinds,
               ArriveBySession(r, s, kind)
        PROVE  ReqOK'
    <3>0. s \in SessionRows
      BY DEF TypeOK
    <3>1. PICK target \in IF kind \in AdminKinds THEN {a \in Accounts : acct[a].exists}
                     ELSE IF kind = "unkey" THEN {k.id : k \in keys} ELSE {None} :
          \E scopes \in IF kind = "mint" THEN {Scopes, Scopes \ {WriteKeys}} ELSE {{}} :
             Arrive(r, [Idle EXCEPT !.kind = kind, !.acct = s.acct, !.via = s.id,
                         !.proof = acct[s.acct].pw, !.target = target, !.scopes = scopes])
      BY <2>1 DEF ArriveBySession
    <3>2. PICK scopes \in SUBSET Scopes :
             Arrive(r, [Idle EXCEPT !.kind = kind, !.acct = s.acct, !.via = s.id,
                         !.proof = acct[s.acct].pw, !.target = target, !.scopes = scopes])
      BY <3>1
    <3>3. target \in Accounts \cup Nat \cup {None} /\ (kind \in AdminKinds => target \in Accounts)
      <4>1. \A k \in keys : k.id \in Nat
        BY BoundsAreNumbers DEF TypeOK, KeyRows
      <4> QED
        BY <3>1, <4>1
    <3>4. s.acct \in Accounts /\ s.id \in Nat /\ acct[s.acct].pw \in Nat
      BY <1>0, <3>0, BoundsAreNumbers DEF SessionRows, AccountRows
    <3> DEFINE fields == [Idle EXCEPT !.kind = kind, !.acct = s.acct, !.via = s.id,
                         !.proof = acct[s.acct].pw, !.target = target, !.scopes = scopes]
    <3>5. fields \in RequestRows /\ fields.kind = kind /\ fields.acct = s.acct /\ fields.target = target
      BY <3>3, <3>4, IdleOK DEF RequestRows, Kinds
    <3>6. Arrive(r, fields)
      BY <3>2
    <3> HIDE DEF fields
    <3> QED
      BY <1>0, <2>0, <3>3, <3>4, <3>5, <3>6, ArriveOK
  <2>2. ASSUME NEW k \in keys, ArriveByKey(r, k) PROVE ReqOK'
    <3>0. k \in KeyRows /\ k.acct \in Accounts /\ k.scopes \subseteq Scopes
      BY DEF TypeOK, KeyRows
    <3>1. ASSUME NEW scopes \in Grantable(k),
                 Arrive(r, [Idle EXCEPT !.kind = "mint", !.acct = k.acct, !.scopes = scopes])
          PROVE  ReqOK'
      <4> DEFINE fields == [Idle EXCEPT !.kind = "mint", !.acct = k.acct, !.scopes = scopes]
      <4>1. fields \in RequestRows /\ fields.kind = "mint" /\ fields.acct = k.acct
        BY <3>0, IdleOK DEF RequestRows, Kinds, SessionKinds, Grantable
      <4>2. Arrive(r, fields)
        BY <3>1
      <4> HIDE DEF fields
      <4> QED
        BY <1>0, <2>0, <3>0, <4>1, <4>2, ArriveOK DEF AdminKinds
    <3>2. ASSUME NEW j \in keys,
                 Arrive(r, [Idle EXCEPT !.kind = "unkey", !.acct = k.acct, !.target = j.id])
          PROVE  ReqOK'
      <4> DEFINE fields == [Idle EXCEPT !.kind = "unkey", !.acct = k.acct, !.target = j.id]
      <4>0. j.id \in Nat
        BY BoundsAreNumbers DEF TypeOK, KeyRows
      <4>1. fields \in RequestRows /\ fields.kind = "unkey" /\ fields.acct = k.acct
        BY <3>0, <4>0, IdleOK DEF RequestRows, Kinds, SessionKinds
      <4>2. Arrive(r, fields)
        BY <3>2
      <4> HIDE DEF fields
      <4> QED
        BY <1>0, <2>0, <3>0, <4>1, <4>2, ArriveOK DEF AdminKinds
    <3> QED
      BY <2>2, <3>1, <3>2 DEF ArriveByKey
  <2>3. ASSUME NEW a \in Accounts, NEW kind \in {"login", "recover"}, ArriveWithProof(r, a, kind)
        PROVE  ReqOK'
    <3> DEFINE proof == IF kind = "login" THEN acct[a].pw ELSE acct[a].code
               fields == [Idle EXCEPT !.kind = kind, !.acct = a, !.proof = proof]
    <3>0. proof \in Nat
      BY <1>0 DEF AccountRows
    <3>1. fields \in RequestRows /\ fields.kind = kind /\ fields.acct = a
      BY <3>0, IdleOK DEF RequestRows, Kinds
    <3>2. Arrive(r, fields)
      BY <2>3 DEF ArriveWithProof
    <3> HIDE DEF fields, proof
    <3> QED
      BY <1>0, <2>0, <3>1, <3>2, ArriveOK DEF AdminKinds
  <2>4. ASSUME NEW a \in Accounts, NEW kind \in {"register", "checkout"},
               Arrive(r, [Idle EXCEPT !.kind = kind, !.acct = a])
        PROVE  ReqOK'
    <3> DEFINE fields == [Idle EXCEPT !.kind = kind, !.acct = a]
    <3>1. fields \in RequestRows /\ fields.kind = kind /\ fields.acct = a
      BY IdleOK DEF RequestRows, Kinds
    <3>2. Arrive(r, fields)
      BY <2>4
    <3> HIDE DEF fields
    <3> QED
      BY <1>0, <2>0, <3>1, <3>2, ArriveOK DEF AdminKinds
  <2>5. ASSUME NEW c \in challenge, ArriveWithWallet(r, c) PROVE ReqOK'
    <3> DEFINE a == IF LinkedTo(c.wallet) = {} THEN None ELSE CHOOSE a \in LinkedTo(c.wallet) : TRUE
               fields == [Idle EXCEPT !.kind = "wallet_login", !.via = c.n, !.acct = a]
    <3>0. c.n \in Nat
      BY BoundsAreNumbers DEF TypeOK, ChallengeRows
    <3>1. a \in Accounts \cup {None}
      BY DEF LinkedTo
    <3>2. Arrive(r, fields)
      BY <2>5 DEF ArriveWithWallet
    <3> HIDE DEF a
    <3>3. fields \in RequestRows /\ fields.kind = "wallet_login"
      BY <3>0, <3>1, IdleOK DEF RequestRows, Kinds
    <3> HIDE DEF fields
    <3> QED
      BY <1>0, <2>0, <3>2, <3>3, ArriveOK DEF AdminKinds
  <2> QED
    BY <1>1, <2>1, <2>2, <2>3, <2>4, <2>5 DEF Arrives, Register, ResolveX402Owner, LinkedTo
<1>2. ASSUME NEW r \in Requests, Commits(r) PROVE ReqOK'
  <2>1. \E kind : Ends(r, kind)
    BY <1>2 DEF Commits, Login, RecoverWithCode, ChangePassword, RotateRecoveryCode, StepUp,
       CreateApiKey, RevokeApiKey, EndRegister, IssueSession, WalletLogin, LinkOrRotate,
       ConsumeTransferChallenge, DeleteAccount, AdminDisable, AdminEnable, SetAccountRole,
       AdminRevokes
  <2> QED
    BY <1>0, <2>1, EndsOK
<1>3. ASSUME req' = req, started' = started \/ (started < MaxRequests /\ started' = started + 1)
      PROVE  ReqOK'
  BY <1>0, <1>3, BoundsAreNumbers DEF ReqOK
<1> QED
  BY <1>1, <1>2, <1>3 DEF Next, Logout, LinkPayer, CreateLoginChallenge, RecoverWalletChallenge,
     CreateChallenge, Issue, RecoverWithWallet, CreateAdmin

----------------------------------------------------------------------------
(* Challenges.                                                             *)

\* The table of challenges is finite and well-formed.
LEMMA ChallengeStep ==
  ASSUME TypeOK, [Next]_vars
  PROVE  challenge' \subseteq ChallengeRows /\ IsFiniteSet(challenge')
<1> DEFINE Goal == challenge' \subseteq ChallengeRows /\ IsFiniteSet(challenge')
<1>0. challenge \subseteq ChallengeRows /\ IsFiniteSet(challenge)
  BY DEF TypeOK
<1>1. ASSUME NEW action \in {"login", "recover", "link", "rotate", "transfer"}, NEW w \in Wallets,
             NEW a \in Accounts \cup {None}, Issue(action, w, a)
      PROVE  Goal
  <2>1. Cardinality(challenge) \in Nat
    BY <1>0, FS_CardinalityType
  <2>2. [n |-> Cardinality(challenge) + 1, action |-> action, wallet |-> w, acct |-> a,
         used |-> FALSE] \in ChallengeRows
    BY <1>1, <2>1, BoundsAreNumbers DEF Issue, ChallengeRows
  <2> QED
    BY <1>0, <1>1, <2>2, FS_AddElement DEF Issue
<1>2. ASSUME NEW c \in challenge, Use(c) PROVE Goal
  <2>1. [c EXCEPT !.used = TRUE] \in ChallengeRows
    BY <1>0 DEF ChallengeRows
  <2>2. IsFiniteSet(challenge \ {c})
    BY <1>0, FS_RemoveElement
  <2> QED
    BY <1>0, <1>2, <2>1, <2>2, FS_AddElement DEF Use
<1>3. CASE challenge' = challenge
  BY <1>0, <1>3
<1>4. ASSUME NEW r \in Requests, Commits(r) PROVE Goal
  <2>1. challenge' = challenge \/ \E c \in challenge : Use(c)
    BY <1>4 DEF Commits, Login, RecoverWithCode, ChangePassword, RotateRecoveryCode, StepUp,
       CreateApiKey, RevokeApiKey, EndRegister, IssueSession, WalletLogin, LinkOrRotate,
       ConsumeTransferChallenge, DeleteAccount, AdminDisable, AdminEnable, SetAccountRole,
       AdminRevokes, Refused
  <2> QED
    BY <1>2, <1>3, <2>1
<1>5. QED
  BY <1>1, <1>2, <1>3, <1>4 DEF Next, Arrives, ArriveBySession, ArriveByKey, ArriveWithProof, Register,
     ResolveX402Owner, ArriveWithWallet, Logout, LinkPayer, CreateLoginChallenge,
     RecoverWalletChallenge, CreateChallenge, RecoverWithWallet, CreateAdmin

----------------------------------------------------------------------------
(* What a step does to accounts, sessions and keys.                        *)

\* An identity that was never used becomes an account, perhaps with its first session.
Created ==
    \E b \in Accounts, rec \in AccountRows :
      /\ Unused(b) /\ acct' = [acct EXCEPT ![b] = rec] /\ keys' = keys
      /\ rec.exists /\ ~rec.disabled /\ (rec.wallet # None => LinkedTo(rec.wallet) = {})
      /\ \/ sessions' = sessions
         \/ \E s \in SessionRows : /\ s.acct = b /\ s.since = rec.pw /\ s.elevated = 0
                                   /\ sessions' = sessions \cup {s}
\* An enabled account gets a new password and keeps the sessions in kept.
PasswordSet ==
    \E a \in Accounts, kept \in SUBSET sessions, code \in Nat :
      /\ Enabled(a) /\ kept \subseteq SessionsOf(a) /\ code >= acct[a].code
      /\ SetPassword(a, kept, code) /\ keys' = keys
\* An account's row changes, but neither its password nor anything of its sessions and keys.
Changed ==
    \E a \in Accounts, rec \in AccountRows :
      /\ acct' = [acct EXCEPT ![a] = rec] /\ UNCHANGED <<sessions, keys>>
      /\ acct[a].exists /\ rec.exists /\ rec.pw = acct[a].pw /\ rec.code >= acct[a].code
      /\ rec.wallet # acct[a].wallet => rec.wallet \in Wallets /\ LinkedTo(rec.wallet) \subseteq {a}
      /\ rec.disabled => acct[a].disabled
      /\ a \in EnabledAdmins => (rec.admin \/ ~LastAdmin(a))
\* An account goes, with its sessions and keys.
Deleted ==
    \E a \in Accounts : /\ acct[a].exists /\ ~acct[a].admin
                        /\ acct' = [acct EXCEPT ![a] = DeletedAccount]
                        /\ sessions' = sessions \ SessionsOf(a)
                        /\ keys' = {k \in keys : k.acct # a}
\* An account is disabled.
Disabled ==
    \E a \in Accounts : /\ acct[a].exists /\ ~LastAdmin(a)
                        /\ acct' = [acct EXCEPT ![a].disabled = TRUE]
                        /\ sessions' = sessions \ SessionsOf(a)
                        /\ Revoke({k \in keys : k.acct = a})
\* A session is written, by a registration perhaps with a key.
SessionAdded ==
    \E s \in SessionRows :
      /\ acct' = acct /\ sessions' = sessions \cup {s} /\ acct[s.acct].exists
      /\ s.since = acct[s.acct].pw /\ s.elevated = 0 /\ (Enabled(s.acct) \/ s.from = "register")
      /\ \/ keys' = keys
         \/ \E k \in KeyRows : k.acct = s.acct /\ k.from = "register" /\ keys' = keys \cup {k}
\* The sessions in own are elevated under the account's password.
SessionsElevated ==
    \E own \in SUBSET sessions, p \in Nat :
      /\ UNCHANGED <<acct, keys>> /\ \A s \in own : acct[s.acct].pw = p
      /\ sessions' = (sessions \ own) \cup {[s EXCEPT !.elevated = p] : s \in own}
SessionsGone == UNCHANGED <<acct, keys>> /\ sessions' \subseteq sessions
KeyAdded ==
    \E k \in KeyRows : Enabled(k.acct) /\ keys' = keys \cup {k} /\ UNCHANGED <<acct, sessions>>
KeysRevoked == \E these \in SUBSET keys : Revoke(these) /\ UNCHANGED <<acct, sessions>>

Effect == Created \/ PasswordSet \/ Changed \/ Deleted \/ Disabled \/ SessionAdded
            \/ SessionsElevated \/ SessionsGone \/ KeyAdded \/ KeysRevoked

\* A new row is one, of any kind.
LEMMA NewRows ==
  /\ \A b \in Accounts, admin \in BOOLEAN :
       LET rec == NewAccount(b, admin)
       IN  rec \in AccountRows /\ rec.exists /\ ~rec.disabled /\ rec.wallet = None /\ rec.pw = 1
  /\ \A w \in Wallets :
       LET rec == WalletAccount(w)
       IN  rec \in AccountRows /\ rec.exists /\ ~rec.disabled /\ rec.wallet = w /\ rec.pw = 0
  BY DEF NewAccount, WalletAccount, NoAccount, AccountRows

\* What the requests that take one transaction do, and the ones that arrive.
LEMMA ArrivalEffect ==
  ASSUME TypeOK, NEW r \in Requests, Arrives(r)
  PROVE  Effect
<1>1. CASE UNCHANGED <<acct, sessions, keys>>
  BY <1>1 DEF Effect, SessionsGone
<1>2. ASSUME NEW b \in Accounts, Register(r, b) PROVE Effect
  <2>1. Unused(b) /\ acct' = [acct EXCEPT ![b] = NewAccount(b, FALSE)] /\ UNCHANGED <<sessions, keys>>
    BY <1>2 DEF Register
  <2> QED
    BY <2>1, NewRows DEF Effect, Created
<1>3. ASSUME NEW w \in Wallets, ResolveX402Owner(r, w) PROVE Effect
  <2>1. CASE acct' = acct
    BY <1>1, <1>3, <2>1 DEF ResolveX402Owner
  <2>2. ASSUME NEW b \in Accounts, LinkedTo(w) = {}, Unused(b),
               acct' = [acct EXCEPT ![b] = WalletAccount(w)]
        PROVE  Effect
    BY <1>3, <2>2, NewRows DEF Effect, Created, ResolveX402Owner
  <2> QED
    BY <1>3, <2>1, <2>2 DEF ResolveX402Owner
<1> QED
  BY <1>1, <1>2, <1>3 DEF Arrives, ArriveBySession, ArriveByKey, ArriveWithProof, ArriveWithWallet

\* What the second step of a request does.
LEMMA CommitEffect ==
  ASSUME TypeOK, NEW r \in Requests, Commits(r)
  PROVE  Effect
<1> DEFINE a == req[r].acct
<1>0. /\ acct \in [Accounts -> AccountRows] /\ \A x \in Accounts : acct[x] \in AccountRows
      /\ req[r] \in RequestRows /\ req[r].id \in 0..MaxRequests /\ req[r].proof \in Nat
      /\ req[r].scopes \subseteq Scopes /\ req[r].kind \in Kinds \cup {None}
      /\ None \notin Kinds
      /\ req[r].kind \in AdminKinds => req[r].target \in Accounts
      /\ req[r].kind \notin {"wallet_login", None} => a \in Accounts
      /\ sessions \subseteq SessionRows /\ keys \subseteq KeyRows
  BY NoneIsNothing DEF TypeOK, RequestRows
<1>00. ASSUME NEW kind \in Kinds, Ends(r, kind) PROVE req[r].kind = kind
  BY <1>00 DEF Ends
<1> HIDE DEF a
<1>1. CASE UNCHANGED <<acct, sessions, keys>>
  BY <1>1 DEF Effect, SessionsGone
<1>2. CASE Refused
  BY <1>1, <1>2 DEF Refused
<1>3. ASSUME NEW x \in Accounts, Enabled(x), NEW from \in {"login", "register", "checkout", "wallet"}
      PROVE  LET s == Session(req[r].id, x, from)
             IN  s \in SessionRows /\ s.acct = x /\ s.since = acct[x].pw /\ s.elevated = 0
                 /\ s.from = from
  BY <1>0, <1>3 DEF Session, SessionRows, AccountRows
<1>4. CASE Login(r)
  <2>1. a \in Accounts
    BY <1>0, <1>4 DEF Login, Ends, Kinds, SessionKinds, AdminKinds
  <2>2. CASE Enabled(a) /\ acct[a].pw = req[r].proof
    <3> DEFINE s == [Session(req[r].id, a, "login") EXCEPT !.since = req[r].proof]
    <3>1. s \in SessionRows /\ s.acct = a /\ s.since = acct[a].pw /\ s.elevated = 0
      BY <1>0, <2>1, <2>2 DEF Session, SessionRows, AccountRows
    <3>2. sessions' = sessions \cup {s} /\ UNCHANGED <<acct, keys>>
      BY <1>4, <2>2 DEF Login, a, Refused
    <3> HIDE DEF s
    <3> QED
      BY <2>2, <3>1, <3>2 DEF Effect, SessionAdded, Enabled
  <2> QED
    BY <1>2, <1>4, <2>2 DEF Login, a
<1>5. ASSUME NEW x \in Accounts, NEW kept \in SUBSET sessions, NEW code \in Nat, Enabled(x),
             kept \subseteq SessionsOf(x), code >= acct[x].code, SetPassword(x, kept, code), keys' = keys
      PROVE  Effect
  BY <1>5 DEF Effect, PasswordSet
<1>6. CASE RecoverWithCode(r)
  <2>1. a \in Accounts
    BY <1>0, <1>6 DEF RecoverWithCode, Ends, Kinds, SessionKinds, AdminKinds
  <2>2. CASE Enabled(a) /\ SetPassword(a, {}, acct[a].code + 1) /\ keys' = keys
    <3>1. acct[a].code \in Nat
      BY <1>0, <2>1 DEF AccountRows
    <3>2. acct[a].code + 1 \in Nat /\ acct[a].code + 1 >= acct[a].code
      BY <3>1
    <3>3. {} \in SUBSET sessions /\ {} \subseteq SessionsOf(a)
      OBVIOUS
    <3> QED
      BY <1>5, <2>1, <2>2, <3>2, <3>3
  <2> QED
    BY <1>2, <1>6, <2>2 DEF RecoverWithCode, a
<1>7. CASE ChangePassword(r)
  <2>1. a \in Accounts
    BY <1>0, <1>7 DEF ChangePassword, Ends, Kinds, SessionKinds, AdminKinds
  <2> DEFINE kept == {s \in SessionsOf(a) : s.id = req[r].via}
  <2>2. CASE Enabled(a) /\ SetPassword(a, kept, acct[a].code) /\ keys' = keys
    <3>1. acct[a].code \in Nat /\ acct[a].code >= acct[a].code
      BY <1>0, <2>1 DEF AccountRows
    <3>2. kept \in SUBSET sessions /\ kept \subseteq SessionsOf(a)
      BY DEF SessionsOf
    <3> HIDE DEF kept
    <3> QED
      BY <1>5, <2>1, <2>2, <3>1, <3>2
  <2> QED
    BY <1>2, <1>7, <2>2 DEF ChangePassword, a
<1>8. CASE RotateRecoveryCode(r)
  <2>1. a \in Accounts
    BY <1>0, <1>8 DEF RotateRecoveryCode, Ends, Kinds, SessionKinds, AdminKinds
  <2>2. CASE Enabled(a) /\ acct' = [acct EXCEPT ![a].code = @ + 1] /\ UNCHANGED <<sessions, keys>>
    <3> DEFINE rec == [acct[a] EXCEPT !.code = @ + 1]
    <3>1. /\ rec \in AccountRows /\ rec.exists = acct[a].exists /\ rec.pw = acct[a].pw
          /\ rec.code >= acct[a].code /\ rec.wallet = acct[a].wallet /\ rec.admin = acct[a].admin
          /\ rec.disabled = acct[a].disabled
      BY <1>0, <2>1 DEF AccountRows
    <3>2. acct' = [acct EXCEPT ![a] = rec]
      BY <2>2
    <3> HIDE DEF rec
    <3> QED
      BY <1>0, <2>1, <2>2, <3>1, <3>2 DEF Effect, Changed, Enabled, EnabledAdmins
  <2> QED
    BY <1>2, <1>8, <2>2 DEF RotateRecoveryCode, a
<1>9. CASE StepUp(r)
  <2>1. a \in Accounts
    BY <1>0, <1>9 DEF StepUp, Ends, Kinds, SessionKinds, AdminKinds
  <2> DEFINE own == {s \in SessionsOf(a) : s.id = req[r].via}
  <2>2. CASE /\ acct[a].pw = req[r].proof /\ UNCHANGED <<acct, keys>>
             /\ sessions' = (sessions \ own) \cup {[s EXCEPT !.elevated = req[r].proof] : s \in own}
    <3>1. own \in SUBSET sessions /\ \A s \in own : s.acct = a
      BY DEF SessionsOf
    <3> HIDE DEF own
    <3> QED
      BY <1>0, <2>2, <3>1 DEF Effect, SessionsElevated
  <2> QED
    BY <1>2, <1>9, <2>2 DEF StepUp, a
<1>10. CASE CreateApiKey(r)
  <2>1. a \in Accounts
    BY <1>0, <1>10 DEF CreateApiKey, Ends, Kinds, SessionKinds, AdminKinds
  <2> DEFINE k == NewKey(req[r].id, a, req[r].scopes, "mint")
  <2>2. k \in KeyRows /\ k.acct = a
    BY <1>0, <2>1 DEF NewKey, KeyRows
  <2>3. CASE Enabled(a) /\ keys' = keys \cup {k} /\ UNCHANGED <<acct, sessions>>
    <3> HIDE DEF k
    <3> QED
      BY <2>2, <2>3 DEF Effect, KeyAdded
  <2> QED
    BY <1>2, <1>10, <2>3 DEF CreateApiKey, a
<1>11. CASE RevokeApiKey(r)
  <2> DEFINE these == {k \in keys : k.id = req[r].target /\ k.acct = req[r].acct}
  <2>1. these \in SUBSET keys /\ Revoke(these) /\ UNCHANGED <<acct, sessions>>
    BY <1>11 DEF RevokeApiKey
  <2> HIDE DEF these
  <2> QED
    BY <2>1 DEF Effect, KeysRevoked
<1>12. CASE EndRegister(r)
  <2>1. a \in Accounts
    BY <1>0, <1>12 DEF EndRegister, Ends, Kinds, SessionKinds, AdminKinds
  <2>2. CASE acct[a].exists
    <3> DEFINE s == Session(req[r].id, a, "register")
               k == NewKey(req[r].id, a, Scopes \ {WriteKeys}, "register")
    <3>1. s \in SessionRows /\ s.acct = a /\ s.since = acct[a].pw /\ s.elevated = 0 /\ s.from = "register"
      BY <1>0, <2>1 DEF Session, SessionRows, AccountRows
    <3>2. k \in KeyRows /\ k.acct = a /\ k.from = "register"
      BY <1>0, <2>1 DEF NewKey, KeyRows
    <3>3. /\ sessions' = sessions \cup {s} /\ acct' = acct
          /\ keys' = keys \/ keys' = keys \cup {k}
      BY <1>12, <2>2 DEF EndRegister, a
    <3> HIDE DEF s, k
    <3> QED
      BY <2>2, <3>1, <3>2, <3>3 DEF Effect, SessionAdded
  <2> QED
    BY <1>2, <1>12, <2>2 DEF EndRegister, a
<1>13. ASSUME NEW x \in Accounts, Enabled(x), NEW from \in {"login", "register", "checkout", "wallet"},
              sessions' = sessions \cup {Session(req[r].id, x, from)}, UNCHANGED <<acct, keys>>
       PROVE  Effect
  <2> DEFINE s == Session(req[r].id, x, from)
  <2>1. s \in SessionRows /\ s.acct = x /\ s.since = acct[x].pw /\ s.elevated = 0
    BY <1>3, <1>13
  <2>2. sessions' = sessions \cup {s}
    BY <1>13
  <2> HIDE DEF s
  <2> QED
    BY <1>13, <2>1, <2>2 DEF Effect, SessionAdded, Enabled
<1>14. CASE IssueSession(r)
  <2>1. a \in Accounts
    BY <1>0, <1>14 DEF IssueSession, Ends, Kinds, SessionKinds, AdminKinds
  <2>2. CASE Enabled(a) /\ sessions' = sessions \cup {Session(req[r].id, a, "checkout")}
             /\ UNCHANGED <<acct, keys>>
    BY <1>13, <2>1, <2>2
  <2> QED
    BY <1>2, <1>14, <2>2 DEF IssueSession, a
<1>15. CASE WalletLogin(r)
  <2>1. CASE /\ req[r].acct # None /\ Enabled(req[r].acct)
             /\ sessions' = sessions \cup {Session(req[r].id, req[r].acct, "wallet")}
             /\ UNCHANGED <<acct, keys>>
    <3>1. req[r].acct \in Accounts
      BY <1>0, <2>1 DEF RequestRows
    <3> QED
      BY <1>13, <2>1, <3>1
  <2>2. ASSUME NEW c \in challenge, LinkedTo(c.wallet) = {}, NEW b \in Accounts, Unused(b),
               acct' = [acct EXCEPT ![b] = WalletAccount(c.wallet)],
               sessions' = sessions \cup {[id |-> req[r].id, acct |-> b, since |-> 0,
                                           elevated |-> 0, set |-> 0, from |-> "wallet"]},
               keys' = keys
        PROVE  Effect
    <3>1. c.wallet \in Wallets
      BY DEF TypeOK, ChallengeRows
    <3> DEFINE s == [id |-> req[r].id, acct |-> b, since |-> 0, elevated |-> 0, set |-> 0,
                  from |-> "wallet"]
    <3>2. s \in SessionRows /\ s.acct = b /\ s.since = 0 /\ s.elevated = 0
      BY <1>0 DEF SessionRows
    <3>3. sessions' = sessions \cup {s}
      BY <2>2
    <3>4. LET rec == WalletAccount(c.wallet)
          IN  rec \in AccountRows /\ rec.exists /\ ~rec.disabled /\ rec.wallet = c.wallet /\ rec.pw = 0
      BY <3>1, NewRows
    <3> HIDE DEF s
    <3>5. Created
      BY <2>2, <3>2, <3>3, <3>4 DEF Created
    <3> QED
      BY <3>5 DEF Effect
  <2> QED
    BY <1>2, <1>15, <2>1, <2>2 DEF WalletLogin
<1>16. CASE LinkOrRotate(r)
  <2>1. a \in Accounts
    BY <1>0, <1>16 DEF LinkOrRotate, Ends, Kinds, SessionKinds, AdminKinds
  <2>2. ASSUME NEW c \in challenge, Enabled(a), LinkedTo(c.wallet) \subseteq {a},
               acct' = [acct EXCEPT ![a].wallet = c.wallet], UNCHANGED <<sessions, keys>>
        PROVE  Effect
    <3> DEFINE rec == [acct[a] EXCEPT !.wallet = c.wallet]
    <3>0. c.wallet \in Wallets
      BY DEF TypeOK, ChallengeRows
    <3>1. /\ rec \in AccountRows /\ rec.exists = acct[a].exists /\ rec.pw = acct[a].pw
          /\ rec.code >= acct[a].code /\ rec.wallet = c.wallet /\ rec.admin = acct[a].admin
          /\ rec.disabled = acct[a].disabled
      BY <1>0, <2>1, <3>0 DEF AccountRows
    <3>2. acct' = [acct EXCEPT ![a] = rec]
      BY <2>2
    <3> HIDE DEF rec
    <3> QED
      BY <1>0, <2>1, <2>2, <3>0, <3>1, <3>2 DEF Effect, Changed, Enabled, EnabledAdmins
  <2> QED
    BY <1>2, <1>16, <2>2 DEF LinkOrRotate, a
<1>17. CASE ConsumeTransferChallenge(r)
  BY <1>1, <1>17 DEF ConsumeTransferChallenge, Refused
<1>18. CASE DeleteAccount(r)
  <2>1. a \in Accounts
    BY <1>0, <1>18 DEF DeleteAccount, Ends, Kinds, SessionKinds, AdminKinds
  <2>2. CASE /\ Enabled(a) /\ ~acct[a].admin /\ acct' = [acct EXCEPT ![a] = DeletedAccount]
             /\ sessions' = sessions \ SessionsOf(a) /\ keys' = {k \in keys : k.acct # a}
    BY <2>1, <2>2 DEF Effect, Deleted, Enabled
  <2> QED
    BY <1>2, <1>18, <2>2 DEF DeleteAccount, a
<1> DEFINE t == req[r].target
<1>19. CASE AdminDisable(r)
  <2>1. t \in Accounts
    BY <1>0, <1>19 DEF AdminDisable, Ends, AdminKinds
  <2>2. CASE /\ MayAct(r) /\ ~LastAdmin(t) /\ acct' = [acct EXCEPT ![t].disabled = TRUE]
             /\ sessions' = sessions \ SessionsOf(t) /\ Revoke({k \in keys : k.acct = t})
    <3>1. acct[t].exists
      BY <2>2 DEF MayAct
    <3> HIDE DEF t
    <3> QED
      BY <2>1, <2>2, <3>1 DEF Effect, Disabled
  <2> QED
    BY <1>2, <1>19, <2>2 DEF AdminDisable
<1>20. ASSUME NEW rec \in AccountRows, t \in Accounts, acct[t].exists, rec.exists,
              rec.pw = acct[t].pw, rec.code = acct[t].code, rec.wallet = acct[t].wallet,
              rec.disabled => acct[t].disabled, t \in EnabledAdmins => (rec.admin \/ ~LastAdmin(t)),
              acct' = [acct EXCEPT ![t] = rec], UNCHANGED <<sessions, keys>>
       PROVE  Effect
  <2>1. rec.code >= acct[t].code
    BY <1>20 DEF AccountRows
  <2> HIDE DEF t
  <2> QED
    BY <1>20, <2>1 DEF Effect, Changed
<1>21. CASE AdminEnable(r)
  <2>1. t \in Accounts
    BY <1>0, <1>21 DEF AdminEnable, Ends, AdminKinds
  <2>2. CASE /\ MayAct(r) /\ acct' = [acct EXCEPT ![t].disabled = FALSE] /\ UNCHANGED <<sessions, keys>>
    <3> DEFINE rec == [acct[t] EXCEPT !.disabled = FALSE]
    <3>1. /\ rec \in AccountRows /\ rec.exists = acct[t].exists /\ rec.pw = acct[t].pw
          /\ rec.code = acct[t].code /\ rec.wallet = acct[t].wallet /\ rec.admin = acct[t].admin
          /\ ~rec.disabled
      BY <1>0, <2>1 DEF AccountRows
    <3>2. acct' = [acct EXCEPT ![t] = rec] /\ acct[t].exists
      BY <2>2 DEF MayAct
    <3>3. t \in EnabledAdmins => rec.admin
      BY <3>1 DEF EnabledAdmins
    <3> HIDE DEF rec, t
    <3> QED
      BY <1>20, <2>1, <2>2, <3>1, <3>2, <3>3
  <2> QED
    BY <1>2, <1>21, <2>2 DEF AdminEnable
<1>22. CASE SetAccountRole(r)
  <2>1. t \in Accounts
    BY <1>0, <1>22 DEF SetAccountRole, Ends, AdminKinds
  <2>2. ASSUME NEW up \in BOOLEAN, up \/ ~LastAdmin(t), MayAct(r),
               acct' = [acct EXCEPT ![t].admin = up], UNCHANGED <<sessions, keys>>
        PROVE  Effect
    <3> DEFINE rec == [acct[t] EXCEPT !.admin = up]
    <3>1. /\ rec \in AccountRows /\ rec.exists = acct[t].exists /\ rec.pw = acct[t].pw
          /\ rec.code = acct[t].code /\ rec.wallet = acct[t].wallet /\ rec.admin = up
          /\ rec.disabled = acct[t].disabled
      BY <1>0, <2>1 DEF AccountRows
    <3>2. acct' = [acct EXCEPT ![t] = rec] /\ acct[t].exists
      BY <2>2 DEF MayAct
    <3> HIDE DEF rec, t
    <3> QED
      BY <1>20, <2>1, <2>2, <3>1, <3>2
  <2>3. CASE Refused
    BY <1>2, <2>3
  <2>4. CASE /\ MayAct(r) /\ (req[r].kind = "demote" => ~LastAdmin(t))
             /\ acct' = [acct EXCEPT ![t].admin = (req[r].kind = "promote")]
             /\ UNCHANGED <<sessions, keys>>
    <3>1. req[r].kind = "promote" \/ req[r].kind = "demote"
      BY <1>22 DEF SetAccountRole
    <3>2. CASE req[r].kind = "promote"
      <4>1. (req[r].kind = "promote") = TRUE
        BY <3>2
      <4>2. acct' = [acct EXCEPT ![t].admin = TRUE]
        BY <2>4, <4>1
      <4> QED
        BY <2>2, <2>4, <4>2
    <3>3. CASE req[r].kind = "demote"
      <4>1. (req[r].kind = "promote") = FALSE
        BY <3>3
      <4>2. acct' = [acct EXCEPT ![t].admin = FALSE]
        BY <2>4, <4>1
      <4> QED
        BY <2>2, <2>4, <3>3, <4>2
    <3> QED
      BY <3>1, <3>2, <3>3
  <2> QED
    BY <1>22, <2>3, <2>4 DEF SetAccountRole
<1>23. CASE AdminRevokes(r)
  <2>1. CASE Revoke({k \in keys : k.acct = t}) /\ UNCHANGED <<acct, sessions>>
    <3> DEFINE these == {k \in keys : k.acct = t}
    <3>1. these \in SUBSET keys /\ Revoke(these)
      BY <2>1
    <3> HIDE DEF these
    <3> QED
      BY <2>1, <3>1 DEF Effect, KeysRevoked
  <2>2. CASE sessions' = sessions \ SessionsOf(t) /\ UNCHANGED <<acct, keys>>
    BY <2>2 DEF Effect, SessionsGone
  <2> QED
    BY <1>2, <1>23, <2>1, <2>2 DEF AdminRevokes
<1>24. QED
  BY <1>4, <1>6, <1>7, <1>8, <1>9, <1>10, <1>11, <1>12, <1>14, <1>15, <1>16, <1>17, <1>18, <1>19,
     <1>21, <1>22, <1>23 DEF Commits

\* Every step does one of these things.
LEMMA StepEffect == TypeOK /\ [Next]_vars => Effect
<1> SUFFICES ASSUME TypeOK, [Next]_vars PROVE Effect
  OBVIOUS
<1>0. acct \in [Accounts -> AccountRows] /\ \A x \in Accounts : acct[x] \in AccountRows
  BY DEF TypeOK
<1>1. CASE UNCHANGED <<acct, sessions, keys>>
  BY <1>1 DEF Effect, SessionsGone
<1>2. ASSUME NEW s \in sessions, Logout(s) PROVE Effect
  BY <1>2 DEF Logout, Effect, SessionsGone
<1>3. ASSUME NEW s \in sessions, NEW w \in Wallets, LinkPayer(s, w) PROVE Effect
  <2> DEFINE a == s.acct
             rec == [acct[a] EXCEPT !.wallet = w]
  <2>1. a \in Accounts /\ Enabled(a) /\ LinkedTo(w) = {} /\ UNCHANGED <<sessions, keys>>
    BY <1>3 DEF LinkPayer, TypeOK, SessionRows
  <2>2. /\ rec \in AccountRows /\ rec.exists = acct[a].exists /\ rec.pw = acct[a].pw
        /\ rec.code >= acct[a].code /\ rec.wallet = w /\ rec.admin = acct[a].admin
        /\ rec.disabled = acct[a].disabled
    BY <1>0, <2>1 DEF AccountRows
  <2>3. acct' = [acct EXCEPT ![a] = rec]
    BY <1>3 DEF LinkPayer
  <2> HIDE DEF a, rec
  <2> QED
    BY <1>0, <2>1, <2>2, <2>3 DEF Effect, Changed, Enabled, EnabledAdmins
<1>4. ASSUME NEW c \in challenge, RecoverWithWallet(c) PROVE Effect
  <2>1. c.acct \in Accounts /\ Enabled(c.acct) /\ keys' = keys
        /\ SetPassword(c.acct, {}, acct[c.acct].code)
    BY <1>4 DEF RecoverWithWallet, TypeOK, ChallengeRows
  <2>2. acct[c.acct].code \in Nat /\ acct[c.acct].code >= acct[c.acct].code
    BY <1>0, <2>1 DEF AccountRows
  <2>3. {} \in SUBSET sessions /\ {} \subseteq SessionsOf(c.acct)
    OBVIOUS
  <2>4. PasswordSet
    BY <2>1, <2>2, <2>3 DEF PasswordSet
  <2> QED
    BY <2>4 DEF Effect
<1>5. ASSUME NEW b \in Accounts, CreateAdmin(b) PROVE Effect
  <2>1. Unused(b) /\ acct' = [acct EXCEPT ![b] = NewAccount(b, TRUE)] /\ UNCHANGED <<sessions, keys>>
    BY <1>5 DEF CreateAdmin
  <2> QED
    BY <2>1, NewRows DEF Effect, Created
<1> QED
  BY <1>1, <1>2, <1>3, <1>4, <1>5, ArrivalEffect, CommitEffect
     DEF Next, CreateLoginChallenge, RecoverWalletChallenge, CreateChallenge, Issue

----------------------------------------------------------------------------
(* The tables.                                                             *)

\* The row of an account that gets a new password.
LEMMA PasswordRow ==
  ASSUME NEW x \in AccountRows, NEW code \in Nat
  PROVE  LET rec == [x EXCEPT !.pw = @ + 1, !.code = code]
         IN  /\ rec \in AccountRows /\ rec.pw = x.pw + 1 /\ rec.pw \in Nat /\ rec.code = code
             /\ rec.exists = x.exists /\ rec.disabled = x.disabled /\ rec.admin = x.admin
             /\ rec.wallet = x.wallet
<1>1. x.pw \in Nat /\ x.pw + 1 \in Nat
  BY DEF AccountRows
<1> DEFINE p == x.pw + 1
           rec == [x EXCEPT !.pw = p, !.code = code]
<1> HIDE DEF p
<1>2. /\ rec \in AccountRows /\ rec.pw = p /\ rec.code = code
      /\ rec.exists = x.exists /\ rec.disabled = x.disabled /\ rec.admin = x.admin
      /\ rec.wallet = x.wallet
  BY <1>1 DEF AccountRows, p
<1> QED
  BY <1>1, <1>2 DEF p

\* Accounts are well-formed; an account that is not there never was or has been deleted.
LEMMA AccountsStep ==
  ASSUME TypeOK, Effect
  PROVE  /\ acct' \in [Accounts -> AccountRows]
         /\ \A a \in Accounts : acct'[a].exists \/ acct'[a] \in {NoAccount, DeletedAccount}
<1> DEFINE Goal ==
         /\ acct' \in [Accounts -> AccountRows]
         /\ \A a \in Accounts : acct'[a].exists \/ acct'[a] \in {NoAccount, DeletedAccount}
<1>0. /\ acct \in [Accounts -> AccountRows]
      /\ \A a \in Accounts : acct[a].exists \/ acct[a] \in {NoAccount, DeletedAccount}
  BY DEF TypeOK
<1>1. ASSUME NEW a \in Accounts, NEW rec \in AccountRows, rec.exists \/ rec = DeletedAccount,
             acct' = [acct EXCEPT ![a] = rec]
      PROVE  Goal
  BY <1>0, <1>1
<1>2. CASE Created \/ Changed
  BY <1>1, <1>2 DEF Created, Changed
<1>3. CASE PasswordSet
  <2>1. PICK a \in Accounts, code \in Nat :
          /\ acct[a].exists
          /\ acct' = [acct EXCEPT ![a].pw = @ + 1, ![a].code = code]
    BY <1>3 DEF PasswordSet, SetPassword, Enabled
  <2> DEFINE rec == [acct[a] EXCEPT !.pw = @ + 1, !.code = code]
  <2>2. rec \in AccountRows /\ rec.exists
    <3>1. acct[a] \in AccountRows
      BY <1>0
    <3>2. rec \in AccountRows /\ rec.exists = acct[a].exists
      BY <3>1, PasswordRow
    <3> QED
      BY <2>1, <3>2
  <2>3. acct' = [acct EXCEPT ![a] = rec]
    BY <1>0, <2>1
  <2> HIDE DEF rec
  <2> QED
    BY <1>1, <2>2, <2>3
<1>4. CASE Deleted
  <2>1. DeletedAccount \in AccountRows
    BY DEF DeletedAccount, NoAccount, AccountRows
  <2> QED
    BY <1>1, <1>4, <2>1 DEF Deleted
<1>5. CASE Disabled
  <2>1. PICK a \in Accounts : acct[a].exists /\ acct' = [acct EXCEPT ![a].disabled = TRUE]
    BY <1>5 DEF Disabled
  <2> DEFINE rec == [acct[a] EXCEPT !.disabled = TRUE]
  <2>2. rec \in AccountRows /\ rec.exists
    BY <1>0, <2>1 DEF AccountRows
  <2>3. acct' = [acct EXCEPT ![a] = rec]
    BY <2>1
  <2> HIDE DEF rec
  <2> QED
    BY <1>1, <2>2, <2>3
<1>6. CASE acct' = acct
  BY <1>0, <1>6
<1> QED
  BY <1>2, <1>3, <1>4, <1>5, <1>6
     DEF Effect, SessionAdded, SessionsElevated, SessionsGone, KeyAdded, KeysRevoked

\* What the invariant says of a session and of a key, for the account's row.
SessionGood(s, rec) ==
    /\ s \in SessionRows /\ rec.exists
    /\ \/ s.since = rec.pw /\ s.elevated \in {0, rec.pw}
       \/ s.set = rec.pw /\ rec.pw # 0
    /\ rec.disabled => s.from = "register"
KeyGood(k, rec) ==
    /\ k \in KeyRows /\ rec.exists
    /\ rec.disabled /\ ~k.revoked => k.from = "register"

CredentialsGood ==
    /\ \A s \in sessions : SessionGood(s, acct[s.acct])
    /\ \A k \in keys : KeyGood(k, acct[k.acct])

\* The parts of the invariant about sessions and keys, taken together.
LEMMA Credentials ==
  TypeOK => (CredentialsGood <=> SessionsFollowPassword /\ DisabledLockedOut)
<1> SUFFICES ASSUME TypeOK PROVE CredentialsGood <=> SessionsFollowPassword /\ DisabledLockedOut
  OBVIOUS
<1>0. /\ \A s \in sessions : s \in SessionRows /\ s.acct \in Accounts /\ acct[s.acct].exists
      /\ \A k \in keys : k \in KeyRows /\ k.acct \in Accounts /\ acct[k.acct].exists
  BY DEF TypeOK, SessionRows, KeyRows
<1>1. ASSUME CredentialsGood PROVE SessionsFollowPassword
  BY <1>1 DEF CredentialsGood, SessionGood, SessionsFollowPassword
<1>2. ASSUME CredentialsGood PROVE DisabledLockedOut
  BY <1>2 DEF CredentialsGood, SessionGood, KeyGood, DisabledLockedOut, SessionsOf
<1>3. ASSUME SessionsFollowPassword, DisabledLockedOut PROVE CredentialsGood
  <2>1. \A s \in sessions : SessionGood(s, acct[s.acct])
    BY <1>0, <1>3 DEF SessionGood, SessionsFollowPassword, DisabledLockedOut, SessionsOf
  <2>2. \A k \in keys : KeyGood(k, acct[k.acct])
    BY <1>0, <1>3 DEF KeyGood, DisabledLockedOut
  <2> QED
    BY <2>1, <2>2 DEF CredentialsGood
<1> QED
  BY <1>1, <1>2, <1>3

\* No session and no key outlives what it was issued under.
LEMMA CredentialsStep == TypeOK /\ CredentialsGood /\ Effect => CredentialsGood'
<1> SUFFICES ASSUME TypeOK, CredentialsGood, Effect PROVE CredentialsGood'
  OBVIOUS
<1>0. /\ acct \in [Accounts -> AccountRows] /\ \A a \in Accounts : acct[a] \in AccountRows
      /\ \A s \in sessions : s \in SessionRows /\ s.acct \in Accounts
      /\ \A k \in keys : k \in KeyRows /\ k.acct \in Accounts
  BY DEF TypeOK, SessionRows, KeyRows
<1> USE DEF CredentialsGood
<1>1. CASE Created
  <2>1. PICK b \in Accounts, rec \in AccountRows :
          /\ acct[b] = NoAccount /\ acct' = [acct EXCEPT ![b] = rec] /\ keys' = keys
          /\ rec.exists /\ ~rec.disabled
          /\ \/ sessions' = sessions
             \/ \E s \in SessionRows : /\ s.acct = b /\ s.since = rec.pw /\ s.elevated = 0
                                       /\ sessions' = sessions \cup {s}
    BY <1>1 DEF Created, Unused
  <2>2. ~acct[b].exists
    BY <2>1 DEF NoAccount
  <2>3. \A s \in sessions : s.acct # b
    BY <2>2 DEF SessionGood
  <2>4. \A k \in keys : k.acct # b
    BY <2>2 DEF KeyGood
  <2>5. \A k \in keys' : KeyGood(k, acct'[k.acct])
    BY <1>0, <2>1, <2>4
  <2>6. \A s \in sessions : SessionGood(s, acct'[s.acct])
    BY <1>0, <2>1, <2>3
  <2>7. \A s \in SessionRows : s.acct = b /\ s.since = rec.pw /\ s.elevated = 0 => SessionGood(s, acct'[s.acct])
    BY <1>0, <2>1 DEF SessionGood
  <2> QED
    BY <2>1, <2>5, <2>6, <2>7
<1>2. CASE PasswordSet
  <2>1. PICK a \in Accounts, kept \in SUBSET sessions, code \in Nat :
          /\ Enabled(a) /\ kept \subseteq SessionsOf(a)
          /\ SetPassword(a, kept, code) /\ keys' = keys
    BY <1>2 DEF PasswordSet
  <2> DEFINE new(s) == [s EXCEPT !.set = acct[a].pw + 1]
  <2>2. /\ acct' = [acct EXCEPT ![a].pw = @ + 1, ![a].code = code]
        /\ sessions' = (sessions \ SessionsOf(a)) \cup {new(s) : s \in kept}
    BY <2>1 DEF SetPassword
  <2>3. /\ acct'[a].pw = acct[a].pw + 1 /\ acct'[a].exists /\ ~acct'[a].disabled
        /\ \A x \in Accounts : x # a => acct'[x] = acct[x]
        /\ acct[a].pw + 1 \in Nat \ {0}
    <3> DEFINE rec == [acct[a] EXCEPT !.pw = @ + 1, !.code = code]
    <3>1. acct' = [acct EXCEPT ![a] = rec]
      BY <2>2
    <3>2. /\ rec.pw = acct[a].pw + 1 /\ rec.pw \in Nat
          /\ rec.exists = acct[a].exists /\ rec.disabled = acct[a].disabled
      BY <1>0, PasswordRow
    <3>3. acct[a].pw + 1 \in Nat \ {0}
      BY <1>0 DEF AccountRows
    <3> HIDE DEF rec
    <3> QED
      BY <1>0, <2>1, <3>1, <3>2, <3>3 DEF Enabled
  <2>4. \A k \in keys' : KeyGood(k, acct'[k.acct])
    BY <1>0, <2>1, <2>3 DEF KeyGood
  <2>5. \A s \in sessions \ SessionsOf(a) : SessionGood(s, acct'[s.acct])
    BY <1>0, <2>3 DEF SessionsOf
  <2>6. ASSUME NEW s \in kept PROVE SessionGood(new(s), acct'[new(s).acct])
    <3>1. s \in SessionRows /\ s.acct = a
      BY <1>0, <2>1 DEF SessionsOf
    <3>2. new(s) \in SessionRows /\ new(s).acct = a /\ new(s).set = acct[a].pw + 1
      BY <2>3, <3>1 DEF SessionRows
    <3> HIDE DEF new
    <3> QED
      BY <2>3, <3>2 DEF SessionGood
  <2> HIDE DEF new
  <2> QED
    BY <2>2, <2>4, <2>5, <2>6
<1>3. CASE Changed
  <2>1. PICK a \in Accounts, rec \in AccountRows :
          /\ acct' = [acct EXCEPT ![a] = rec] /\ UNCHANGED <<sessions, keys>>
          /\ rec.exists /\ rec.pw = acct[a].pw /\ (rec.disabled => acct[a].disabled)
    BY <1>3 DEF Changed
  <2>2. \A s \in sessions' : SessionGood(s, acct'[s.acct])
    BY <1>0, <2>1 DEF SessionGood
  <2>3. \A k \in keys' : KeyGood(k, acct'[k.acct])
    BY <1>0, <2>1 DEF KeyGood
  <2> QED
    BY <2>2, <2>3
<1>4. CASE Deleted
  <2>1. PICK a \in Accounts : /\ acct' = [acct EXCEPT ![a] = DeletedAccount]
                              /\ sessions' = sessions \ SessionsOf(a)
                              /\ keys' = {k \in keys : k.acct # a}
    BY <1>4 DEF Deleted
  <2> QED
    BY <1>0, <2>1 DEF SessionsOf
<1>5. ASSUME NEW these \in SUBSET keys, Revoke(these), NEW k \in keys'
      PROVE  \E j \in keys : /\ KeyGood(j, acct[j.acct]) => KeyGood(k, acct[j.acct])
                             /\ k.acct = j.acct /\ k \in KeyRows /\ (j \in these => k.revoked)
  <2>1. CASE k \in keys \ these
    BY <1>0, <2>1
  <2>2. ASSUME NEW j \in these, k = [j EXCEPT !.revoked = TRUE]
        PROVE  \E i \in keys : /\ KeyGood(i, acct[i.acct]) => KeyGood(k, acct[i.acct])
                               /\ k.acct = i.acct /\ k \in KeyRows /\ (i \in these => k.revoked)
    <3>1. k \in KeyRows /\ k.acct = j.acct /\ k.revoked /\ k.from = j.from
      BY <1>0, <2>2 DEF KeyRows
    <3> QED
      BY <3>1 DEF KeyGood
  <2> QED
    BY <1>5, <2>1, <2>2 DEF Revoke
<1>6. CASE Disabled
  <2>1. PICK a \in Accounts : /\ acct[a].exists /\ acct' = [acct EXCEPT ![a].disabled = TRUE]
                              /\ sessions' = sessions \ SessionsOf(a)
                              /\ Revoke({k \in keys : k.acct = a})
    BY <1>6 DEF Disabled
  <2>2. acct'[a].exists /\ \A x \in Accounts : x # a => acct'[x] = acct[x]
    BY <1>0, <2>1 DEF AccountRows
  <2>3. \A s \in sessions' : SessionGood(s, acct'[s.acct])
    BY <1>0, <2>1, <2>2 DEF SessionsOf
  <2>4. ASSUME NEW k \in keys' PROVE KeyGood(k, acct'[k.acct])
    <3> DEFINE these == {j \in keys : j.acct = a}
    <3>1. PICK j \in keys : /\ KeyGood(j, acct[j.acct]) => KeyGood(k, acct[j.acct])
                            /\ k.acct = j.acct /\ k \in KeyRows /\ (j \in these => k.revoked)
      BY <1>5, <2>1
    <3>2. CASE j.acct = a
      BY <2>2, <3>1, <3>2 DEF KeyGood
    <3>3. CASE j.acct # a
      BY <1>0, <2>2, <3>1, <3>3
    <3> QED
      BY <3>2, <3>3
  <2> QED
    BY <2>3, <2>4
<1>7. CASE SessionAdded
  <2>1. PICK s \in SessionRows :
          /\ acct' = acct /\ sessions' = sessions \cup {s} /\ acct[s.acct].exists
          /\ s.since = acct[s.acct].pw /\ s.elevated = 0 /\ (Enabled(s.acct) \/ s.from = "register")
          /\ \/ keys' = keys
             \/ \E k \in KeyRows : k.acct = s.acct /\ k.from = "register" /\ keys' = keys \cup {k}
    BY <1>7 DEF SessionAdded
  <2>2. SessionGood(s, acct'[s.acct])
    BY <2>1 DEF SessionGood, Enabled
  <2>3. \A k \in KeyRows : k.acct = s.acct /\ k.from = "register" => KeyGood(k, acct'[k.acct])
    BY <2>1 DEF KeyGood
  <2> QED
    BY <2>1, <2>2, <2>3
<1>8. CASE SessionsElevated
  <2>1. PICK own \in SUBSET sessions, p \in Nat :
          /\ UNCHANGED <<acct, keys>> /\ \A s \in own : acct[s.acct].pw = p
          /\ sessions' = (sessions \ own) \cup {[s EXCEPT !.elevated = p] : s \in own}
    BY <1>8 DEF SessionsElevated
  <2>2. ASSUME NEW s \in own PROVE LET n == [s EXCEPT !.elevated = p] IN SessionGood(n, acct'[n.acct])
    <3>1. s \in SessionRows /\ SessionGood(s, acct[s.acct]) /\ acct[s.acct].pw = p
      BY <1>0, <2>1
    <3> DEFINE n == [s EXCEPT !.elevated = p]
    <3>2. n \in SessionRows /\ n.acct = s.acct /\ n.since = s.since /\ n.elevated = p /\ n.from = s.from
          /\ n.set = s.set
      BY <3>1 DEF SessionRows
    <3> HIDE DEF n
    <3>3. SessionGood(n, acct'[n.acct])
      BY <2>1, <3>1, <3>2 DEF SessionGood
    <3> QED
      BY <3>3 DEF n
  <2> QED
    BY <2>1, <2>2
<1>9. CASE SessionsGone
  BY <1>9 DEF SessionsGone
<1>10. CASE KeyAdded
  BY <1>10 DEF KeyAdded, KeyGood, Enabled
<1>11. CASE KeysRevoked
  <2>1. PICK these \in SUBSET keys : Revoke(these) /\ UNCHANGED <<acct, sessions>>
    BY <1>11 DEF KeysRevoked
  <2>2. \A k \in keys' : KeyGood(k, acct'[k.acct])
    BY <1>5, <2>1
  <2> QED
    BY <2>1, <2>2
<1> QED
  BY <1>1, <1>2, <1>3, <1>4, <1>6, <1>7, <1>8, <1>9, <1>10, <1>11 DEF Effect

\* A wallet is linked to one account at most.
WalletsUnique == \A w \in Wallets : \A a, b \in LinkedTo(w) : a = b
LEMMA WalletsStep == TypeOK /\ Effect => WalletsUnique'
<1> SUFFICES ASSUME TypeOK, Effect PROVE WalletsUnique'
  OBVIOUS
<1>0. /\ acct \in [Accounts -> AccountRows]
      /\ \A x, y \in Accounts, w \in Wallets :
           acct[x].exists /\ acct[y].exists /\ acct[x].wallet = w /\ acct[y].wallet = w => x = y
  BY DEF TypeOK, LinkedTo
<1>1. ASSUME NEW a \in Accounts, NEW rec, acct' = [acct EXCEPT ![a] = rec],
             rec.exists /\ rec.wallet \in Wallets =>
                 \A x \in Accounts : x # a /\ acct[x].exists => acct[x].wallet # rec.wallet
      PROVE  WalletsUnique'
  BY <1>0, <1>1 DEF WalletsUnique, LinkedTo
<1>2. CASE Created
  <2>1. PICK b \in Accounts, rec \in AccountRows :
          /\ acct' = [acct EXCEPT ![b] = rec]
          /\ rec.wallet # None => LinkedTo(rec.wallet) = {}
    BY <1>2 DEF Created
  <2>2. rec.wallet \in Wallets => rec.wallet # None
    BY NoneIsNothing
  <2> QED
    BY <1>1, <2>1, <2>2 DEF LinkedTo
<1>3. CASE PasswordSet
  <2>1. PICK a \in Accounts, code \in Nat :
          acct' = [acct EXCEPT ![a].pw = @ + 1, ![a].code = code] /\ acct[a].exists
    BY <1>3 DEF PasswordSet, SetPassword, Enabled
  <2> DEFINE rec == [acct[a] EXCEPT !.pw = @ + 1, !.code = code]
  <2>2. acct' = [acct EXCEPT ![a] = rec]
    BY <2>1
  <2>3. acct[a] \in AccountRows
    BY <1>0
  <2>4. rec.wallet = acct[a].wallet
    BY <2>3, PasswordRow
  <2> HIDE DEF rec
  <2> QED
    BY <1>0, <1>1, <2>1, <2>2, <2>4
<1>4. CASE Changed
  <2>1. PICK a \in Accounts, rec \in AccountRows :
          /\ acct' = [acct EXCEPT ![a] = rec] /\ acct[a].exists
          /\ rec.wallet # acct[a].wallet => rec.wallet \in Wallets /\ LinkedTo(rec.wallet) \subseteq {a}
    BY <1>4 DEF Changed
  <2>2. \A x \in Accounts : x # a /\ acct[x].exists /\ rec.wallet \in Wallets => acct[x].wallet # rec.wallet
    BY <1>0, <2>1 DEF LinkedTo
  <2> QED
    BY <1>1, <2>1, <2>2
<1>5. CASE Deleted
  <2>1. PICK a \in Accounts : acct' = [acct EXCEPT ![a] = DeletedAccount]
    BY <1>5 DEF Deleted
  <2>2. ~DeletedAccount.exists
    BY DEF DeletedAccount, NoAccount
  <2> QED
    BY <1>1, <2>1, <2>2
<1>6. CASE Disabled
  <2>1. PICK a \in Accounts : acct[a].exists /\ acct' = [acct EXCEPT ![a].disabled = TRUE]
    BY <1>6 DEF Disabled
  <2> DEFINE rec == [acct[a] EXCEPT !.disabled = TRUE]
  <2>2. rec.wallet = acct[a].wallet
    BY <1>0 DEF AccountRows
  <2>3. acct' = [acct EXCEPT ![a] = rec]
    BY <2>1
  <2> HIDE DEF rec
  <2> QED
    BY <1>0, <1>1, <2>1, <2>2, <2>3
<1>7. CASE acct' = acct
  BY <1>0, <1>7 DEF WalletsUnique, LinkedTo
<1> QED
  BY <1>2, <1>3, <1>4, <1>5, <1>6, <1>7
     DEF Effect, SessionAdded, SessionsElevated, SessionsGone, KeyAdded, KeysRevoked

\* Some administrator is left: the last one is neither disabled, demoted nor deleted.
LEMMA AdminStep == TypeOK /\ AdminRemains /\ Effect => AdminRemains'
<1> SUFFICES ASSUME TypeOK, AdminRemains, Effect PROVE AdminRemains'
  OBVIOUS
<1>0. acct \in [Accounts -> AccountRows]
  BY DEF TypeOK
<1>1. PICK x \in EnabledAdmins : TRUE
  BY DEF AdminRemains
<1>2. x \in Accounts /\ acct[x].exists /\ ~acct[x].disabled /\ acct[x].admin
  BY <1>1 DEF EnabledAdmins, Enabled
<1>3. ASSUME NEW y \in Accounts, acct'[y].exists, ~acct'[y].disabled, acct'[y].admin
      PROVE  AdminRemains'
  BY <1>3 DEF AdminRemains, EnabledAdmins, Enabled
<1>4. ASSUME NEW a \in EnabledAdmins, ~LastAdmin(a)
      PROVE  \E y \in EnabledAdmins : y # a
  <2>1. ~(Cardinality(EnabledAdmins) <= 1)
    BY <1>4 DEF LastAdmin
  <2>2. EnabledAdmins # {a}
    <3>1. Cardinality({a}) = 1
      BY FS_Singleton
    <3> QED
      BY <2>1, <3>1
  <2> QED
    BY <2>2
<1>5. ASSUME NEW a \in Accounts, ~LastAdmin(a), \A y \in Accounts : y # a => acct'[y] = acct[y]
      PROVE  AdminRemains'
  <2>1. PICK y \in EnabledAdmins : y # a
    BY <1>1, <1>4, <1>5
  <2> QED
    BY <1>3, <1>5, <2>1 DEF EnabledAdmins, Enabled
<1>6. CASE Created
  <2>1. PICK b \in Accounts, rec \in AccountRows : acct[b] = NoAccount /\ acct' = [acct EXCEPT ![b] = rec]
    BY <1>6 DEF Created, Unused
  <2>2. x # b
    BY <1>2, <2>1 DEF NoAccount
  <2> QED
    BY <1>0, <1>2, <1>3, <2>1, <2>2
<1>7. CASE PasswordSet
  <2>1. PICK a \in Accounts, code \in Nat : acct' = [acct EXCEPT ![a].pw = @ + 1, ![a].code = code]
    BY <1>7 DEF PasswordSet, SetPassword
  <2> DEFINE rec == [acct[a] EXCEPT !.pw = @ + 1, !.code = code]
  <2>2. acct' = [acct EXCEPT ![a] = rec]
    BY <2>1
  <2>3. acct[a] \in AccountRows
    BY <1>0
  <2>4. rec.exists = acct[a].exists /\ rec.disabled = acct[a].disabled /\ rec.admin = acct[a].admin
    BY <2>3, PasswordRow
  <2> HIDE DEF rec
  <2> QED
    BY <1>0, <1>2, <1>3, <2>2, <2>4
<1>8. CASE Changed
  <2>1. PICK a \in Accounts, rec \in AccountRows :
          /\ acct' = [acct EXCEPT ![a] = rec] /\ rec.exists
          /\ rec.disabled => acct[a].disabled
          /\ a \in EnabledAdmins => (rec.admin \/ ~LastAdmin(a))
    BY <1>8 DEF Changed
  <2>2. CASE x # a
    BY <1>0, <1>2, <1>3, <2>1, <2>2
  <2>3. CASE x = a /\ rec.admin
    BY <1>0, <1>2, <1>3, <2>1, <2>3
  <2>4. CASE ~LastAdmin(a)
    BY <1>0, <1>5, <2>1, <2>4
  <2> QED
    BY <1>1, <2>1, <2>2, <2>3, <2>4
<1>9. CASE Deleted
  <2>1. PICK a \in Accounts : ~acct[a].admin /\ acct' = [acct EXCEPT ![a] = DeletedAccount]
    BY <1>9 DEF Deleted
  <2> QED
    BY <1>0, <1>2, <1>3, <2>1
<1>10. CASE Disabled
  <2>1. PICK a \in Accounts : ~LastAdmin(a) /\ acct' = [acct EXCEPT ![a].disabled = TRUE]
    BY <1>10 DEF Disabled
  <2> QED
    BY <1>0, <1>5, <2>1
<1>11. CASE acct' = acct
  BY <1>2, <1>3, <1>11
<1> QED
  BY <1>6, <1>7, <1>8, <1>9, <1>10, <1>11
     DEF Effect, SessionAdded, SessionsElevated, SessionsGone, KeyAdded, KeysRevoked

\* The recovery code of an account only gets newer, and a deleted account never returns.
LEMMA CodesGrow ==
  ASSUME TypeOK, Effect, NEW x \in Accounts, acct[x] # NoAccount
  PROVE  /\ acct'[x] # NoAccount
         /\ acct'[x].exists => acct[x].exists /\ acct'[x].code >= acct[x].code
<1> DEFINE Goal == /\ acct'[x] # NoAccount
                   /\ acct'[x].exists => acct[x].exists /\ acct'[x].code >= acct[x].code
<1>0. acct \in [Accounts -> AccountRows] /\ acct[x] \in AccountRows /\ acct[x].code \in Nat
  BY DEF TypeOK, AccountRows
<1>1. ~NoAccount.exists /\ ~DeletedAccount.exists /\ DeletedAccount # NoAccount
  BY DEF NoAccount, DeletedAccount
<1>2. CASE acct'[x] = acct[x]
  BY <1>0, <1>2
<1>3. CASE Created
  <2>1. PICK b \in Accounts, rec \in AccountRows : acct[b] = NoAccount /\ acct' = [acct EXCEPT ![b] = rec]
    BY <1>3 DEF Created, Unused
  <2> QED
    BY <1>0, <1>2, <2>1
<1>4. CASE PasswordSet
  <2>1. PICK a \in Accounts, code \in Nat :
          /\ acct[a].exists /\ code >= acct[a].code
          /\ acct' = [acct EXCEPT ![a].pw = @ + 1, ![a].code = code]
    BY <1>4 DEF PasswordSet, SetPassword, Enabled
  <2> DEFINE rec == [acct[a] EXCEPT !.pw = @ + 1, !.code = code]
  <2>2. acct' = [acct EXCEPT ![a] = rec]
    BY <2>1
  <2>3. acct[a] \in AccountRows
    BY <1>0
  <2>4. rec.exists = acct[a].exists /\ rec.code = code
    BY <2>3, PasswordRow
  <2> HIDE DEF rec
  <2>5. CASE a = x
    BY <1>0, <1>1, <2>1, <2>2, <2>4, <2>5
  <2> QED
    BY <1>0, <1>2, <2>2, <2>5
<1>5. CASE Changed
  <2>1. PICK a \in Accounts, rec \in AccountRows :
          /\ acct' = [acct EXCEPT ![a] = rec] /\ acct[a].exists /\ rec.exists /\ rec.code >= acct[a].code
    BY <1>5 DEF Changed
  <2>2. CASE a = x
    BY <1>0, <1>1, <2>1, <2>2
  <2> QED
    BY <1>0, <1>2, <2>1, <2>2
<1>6. CASE Deleted
  <2>1. PICK a \in Accounts : acct' = [acct EXCEPT ![a] = DeletedAccount]
    BY <1>6 DEF Deleted
  <2> QED
    BY <1>0, <1>1, <1>2, <2>1
<1>7. CASE Disabled
  <2>1. PICK a \in Accounts : acct[a].exists /\ acct' = [acct EXCEPT ![a].disabled = TRUE]
    BY <1>7 DEF Disabled
  <2> DEFINE rec == [acct[a] EXCEPT !.disabled = TRUE]
  <2>2. rec.exists = acct[a].exists /\ rec.code = acct[a].code
    BY <1>0 DEF AccountRows
  <2>3. acct' = [acct EXCEPT ![a] = rec]
    BY <2>1
  <2> HIDE DEF rec
  <2>4. CASE a = x
    <3>1. acct'[x] = rec
      BY <1>0, <2>3, <2>4
    <3>2. acct'[x].exists /\ acct'[x].code = acct[x].code
      BY <2>1, <2>2, <2>4, <3>1
    <3>3. acct'[x].code >= acct[x].code
      BY <1>0, <3>2
    <3> QED
      BY <1>1, <2>1, <2>4, <3>2, <3>3
  <2> QED
    BY <1>0, <1>2, <2>3, <2>4
<1>8. CASE acct' = acct
  BY <1>2, <1>8
<1> QED
  BY <1>3, <1>4, <1>5, <1>6, <1>7, <1>8
     DEF Effect, SessionAdded, SessionsElevated, SessionsGone, KeyAdded, KeysRevoked

\* A code that recovers an account is spent by it.
RecoveriesOK == recovered \subseteq RecoveryRows /\ CodesAreSpent /\ CodesUsedOnce
LEMMA RecoveriesStep == TypeOK /\ RecoveriesOK /\ [Next]_vars /\ Effect => RecoveriesOK'
<1> SUFFICES ASSUME TypeOK, RecoveriesOK, [Next]_vars, Effect PROVE RecoveriesOK'
  OBVIOUS
<1>0. \A x \in recovered : x \in RecoveryRows /\ x.acct \in Accounts /\ x.code \in Nat
  BY DEF RecoveriesOK, RecoveryRows
<1>1. ASSUME NEW x \in recovered
      PROVE  acct'[x.acct] # NoAccount /\ (acct'[x.acct].exists => x.code < acct'[x.acct].code)
  <2>1. x.acct \in Accounts /\ x.code \in Nat
    BY <1>0
  <2>2. acct[x.acct] # NoAccount /\ (acct[x.acct].exists => x.code < acct[x.acct].code)
    BY DEF RecoveriesOK, CodesAreSpent
  <2>3. /\ acct'[x.acct] # NoAccount
        /\ acct'[x.acct].exists => acct[x.acct].exists /\ acct'[x.acct].code >= acct[x.acct].code
    BY <2>1, <2>2, CodesGrow
  <2>4. acct[x.acct].code \in Nat /\ acct'[x.acct].code \in Nat
    BY <2>1, AccountsStep DEF TypeOK, AccountRows
  <2> QED
    BY <2>1, <2>2, <2>3, <2>4
<1>2. CASE recovered' = recovered
  BY <1>1, <1>2 DEF RecoveriesOK, CodesAreSpent, CodesUsedOnce
<1>3. ASSUME NEW r \in Requests, RecoverWithCode(r), recovered' # recovered PROVE RecoveriesOK'
  <2> DEFINE a == req[r].acct
             y == [id |-> req[r].id, acct |-> a, code |-> req[r].proof]
  <2>1. /\ Enabled(a) /\ acct[a].code = req[r].proof /\ SetPassword(a, {}, acct[a].code + 1)
        /\ recovered' = recovered \cup {y}
    BY <1>3 DEF RecoverWithCode, Refused
  <2>2. req[r].kind = "recover" /\ req[r] \in RequestRows
    BY <1>3 DEF RecoverWithCode, Ends, TypeOK
  <2>3. a \in Accounts
    BY <2>2, NoneIsNothing DEF TypeOK, Kinds
  <2>4. y \in RecoveryRows /\ y.acct = a /\ y.code = acct[a].code /\ y.code \in Nat
    BY <2>1, <2>2, <2>3 DEF RecoveryRows, RequestRows
  <2>5. acct'[a].code = acct[a].code + 1 /\ acct'[a].exists
    <3> DEFINE rec == [acct[a] EXCEPT !.pw = @ + 1, !.code = acct[a].code + 1]
    <3>1. acct' = [acct EXCEPT ![a] = rec]
      BY <2>1 DEF SetPassword
    <3>2. acct[a] \in AccountRows /\ acct[a].code + 1 \in Nat
      BY <2>3, <2>4 DEF TypeOK
    <3>3. rec.exists = acct[a].exists /\ rec.code = acct[a].code + 1
      BY <3>2, PasswordRow
    <3> HIDE DEF rec
    <3> QED
      BY <2>1, <2>3, <3>1, <3>3 DEF Enabled, TypeOK
  <2>6. ~NoAccount.exists
    BY DEF NoAccount
  <2> HIDE DEF y, a
  <2>7. acct'[y.acct] # NoAccount /\ y.code < acct'[y.acct].code
    BY <2>4, <2>5, <2>6
  <2>8. CodesAreSpent'
    BY <1>1, <2>1, <2>7 DEF CodesAreSpent
  <2>9. \A x \in recovered : x.acct = a => x.code # y.code
    <3>1. acct[a].exists
      BY <2>1 DEF Enabled
    <3> QED
      BY <1>0, <2>4, <3>1 DEF RecoveriesOK, CodesAreSpent
  <2>10. CodesUsedOnce'
    BY <2>1, <2>4, <2>9 DEF RecoveriesOK, CodesUsedOnce
  <2> QED
    BY <2>1, <2>4, <2>8, <2>10 DEF RecoveriesOK
<1>4. ASSUME NEW r \in Requests, Commits(r), recovered' # recovered PROVE RecoverWithCode(r)
  BY <1>4 DEF Commits, Login, ChangePassword, RotateRecoveryCode, StepUp,
       CreateApiKey, RevokeApiKey, EndRegister, IssueSession, WalletLogin, LinkOrRotate,
       ConsumeTransferChallenge, DeleteAccount, AdminDisable, AdminEnable, SetAccountRole,
       AdminRevokes, Refused
<1>5. QED
  BY <1>2, <1>3, <1>4 DEF Next, Arrives, ArriveBySession, ArriveByKey, ArriveWithProof, Register,
     ResolveX402Owner, ArriveWithWallet, Logout, LinkPayer, CreateLoginChallenge,
     RecoverWalletChallenge, CreateChallenge, Issue, RecoverWithWallet, CreateAdmin

----------------------------------------------------------------------------
(* The invariant.                                                          *)

IInv == AccountInv /\ SessionsFollowPassword

\* The invariant holds initially.
LEMMA InvInit == Init => IInv
<1> SUFFICES ASSUME Init PROVE IInv
  OBVIOUS
<1>1. NoAccount \in AccountRows
  BY DEF NoAccount, AccountRows
<1>2. \A a \in Accounts : NewAccount(a, TRUE) \in AccountRows /\ NewAccount(a, TRUE).exists
        /\ ~NewAccount(a, TRUE).disabled /\ NewAccount(a, TRUE).admin
        /\ NewAccount(a, TRUE).wallet = None /\ NewAccount(a, TRUE).pw = 1
  BY DEF NewAccount, NoAccount, AccountRows
<1>3. /\ acct \in [Accounts -> AccountRows] /\ \A a \in Accounts : acct[a].wallet = None
      /\ \A a \in Accounts : acct[a].exists \/ acct[a] = NoAccount
      /\ \A a \in Accounts : ~acct[a].disabled
  BY <1>1, <1>2 DEF Init, NoAccount
<1>4. \A a \in {FirstAdmin, SecondAdmin} :
        a \in Accounts /\ acct[a].exists /\ ~acct[a].disabled /\ acct[a].admin /\ acct[a].pw = 1
  BY <1>2, FirstAccounts DEF Init
<1>5. \A s \in sessions : /\ s \in SessionRows /\ s.acct \in {FirstAdmin, SecondAdmin}
                          /\ s.since = 1 /\ s.elevated \in {0, 1}
  BY FirstAccounts, BoundsAreNumbers DEF Init, SessionRows
<1>6. /\ req \in [Requests -> RequestRows] /\ \A r \in Requests : req[r].kind = None
      /\ None \notin AdminKinds /\ started \in 0..MaxRequests
  BY IdleOK, BoundsAreNumbers DEF Init
<1>7. keys = {} /\ challenge = {} /\ recovered = {}
  BY DEF Init
<1>8. IsFiniteSet(challenge)
  BY <1>7, FS_EmptySet
<1>9. \A w \in Wallets : LinkedTo(w) = {}
  BY <1>3, NoneIsNothing DEF LinkedTo
<1>10. TypeOK
  BY <1>3, <1>4, <1>5, <1>6, <1>7, <1>8, <1>9 DEF TypeOK
<1>11. AdminRemains
  BY <1>4 DEF AdminRemains, EnabledAdmins, Enabled
<1>12. DisabledLockedOut
  BY <1>3 DEF DisabledLockedOut
<1>13. CodesUsedOnce /\ CodesAreSpent
  BY <1>7 DEF CodesUsedOnce, CodesAreSpent
<1>14. SessionsFollowPassword
  BY <1>4, <1>5 DEF SessionsFollowPassword
<1> QED
  BY <1>10, <1>11, <1>12, <1>13, <1>14 DEF IInv, AccountInv

\* The invariant is kept by every step.
LEMMA InvStep == IInv /\ [Next]_vars => IInv'
<1> SUFFICES ASSUME IInv, [Next]_vars PROVE IInv'
  OBVIOUS
<1>0. TypeOK /\ AdminRemains /\ DisabledLockedOut /\ SessionsFollowPassword /\ RecoveriesOK
  BY DEF IInv, AccountInv, RecoveriesOK, TypeOK
<1>1. Effect
  BY <1>0, StepEffect
<1>2. CredentialsGood'
  BY <1>0, <1>1, Credentials, CredentialsStep
<1>3. RecoveriesOK'
  BY <1>0, <1>1, RecoveriesStep
<1>4. TypeOK'
  <2>1. \A s \in sessions' : s \in SessionRows /\ acct'[s.acct].exists
    BY <1>2 DEF CredentialsGood, SessionGood
  <2>2. \A k \in keys' : k \in KeyRows /\ acct'[k.acct].exists
    BY <1>2 DEF CredentialsGood, KeyGood
  <2>3. ReqOK'
    BY <1>0, ReqStep
  <2>4. challenge' \subseteq ChallengeRows /\ IsFiniteSet(challenge')
    BY <1>0, ChallengeStep
  <2>5. /\ acct' \in [Accounts -> AccountRows]
        /\ \A a \in Accounts : acct'[a].exists \/ acct'[a] \in {NoAccount, DeletedAccount}
    BY <1>0, <1>1, AccountsStep
  <2>6. WalletsUnique'
    BY <1>0, <1>1, WalletsStep
  <2> QED
    BY <1>3, <2>1, <2>2, <2>3, <2>4, <2>5, <2>6 DEF TypeOK, ReqOK, WalletsUnique, RecoveriesOK
<1>5. (CredentialsGood <=> SessionsFollowPassword /\ DisabledLockedOut)'
  BY <1>4, Credentials, PTL
<1>6. AdminRemains'
  BY <1>0, <1>1, AdminStep
<1> QED
  BY <1>2, <1>3, <1>4, <1>5, <1>6 DEF IInv, AccountInv, RecoveriesOK

\* The inductive invariant.
LEMMA Inductive == Spec => []IInv
  BY InvInit, InvStep, PTL DEF Spec

\* For any number of accounts and of requests in flight: an enabled administrator is always
\* left, a disabled account has no session and no key but those of its registration, and a
\* recovery code works once (validate_admin_dispatch, login, create_api_key_endpoint,
\* recover_with_code).
THEOREM AccountSafe == Spec => []AccountInv
  BY Inductive, PTL DEF IInv

\* No session, and no elevation of one, outlives the password it was issued under, whatever
\* requests were verified before the change and committed after it (login, step_up,
\* revoke_all_sessions_for).
THEOREM SessionsSafe == Spec => []SessionsFollowPassword
  BY Inductive, PTL DEF IInv

----------------------------------------------------------------------------
(* Tunnels.                                                                *)

HIDE DEF vars
USE DEF tunnelVars, daemon, requests, money, Fine, Live, Exists

\* The fields of the tables.
LEMMA TunnelFields ==
  ASSUME TunnelTypes
  PROVE  /\ \A t \in Creators :
              /\ row[t].keyed \in BOOLEAN /\ row[t].status \in {"none", "active", "provisioning"}
              /\ row[t].expires \in Nat /\ row[t].token \in Nat
              /\ lease[t].token \in Nat /\ lease[t].expires \in Nat /\ minted[t] \in Nat
              /\ work[t].at \in Busy \cup {"new", "answered", "failed"} /\ work[t].token \in Nat
              /\ work[t].until \in Nat
              /\ work[t].replica \in Replicas \cup {Nothing}
              /\ work[t].tunnel \in Creators \cup {Nothing}
              /\ account[t].sold \in Nat /\ account[t].bought \in Nat /\ account[t].refunded \in Nat
              /\ terms[t] \in Nat
         /\ \A e \in Extenders :
              /\ extend[e].at \in UnderWay \cup Unbooked \cup {"new", "done", "failed"}
              /\ extend[e].tunnel \in Creators \cup {Nothing} /\ extend[e].until \in Nat
         /\ owner.at \in {"idle", "delete", "revoked", "failed"}
         /\ owner.tunnel \in Creators \cup {Nothing} /\ now \in Nat /\ mishaps \subseteq AllMishaps
         /\ swept.chosen \subseteq Creators /\ swept.revoked \in Creators \cup {Nothing}
  BY DEF TunnelTypes, RowRows, LeaseRows, WorkRows, ExtendRows, SaleRows

\* A mishap is one of those known.
LEMMA MishapCounted ==
  ASSUME TunnelTypes, NEW kind, GoesWrong(kind)
  PROVE  /\ mishaps' \subseteq AllMishaps /\ mishaps' = mishaps \cup {kind} /\ mishaps' # mishaps
         /\ mishaps \subseteq mishaps'
  BY MishapsAreKnown DEF TunnelTypes, GoesWrong

----------------------------------------------------------------------------
(* The parts of the actions that several of them share.                    *)

\* A lease that is asked for is there, as it was or as long as it was asked for.
LEMMA MintMakes ==
  ASSUME TunnelTypes, NEW t \in Creators, NEW until \in Nat, Mint(t, until)
  PROVE  /\ lease' \in [Creators -> LeaseRows] /\ minted' \in [Creators -> Nat]
         /\ LeaseFor(t, until).token \in Nat /\ LeaseFor(t, until).expires \in Nat
         /\ lease'[t] = LeaseFor(t, until)
         /\ \A u \in Creators : u # t => lease'[u] = lease[u]
         /\ lease'[t].token # 0
         /\ Live(t) => lease'[t] = lease[t]
         /\ ~Live(t) => lease'[t].expires = until
<1>1. LeaseFor(t, until) \in LeaseRows /\ LeaseFor(t, until).token # 0
  BY TunnelFields DEF LeaseFor, LeaseRows, TunnelTypes
<1>2. lease' = [lease EXCEPT ![t] = LeaseFor(t, until)]
  BY DEF Mint
<1>3. /\ lease' \in [Creators -> LeaseRows] /\ LeaseFor(t, until).token \in Nat
      /\ LeaseFor(t, until).expires \in Nat
  BY <1>1, <1>2 DEF TunnelTypes, LeaseRows
<1>4. minted' \in [Creators -> Nat]
  BY TunnelFields DEF Mint, TunnelTypes
<1>5. lease'[t] = LeaseFor(t, until) /\ \A u \in Creators : u # t => lease'[u] = lease[u]
  BY <1>2 DEF TunnelTypes
<1> QED
  BY <1>1, <1>3, <1>4, <1>5 DEF LeaseFor

\* A lease that is given back is gone, unless the daemon was not reached; it may be gone
\* although nobody heard of it.
LEMMA RevokeTakes ==
  ASSUME TunnelTypes, NEW t \in Creators, NEW ok \in BOOLEAN, Revoked(t, ok)
  PROVE  /\ lease' \in [Creators -> LeaseRows] /\ minted' = minted
         /\ \A u \in Creators : u # t => lease'[u] = lease[u]
         /\ ok => lease'[t] = NoLease /\ lease'[t].token = 0
         /\ ~ok => \/ lease' = lease
                   \/ lease'[t].token = 0 /\ "revocation_lost" \in mishaps'
         /\ mishaps' \subseteq AllMishaps /\ mishaps \subseteq mishaps'
<1>1. NoLease \in LeaseRows /\ NoLease.token = 0
  BY DEF NoLease, LeaseRows
<1>2. CASE ok = TRUE /\ RevokeLease(t) /\ Fine
  BY <1>1, <1>2 DEF RevokeLease, TunnelTypes
<1>3. CASE ok = FALSE /\ UNCHANGED daemon /\ GoesWrong("daemon_fails")
  BY <1>3, MishapCounted DEF TunnelTypes
<1>4. CASE ok = FALSE /\ RevokeLease(t) /\ GoesWrong("revocation_lost")
  <2>1. "revocation_lost" \in mishaps' /\ mishaps' \subseteq AllMishaps /\ mishaps \subseteq mishaps'
    BY <1>4, MishapCounted
  <2>2. /\ lease' \in [Creators -> LeaseRows] /\ minted' = minted /\ lease'[t].token = 0
        /\ \A u \in Creators : u # t => lease'[u] = lease[u]
    BY <1>1, <1>4 DEF RevokeLease, TunnelTypes
  <2> QED
    BY <1>4, <2>1, <2>2
<1> QED
  BY <1>2, <1>3, <1>4 DEF Revoked

\* A request is at another place.
LEMMA Went ==
  ASSUME TunnelTypes, NEW r \in Creators, NEW at \in Busy \cup {"new", "answered", "failed"}, Go(r, at)
  PROVE  /\ work' \in [Creators -> WorkRows] /\ work'[r].at = at
         /\ work'[r].tunnel = work[r].tunnel /\ work'[r].replica = work[r].replica
         /\ \A q \in Creators : q # r => work'[q] = work[q]
<1>1. work[r] \in WorkRows
  BY DEF TunnelTypes
<1>2. [work[r] EXCEPT !.at = at] \in WorkRows
  BY <1>1 DEF WorkRows
<1>3. /\ [work[r] EXCEPT !.at = at].at = at
      /\ [work[r] EXCEPT !.at = at].tunnel = work[r].tunnel
      /\ [work[r] EXCEPT !.at = at].replica = work[r].replica
  BY <1>1 DEF WorkRows
<1>4. work' = [work EXCEPT ![r] = [work[r] EXCEPT !.at = at]]
  BY DEF Go
<1>5. /\ work'[r] = [work[r] EXCEPT !.at = at]
      /\ \A q \in Creators : q # r => work'[q] = work[q]
  BY <1>4 DEF TunnelTypes
<1>6. work' \in [Creators -> WorkRows]
  BY <1>2, <1>4 DEF TunnelTypes
<1> QED
  BY <1>3, <1>5, <1>6

----------------------------------------------------------------------------
(* Where the requests are.                                                 *)

\* A create request goes on: on its replica, with its tunnel unless it mints one or finds one.
WorkGoesOn(r) ==
    /\ \A q \in Creators : q # r => work'[q] = work[q]
    /\ work[r].at \in Busy \cup {"new"} /\ work'[r].at \in Busy \cup {"answered", "failed"}
    /\ work'[r].replica # Nothing
    /\ work[r].at # "new" => work'[r].replica = work[r].replica
    /\ work[r].at = "new" /\ work'[r].at \in Busy =>
         \A q \in Creators : work[q].at \in Busy => work[q].replica # work'[r].replica
    /\ \/ work'[r].tunnel = work[r].tunnel
       \/ work[r].at = "mint" /\ work'[r].tunnel = r
       \/ /\ work[r].at \in {"find", "conflict"} /\ row' = row
          /\ work'[r].tunnel \in Creators \ {r} /\ row[work'[r].tunnel].keyed
    /\ work'[r].at \in Creating =>
         /\ work'[r].tunnel = r
         /\ work[r].at \in Creating \/ (work[r].at = "mint" /\ work'[r].at = "insert")
    /\ work'[r].at \in Replaying => work'[r].tunnel \in Creators \ {r}
    /\ work'[r].at \in {"stamp", "answered"} => work'[r].tunnel \in Creators
    /\ work[r].at \in Inserted => work'[r].at \in Inserted
    /\ work'[r].at = "orphan" => ~row[work'[r].tunnel].keyed /\ row' = row

\* The same, when nothing but the place changes.
Steps(r, at) == /\ work[r].at \in Busy /\ Go(r, at)
                /\ at \in (Busy \ {"insert", "orphan"}) \cup {"answered", "failed"}
                /\ at \in Creating => work[r].at \in Creating
                /\ at \in Replaying => work[r].at \in Replaying
                /\ at \in {"stamp", "answered"} => work[r].tunnel \in Creators
                /\ work[r].at \in Inserted => at \in Inserted

LEMMA StepsGoOn ==
  ASSUME TunnelTypes, WorkInPlace, NEW r \in Creators, NEW at, Steps(r, at)
  PROVE  WorkGoesOn(r) /\ work' \in [Creators -> WorkRows]
<1>1. at \in Busy \cup {"new", "answered", "failed"}
  BY DEF Steps
<1>2. /\ work' \in [Creators -> WorkRows] /\ work'[r].at = at
      /\ work'[r].tunnel = work[r].tunnel /\ work'[r].replica = work[r].replica
      /\ \A q \in Creators : q # r => work'[q] = work[q]
  BY <1>1, Went DEF Steps
<1>3. work[r].at # "new" /\ at # "orphan"
  BY DEF Steps, Busy
<1>4. work'[r].replica # Nothing
  BY <1>2 DEF Steps, WorkInPlace
<1>5. /\ at \in Creating => work'[r].tunnel = r
      /\ at \in Replaying => work'[r].tunnel \in Creators \ {r}
  BY <1>2 DEF Steps, WorkInPlace
<1> QED
  BY <1>2, <1>3, <1>4, <1>5 DEF Steps, WorkGoesOn

LEMMA RequestGoesOn ==
  ASSUME TunnelTypes, WorkInPlace, KeyInPlace, NEW r \in Creators, Create(r)
  PROVE  WorkGoesOn(r) /\ work' \in [Creators -> WorkRows]
<1> USE DEF Busy, Creating, Replaying, Inserted
<1>0. work[r] \in WorkRows /\ work[r].tunnel \in Creators \cup {Nothing} /\ Nothing \notin Replicas
      /\ Nothing \notin Creators
  BY TunnelFields, NothingIsApart DEF TunnelTypes
<1>1. ASSUME NEW p \in Replicas, Enter(r, p)
      PROVE  WorkGoesOn(r) /\ work' \in [Creators -> WorkRows]
  <2> DEFINE at == IF \E q \in Creators : work[q].at \in Busy /\ work[q].replica = p
                   THEN "failed" ELSE "find"
             w == [work[r] EXCEPT !.replica = p, !.at = at]
  <2>1. at \in {"failed", "find"} /\ (at = "find" => \A q \in Creators : work[q].at \in Busy => work[q].replica # p)
    OBVIOUS
  <2>2. work[r].at = "new" /\ work' = [work EXCEPT ![r] = w]
    BY <1>1 DEF Enter
  <2> HIDE DEF at
  <2>3. w \in WorkRows /\ w.at = at /\ w.replica = p /\ w.tunnel = work[r].tunnel
    BY <1>0, <2>1 DEF WorkRows
  <2> HIDE DEF w
  <2>4. work'[r] = w /\ work' \in [Creators -> WorkRows] /\ \A q \in Creators : q # r => work'[q] = work[q]
    BY <2>2, <2>3 DEF TunnelTypes
  <2> QED
    BY <1>0, <2>1, <2>2, <2>3, <2>4 DEF WorkGoesOn
<1>2. CASE Find(r)
  <2>1. ASSUME NEW t \in Creators, row[t].keyed,
               work' = [work EXCEPT ![r].tunnel = t, ![r].at = IF SameTerms(r, t) THEN "recover" ELSE "failed"]
        PROVE  WorkGoesOn(r) /\ work' \in [Creators -> WorkRows]
    <3> DEFINE at == IF SameTerms(r, t) THEN "recover" ELSE "failed"
               w == [work[r] EXCEPT !.tunnel = t, !.at = at]
    <3>1. at \in {"recover", "failed"}
      OBVIOUS
    <3>2. work' = [work EXCEPT ![r] = w]
      BY <2>1
    <3> HIDE DEF at
    <3>3. w \in WorkRows /\ w.at = at /\ w.replica = work[r].replica /\ w.tunnel = t
      BY <1>0, <3>1 DEF WorkRows
    <3> HIDE DEF w
    <3>4. work'[r] = w /\ work' \in [Creators -> WorkRows] /\ \A q \in Creators : q # r => work'[q] = work[q]
      BY <3>2, <3>3 DEF TunnelTypes
    <3>5. work[r].at \in {"find", "conflict"} /\ row' = row /\ t # r
      BY <1>2, <2>1 DEF Find, KeyInPlace
    <3>6. work[r].replica # Nothing
      BY <3>5 DEF WorkInPlace
    <3> QED
      BY <2>1, <3>1, <3>3, <3>4, <3>5, <3>6 DEF WorkGoesOn
  <2>2. ASSUME Go(r, IF work[r].at = "find" THEN "verify" ELSE "failed")
        PROVE  WorkGoesOn(r) /\ work' \in [Creators -> WorkRows]
    <3>1. Steps(r, IF work[r].at = "find" THEN "verify" ELSE "failed")
      BY <1>2, <2>2 DEF Find, Steps
    <3> QED
      BY <3>1, StepsGoOn
  <2> QED
    BY <1>2, <2>1, <2>2 DEF Find
<1>3. CASE Verify(r)
  <2>1. \E at \in {"failed", "mint", "settle_again"} : Steps(r, at)
    BY <1>3 DEF Verify, Steps
  <2> QED
    BY <2>1, StepsGoOn
<1>4. CASE MintLease(r)
  <2> DEFINE made == LeaseFor(r, now + terms[r])
  <2>0. work[r].at = "mint" /\ work[r].replica # Nothing /\ now + terms[r] \in Nat
    BY <1>4, TunnelFields DEF MintLease, WorkInPlace
  <2>1. CASE /\ Mint(r, now + terms[r])
             /\ work' = [work EXCEPT ![r].at = "insert", ![r].tunnel = r, ![r].token = made.token,
                                     ![r].until = made.expires]
    <3> DEFINE w == [work[r] EXCEPT !.at = "insert", !.tunnel = r, !.token = made.token,
                                    !.until = made.expires]
    <3>0. made.token \in Nat /\ made.expires \in Nat
      <4> HIDE DEF Mint
      <4> QED
        BY <2>0, <2>1, MintMakes
    <3>2. work' = [work EXCEPT ![r] = w]
      BY <2>1
    <3> HIDE DEF made
    <3>1. w \in WorkRows /\ w.at = "insert" /\ w.replica = work[r].replica /\ w.tunnel = r
      BY <1>0, <3>0 DEF WorkRows
    <3> HIDE DEF w
    <3>3. work'[r] = w /\ work' \in [Creators -> WorkRows] /\ \A q \in Creators : q # r => work'[q] = work[q]
      BY <3>1, <3>2 DEF TunnelTypes
    <3> QED
      BY <2>0, <3>1, <3>3 DEF WorkGoesOn
  <2>2. CASE Go(r, "failed")
    <3>1. Steps(r, "failed")
      BY <2>0, <2>2 DEF Steps
    <3> QED
      BY <3>1, StepsGoOn
  <2>3. CASE /\ Mint(r, now + terms[r])
             /\ work' = [work EXCEPT ![r].at = "cancel", ![r].until = made.expires]
    <3> DEFINE w == [work[r] EXCEPT !.at = "cancel", !.until = made.expires]
    <3>0. made.expires \in Nat
      <4> HIDE DEF Mint
      <4> QED
        BY <2>0, <2>3, MintMakes
    <3>2. work' = [work EXCEPT ![r] = w]
      BY <2>3
    <3> HIDE DEF made
    <3>1. w \in WorkRows /\ w.at = "cancel" /\ w.replica = work[r].replica /\ w.tunnel = work[r].tunnel
      BY <1>0, <3>0 DEF WorkRows
    <3> HIDE DEF w
    <3>3. work'[r] = w /\ work' \in [Creators -> WorkRows] /\ \A q \in Creators : q # r => work'[q] = work[q]
      BY <3>1, <3>2 DEF TunnelTypes
    <3> QED
      BY <2>0, <3>1, <3>3 DEF WorkGoesOn
  <2> QED
    BY <1>4, <2>1, <2>2, <2>3 DEF MintLease
<1>5. CASE Insert(r)
  <2>1. \E at \in {"settle", "cancel"} : Steps(r, at)
    BY <1>5 DEF Insert, Steps
  <2> QED
    BY <2>1, StepsGoOn
<1>6. CASE Cancel(r)
  <2>1. Steps(r, IF work[r].tunnel = r /\ \E t \in Creators : row[t].keyed THEN "conflict" ELSE "failed")
    BY <1>6 DEF Cancel, Steps
  <2> QED
    BY <2>1, StepsGoOn
<1>7. CASE Settle(r)
  <2>1. \E at \in {"stamp", "recheck"} : Go(r, at) /\ (at = "recheck" => work[r].at = "settle")
    BY <1>7 DEF Settle
  <2>2. work[r].at \in {"settle", "settle_again"} /\ work[r].tunnel \in Creators
    BY <1>7 DEF Settle, WorkInPlace
  <2>3. \E at \in {"stamp", "recheck"} : Steps(r, at)
    BY <2>1, <2>2 DEF Steps
  <2> QED
    BY <2>3, StepsGoOn
<1>8. CASE Recheck(r)
  <2>1. work[r].tunnel \in Creators /\ work[r].at = "recheck"
    BY <1>8 DEF Recheck, WorkInPlace
  <2>2. \E at \in {"answered", "revoke"} : Steps(r, at)
    BY <1>8, <2>1 DEF Recheck, Steps
  <2> QED
    BY <2>2, StepsGoOn
<1>9. CASE RevokeUnpaid(r)
  <2>1. \E at \in {"delete", "failed"} : Steps(r, at)
    BY <1>9 DEF RevokeUnpaid, Steps
  <2> QED
    BY <2>1, StepsGoOn
<1>10. CASE DeleteUnpaid(r)
  <2>1. Steps(r, "failed")
    BY <1>10 DEF DeleteUnpaid, Steps
  <2> QED
    BY <2>1, StepsGoOn
<1>11. CASE Stamp(r)
  <2>1. work[r].tunnel \in Creators
    BY <1>11 DEF Stamp, WorkInPlace
  <2>2. Steps(r, "answered")
    BY <1>11, <2>1 DEF Stamp, Steps
  <2> QED
    BY <2>2, StepsGoOn
<1>12. CASE Recover(r)
  <2> DEFINE t == work[r].tunnel
             until == IF row[t].expires > now THEN row[t].expires ELSE now + 1
  <2>1. t \in Creators \ {r} /\ work[r].at = "recover" /\ work[r].replica # Nothing
    BY <1>12 DEF Recover, WorkInPlace
  <2>2. until \in Nat
    BY <2>1, TunnelFields
  <2>3. CASE Go(r, "failed")
    <3>1. Steps(r, "failed")
      BY <2>1, <2>3 DEF Steps
    <3> QED
      BY <3>1, StepsGoOn
  <2>4. CASE /\ Mint(t, until)
             /\ work' = [work EXCEPT ![r].at = "resync", ![r].token = LeaseFor(t, until).token]
    <3> DEFINE w == [work[r] EXCEPT !.at = "resync", !.token = LeaseFor(t, until).token]
    <3>0. work' = [work EXCEPT ![r] = w]
      BY <2>4
    <3>1. LeaseFor(t, until).token \in Nat
      <4> HIDE DEF t, until
      <4> QED
        BY <2>1, <2>2, <2>4, MintMakes
    <3>2. w \in WorkRows /\ w.at = "resync" /\ w.replica = work[r].replica /\ w.tunnel = work[r].tunnel
      BY <1>0, <3>1 DEF WorkRows
    <3> HIDE DEF w
    <3>3. work'[r] = w /\ work' \in [Creators -> WorkRows] /\ \A q \in Creators : q # r => work'[q] = work[q]
      BY <3>0, <3>2 DEF TunnelTypes
    <3> QED
      BY <2>1, <3>2, <3>3 DEF WorkGoesOn
  <2> QED
    BY <1>12, <2>3, <2>4 DEF Recover
<1>13. CASE Resync(r)
  <2>1. work[r].at = "resync" /\ work[r].replica # Nothing /\ work[r].tunnel \in Creators \ {r}
    BY <1>13 DEF Resync, WorkInPlace
  <2>2. CASE Go(r, "reread")
    <3>1. Steps(r, "reread")
      BY <2>1, <2>2 DEF Steps
    <3> QED
      BY <3>1, StepsGoOn
  <2>3. CASE ~Exists(work[r].tunnel) /\ row' = row /\ Go(r, "orphan")
    <3>1. ~row[work[r].tunnel].keyed
      BY <2>1, <2>3 DEF KeyInPlace
    <3>2. /\ work' \in [Creators -> WorkRows] /\ work'[r].at = "orphan"
          /\ work'[r].tunnel = work[r].tunnel /\ work'[r].replica = work[r].replica
          /\ \A q \in Creators : q # r => work'[q] = work[q]
      BY <2>3, Went
    <3> QED
      BY <2>1, <2>3, <3>1, <3>2 DEF WorkGoesOn
  <2> QED
    BY <1>13, <2>2, <2>3 DEF Resync
<1>14. CASE RevokeOrphan(r)
  <2>1. Steps(r, "failed")
    BY <1>14 DEF RevokeOrphan, Steps
  <2> QED
    BY <2>1, StepsGoOn
<1>15. CASE Reread(r)
  <2>1. work[r].at = "reread" /\ work[r].tunnel \in Creators
    BY <1>15 DEF Reread, WorkInPlace
  <2>2. \E at \in {"answered", "verify_again"} : Steps(r, at)
    BY <1>15, <2>1 DEF Reread, Steps
  <2> QED
    BY <2>2, StepsGoOn
<1> QED
  BY <1>1, <1>2, <1>3, <1>4, <1>5, <1>6, <1>7, <1>8, <1>9, <1>10, <1>11, <1>12, <1>13, <1>14, <1>15 DEF Create

\* Every step is of a create request, a crash, or leaves the requests where they are.
LEMMA WhoGoesOn ==
  ASSUME TunnelTypes, WorkInPlace, KeyInPlace, [TunnelNext]_tunnelVars
  PROVE  \/ \E r \in Creators : Create(r) /\ WorkGoesOn(r)
         \/ \E p \in Replicas : Crash(p)
         \/ work' = work
<1>1. ASSUME NEW r \in Creators, Create(r) PROVE Create(r) /\ WorkGoesOn(r)
  BY <1>1, RequestGoesOn
<1>2. ASSUME NEW r \in Creators, OwnerRevokes(r) \/ SweepRevoke(r) \/ LoseLease(r) PROVE work' = work
  BY <1>2 DEF OwnerRevokes, SweepRevoke, LoseLease
<1>3. ASSUME NEW e \in Extenders, \/ Pay(e) \/ ApplyExtension(e) \/ Persist(e) \/ RefundExtension(e)
                                  \/ \E t \in Creators : Preflight(e, t)
      PROVE  work' = work
  BY <1>3 DEF Pay, ApplyExtension, Persist, RefundExtension, Preflight, GoOn
<1>4. CASE OwnerDeletes \/ SweepSelect \/ SweepDelete \/ Tick \/ UNCHANGED tunnelVars
  BY <1>4 DEF OwnerDeletes, SweepSelect, SweepDelete, Tick
<1> QED
  BY <1>1, <1>2, <1>3, <1>4 DEF TunnelNext

\* A crash ends the requests of its replica.
LEMMA CrashEnds ==
  ASSUME TunnelTypes, NEW p \in Replicas, Crash(p)
  PROVE  /\ work' \in [Creators -> WorkRows]
         /\ \A r \in Creators :
              /\ work'[r].replica = work[r].replica /\ work'[r].tunnel = work[r].tunnel
              /\ work'[r] = work[r] \/ (work[r].at \in Busy /\ work'[r].at = "failed")
<1>1. ASSUME NEW r \in Creators
      PROVE  /\ [work[r] EXCEPT !.at = "failed"] \in WorkRows
             /\ [work[r] EXCEPT !.at = "failed"].at = "failed"
             /\ [work[r] EXCEPT !.at = "failed"].tunnel = work[r].tunnel
             /\ [work[r] EXCEPT !.at = "failed"].replica = work[r].replica
  BY DEF TunnelTypes, WorkRows
<1>2. work' = [r \in Creators |-> IF work[r].at \in Busy /\ work[r].replica = p
                                  THEN [work[r] EXCEPT !.at = "failed"] ELSE work[r]]
  BY DEF Crash
<1>3. work' \in [Creators -> WorkRows]
  BY <1>1, <1>2 DEF TunnelTypes
<1> QED
  BY <1>1, <1>2, <1>3

\* The owner tears one tunnel down.
LEMMA OwnerMoves ==
  ASSUME TunnelTypes, [TunnelNext]_tunnelVars
  PROVE  /\ owner' \in [at : {"idle", "delete", "revoked", "failed"}, tunnel : Creators \cup {Nothing}]
         /\ \/ owner' = owner
            \/ \E t \in Creators : OwnerRevokes(t) /\ owner.at = "idle" /\ owner'.at # "idle" /\ owner'.tunnel = t
            \/ OwnerDeletes /\ owner'.at # "idle" /\ owner'.tunnel = owner.tunnel
<1> DEFINE OwnerRows == [at : {"idle", "delete", "revoked", "failed"}, tunnel : Creators \cup {Nothing}]
<1>0. owner \in OwnerRows
  BY DEF TunnelTypes
<1>1. ASSUME NEW t \in Creators, OwnerRevokes(t)
      PROVE  owner' \in OwnerRows /\ owner.at = "idle" /\ owner'.at # "idle" /\ owner'.tunnel = t
  BY <1>1 DEF OwnerRevokes
<1>2. CASE OwnerDeletes
  BY <1>0, <1>2 DEF OwnerDeletes
<1>3. ASSUME NEW r \in Creators, Create(r) \/ SweepRevoke(r) \/ LoseLease(r) PROVE owner' = owner
  BY <1>3 DEF Create, Enter, Find, Verify, MintLease, Insert, Cancel, Settle, Recheck, RevokeUnpaid,
              DeleteUnpaid, Stamp, Recover, Resync, RevokeOrphan, Reread, SweepRevoke, LoseLease
<1>4. ASSUME NEW e \in Extenders, \/ Pay(e) \/ ApplyExtension(e) \/ Persist(e) \/ RefundExtension(e)
                                  \/ \E t \in Creators : Preflight(e, t)
      PROVE  owner' = owner
  BY <1>4 DEF Pay, ApplyExtension, Persist, RefundExtension, Preflight, GoOn
<1>5. CASE SweepSelect \/ SweepDelete \/ Tick \/ (\E p \in Replicas : Crash(p)) \/ UNCHANGED tunnelVars
  BY <1>0, <1>5 DEF SweepSelect, SweepDelete, Tick, Crash
<1> QED
  BY <1>0, <1>1, <1>2, <1>3, <1>4, <1>5 DEF TunnelNext

\* The sweep revokes one tunnel after the other of those it has selected.
LEMMA SweepMoves ==
  ASSUME TunnelTypes, WorkInPlace, [TunnelNext]_tunnelVars
  PROVE  /\ swept' \in [chosen : SUBSET Creators, revoked : Creators \cup {Nothing}]
         /\ swept'.revoked # Nothing => swept'.revoked \in swept'.chosen
         /\ swept'.revoked = swept.revoked \/ swept.revoked = Nothing \/ SweepDelete
         /\ swept'.chosen \subseteq swept.chosen \/ SweepSelect
<1> DEFINE SweptRows == [chosen : SUBSET Creators, revoked : Creators \cup {Nothing}]
           Claim == /\ swept' \in SweptRows
                    /\ swept'.revoked # Nothing => swept'.revoked \in swept'.chosen
                    /\ swept'.revoked = swept.revoked \/ swept.revoked = Nothing \/ SweepDelete
                    /\ swept'.chosen \subseteq swept.chosen \/ SweepSelect
<1> SUFFICES Claim
  OBVIOUS
<1>0. swept \in SweptRows /\ (swept.revoked # Nothing => swept.revoked \in swept.chosen)
  BY DEF TunnelTypes, WorkInPlace
<1>1. ASSUME swept' = swept PROVE Claim
  BY <1>0, <1>1
<1>2. ASSUME NEW t \in Creators, SweepRevoke(t) PROVE Claim
  <2>1. t \in swept.chosen /\ swept.revoked = Nothing
        /\ \/ swept' = [swept EXCEPT !.revoked = t]
           \/ swept' = [swept EXCEPT !.chosen = @ \ {t}]
    BY <1>2 DEF SweepRevoke
  <2> QED
    BY <1>0, <2>1
<1>3. CASE SweepSelect
  <2>1. swept' = [swept EXCEPT !.chosen = {t \in Creators : Reapable(t)}] /\ swept.chosen = {}
    BY <1>3 DEF SweepSelect
  <2> DEFINE reapable == {t \in Creators : Reapable(t)}
  <2>2. reapable \subseteq Creators
    OBVIOUS
  <2> HIDE DEF reapable
  <2>3. swept' = [swept EXCEPT !.chosen = reapable]
    BY <2>1 DEF reapable
  <2>4. swept' \in SweptRows /\ swept'.revoked = swept.revoked /\ swept.revoked = Nothing
    BY <1>0, <2>1, <2>2, <2>3
  <2> QED
    BY <1>3, <2>4
<1>4. CASE SweepDelete
  BY <1>0, <1>4 DEF SweepDelete
<1> HIDE DEF Claim
<1>5. ASSUME NEW r \in Creators, Create(r) \/ OwnerRevokes(r) \/ LoseLease(r) PROVE Claim
  BY <1>1, <1>5 DEF Create, Enter, Find, Verify, MintLease, Insert, Cancel, Settle, Recheck, RevokeUnpaid,
              DeleteUnpaid, Stamp, Recover, Resync, RevokeOrphan, Reread, OwnerRevokes, LoseLease
<1>6. ASSUME NEW e \in Extenders, \/ Pay(e) \/ ApplyExtension(e) \/ Persist(e) \/ RefundExtension(e)
                                  \/ \E t \in Creators : Preflight(e, t)
      PROVE  Claim
  BY <1>1, <1>6 DEF Pay, ApplyExtension, Persist, RefundExtension, Preflight
<1>7. CASE OwnerDeletes \/ Tick \/ (\E p \in Replicas : Crash(p)) \/ UNCHANGED tunnelVars
  BY <1>1, <1>7 DEF OwnerDeletes, Tick, Crash
<1> QED
  BY <1>2, <1>3, <1>4, <1>5, <1>6, <1>7 DEF TunnelNext

\* A request is alone on its replica, and on the tunnel it works for.
LEMMA WorkStep ==
  ASSUME TunnelTypes, WorkInPlace, KeyInPlace, [TunnelNext]_tunnelVars
  PROVE  WorkInPlace'
<1>s. swept'.revoked # Nothing => swept'.revoked \in swept'.chosen
  BY SweepMoves
<1>0. owner'.at = "idle" => owner'.tunnel = Nothing
  <2>1. owner' = owner \/ owner'.at # "idle"
    BY OwnerMoves
  <2> QED
    BY <2>1 DEF WorkInPlace
<1>1. CASE work' = work
  BY <1>0, <1>s, <1>1 DEF WorkInPlace
<1>2. ASSUME NEW p \in Replicas, Crash(p) PROVE WorkInPlace'
  <2>1. /\ "failed" \notin Busy \cup Creating \cup Replaying \cup {"new", "stamp", "answered"}
        /\ "failed" \in Inserted
    BY DEF Busy, Creating, Replaying, Inserted
  <2> QED
    BY <1>0, <1>s, <1>2, <2>1, CrashEnds DEF WorkInPlace
<1>3. ASSUME NEW r \in Creators, WorkGoesOn(r) PROVE WorkInPlace'
  <2>0. "find" \notin Inserted /\ "conflict" \notin Inserted /\ "mint" \notin Inserted /\ "new" \notin Busy
        /\ "answered" \notin Busy \cup {"new"} /\ "failed" \notin Busy \cup {"new"}
    BY DEF Inserted, Busy
  <2>1. ASSUME NEW q \in Creators
        PROVE  /\ work'[q].at = "new" => work'[q].replica = Nothing
               /\ work'[q].at \in Busy => work'[q].replica # Nothing
               /\ work'[q].at \in Creating => work'[q].tunnel = q
               /\ work'[q].at \in Replaying => work'[q].tunnel \in Creators \ {q}
               /\ work'[q].at \in {"stamp", "answered"} => work'[q].tunnel \in Creators
    BY <1>3, <2>0 DEF WorkInPlace, WorkGoesOn
  <2>2. ASSUME NEW q \in Creators, NEW s \in Creators, q # s, work'[q].tunnel = s
        PROVE  work'[s].at \in Inserted
    <3>1. work[q].tunnel = s \/ row[s].keyed
      BY <1>3, <2>2 DEF WorkGoesOn
    <3>2. work[s].at \in Inserted
      BY <2>2, <3>1 DEF WorkInPlace, KeyInPlace
    <3> QED
      BY <1>3, <3>2 DEF WorkGoesOn
  <2>3. ASSUME NEW q \in Creators, NEW s \in Creators, work'[q].at \in Busy, work'[s].at \in Busy,
               work'[q].replica = work'[s].replica
        PROVE  q = s
    BY <1>3, <2>0, <2>3 DEF WorkInPlace, WorkGoesOn
  <2> QED
    BY <1>0, <1>s, <2>1, <2>2, <2>3 DEF WorkInPlace
<1> QED
  BY <1>1, <1>2, <1>3, WhoGoesOn

\* What a step may do to the rows: nobody but Insert makes one with the key, and the expiry
\* of a row with the key does not go back.
RowsGoOn == /\ row' \in [Creators -> RowRows]
            /\ \A t \in Creators : /\ row'[t].keyed <=> row'[t].status = "active"
                                   /\ row'[t].keyed => row[t].keyed /\ row'[t].expires >= row[t].expires

\* A row that may take the place of another.
MayFollow(x, old) == /\ x \in RowRows /\ (x.keyed <=> x.status = "active")
                     /\ x.keyed => old.keyed /\ x.expires >= old.expires

LEMMA RowPut ==
  ASSUME TunnelTypes, KeyInPlace, NEW t, NEW x, row' = [row EXCEPT ![t] = x],
         t \in Creators => MayFollow(x, row[t])
  PROVE  RowsGoOn
<1>1. ASSUME NEW u \in Creators PROVE row'[u] = IF u = t THEN x ELSE row[u]
  BY DEF TunnelTypes
<1>2. row' \in [Creators -> RowRows]
  BY DEF TunnelTypes, MayFollow
<1>3. \A u \in Creators : row[u].expires >= row[u].expires
  BY TunnelFields
<1> QED
  BY <1>1, <1>2, <1>3 DEF RowsGoOn, KeyInPlace, MayFollow

LEMMA RowGone ==
  ASSUME TunnelTypes, KeyInPlace, NEW t, row' = [row EXCEPT ![t] = NoRow]
  PROVE  RowsGoOn
<1>1. MayFollow(NoRow, row[t])
  BY DEF MayFollow, NoRow, RowRows
<1> QED
  BY <1>1, RowPut

LEMMA RowsStay ==
  ASSUME TunnelTypes, KeyInPlace, row' = row
  PROVE  RowsGoOn
BY TunnelFields DEF TunnelTypes, KeyInPlace, RowsGoOn

\* A row but for its payment, its token or a later expiry is the same.
LEMMA RowAmended ==
  ASSUME TunnelTypes, KeyInPlace, NEW t, NEW n \in Nat,
         \/ row' = [row EXCEPT ![t].paid = TRUE]
         \/ row' = [row EXCEPT ![t].token = n]
         \/ row' = [row EXCEPT ![t].expires = n] /\ row[t].expires < n
  PROVE  RowsGoOn
<1>1. t \in Creators => row[t] \in RowRows /\ row[t].expires \in Nat
  BY DEF TunnelTypes, RowRows
<1>2. t \in Creators => MayFollow([row[t] EXCEPT !.paid = TRUE], row[t])
  <2> DEFINE x == [row[t] EXCEPT !.paid = TRUE]
  <2>1. t \in Creators => x \in RowRows
    BY <1>1 DEF RowRows
  <2>2. t \in Creators => x.keyed = row[t].keyed /\ x.status = row[t].status /\ x.expires = row[t].expires
    BY <1>1 DEF RowRows
  <2> HIDE DEF x
  <2>3. t \in Creators => MayFollow(x, row[t])
    BY <1>1, <2>1, <2>2 DEF MayFollow, KeyInPlace
  <2> QED
    BY <2>3 DEF x
<1>3. t \in Creators => MayFollow([row[t] EXCEPT !.token = n], row[t])
  BY <1>1 DEF MayFollow, KeyInPlace, RowRows
<1>4. t \in Creators /\ row[t].expires < n => MayFollow([row[t] EXCEPT !.expires = n], row[t])
  BY <1>1 DEF MayFollow, KeyInPlace, RowRows
<1>5. \E x : row' = [row EXCEPT ![t] = x] /\ (t \in Creators => MayFollow(x, row[t]))
  <2>1. CASE row' = [row EXCEPT ![t].paid = TRUE]
    BY <1>2, <2>1
  <2>2. CASE row' = [row EXCEPT ![t].token = n]
    BY <1>3, <2>2
  <2>3. CASE row' = [row EXCEPT ![t].expires = n] /\ row[t].expires < n
    BY <1>4, <2>3
  <2> QED
    BY <2>1, <2>2, <2>3
<1> QED
  BY <1>5, RowPut

LEMMA RowsKept ==
  ASSUME TunnelTypes, KeyInPlace, WorkInPlace, [TunnelNext]_tunnelVars,
         ~ \E r \in Creators : Insert(r) /\ work'[r].at = "settle"
  PROVE  RowsGoOn
<1>1. ASSUME NEW r \in Creators, Create(r) PROVE RowsGoOn
  <2>1. CASE Insert(r)
    <3>1. row' = row \/ Go(r, "settle")
      BY <2>1 DEF Insert
    <3>2. Go(r, "settle") => work'[r].at = "settle"
      BY Went DEF Busy
    <3> QED
      BY <2>1, <3>1, <3>2, RowsStay
  <2>2. CASE Cancel(r)
    <3> DEFINE x == [NoRow EXCEPT !.status = "provisioning", !.expires = work[r].until,
                                  !.token = work[r].token, !.born = now]
    <3>1. row' = row \/ row' = [row EXCEPT ![r] = x]
      BY <2>2 DEF Cancel
    <3>2. MayFollow(x, row[r])
      BY TunnelFields DEF NoRow, MayFollow, RowRows
    <3> HIDE DEF x
    <3> QED
      BY <3>1, <3>2, RowPut, RowsStay
  <2>3. CASE DeleteUnpaid(r)
    BY <2>3, RowGone DEF DeleteUnpaid
  <2>4. CASE Stamp(r)
    <3>1. row' = row \/ row' = [row EXCEPT ![work[r].tunnel].paid = TRUE]
      BY <2>4 DEF Stamp
    <3> QED
      BY <3>1, 0 \in Nat, RowAmended, RowsStay
  <2>5. CASE Resync(r)
    <3>1. row' = row \/ row' = [row EXCEPT ![work[r].tunnel].token = work[r].token]
      BY <2>5 DEF Resync
    <3>2. work[r].token \in Nat
      BY TunnelFields
    <3> QED
      BY <3>1, <3>2, RowAmended, RowsStay
  <2>6. CASE \/ (\E p \in Replicas : Enter(r, p)) \/ Find(r) \/ Verify(r) \/ MintLease(r) \/ Settle(r)
             \/ Recheck(r) \/ RevokeUnpaid(r) \/ Recover(r) \/ RevokeOrphan(r) \/ Reread(r)
    BY <2>6, RowsStay DEF Enter, Find, Verify, MintLease, Settle, Recheck, RevokeUnpaid, Recover,
                          RevokeOrphan, Reread
  <2> QED
    BY <1>1, <2>1, <2>2, <2>3, <2>4, <2>5, <2>6 DEF Create
<1>2. ASSUME NEW e \in Extenders, Persist(e) PROVE RowsGoOn
  <2>1. \/ row' = row
        \/ /\ row' = [row EXCEPT ![extend[e].tunnel].expires = extend[e].until]
           /\ row[extend[e].tunnel].expires < extend[e].until
    BY <1>2 DEF Persist
  <2>2. extend[e].until \in Nat
    BY TunnelFields
  <2> QED
    BY <2>1, <2>2, RowAmended, RowsStay
<1>3. CASE OwnerDeletes \/ SweepDelete
  BY <1>3, RowGone DEF OwnerDeletes, SweepDelete
<1>5. ASSUME NEW t \in Creators, OwnerRevokes(t) \/ SweepRevoke(t) \/ LoseLease(t) PROVE RowsGoOn
  BY <1>5, RowsStay DEF OwnerRevokes, SweepRevoke, LoseLease
<1>6. ASSUME NEW e \in Extenders, Pay(e) \/ ApplyExtension(e) \/ RefundExtension(e) \/ \E t \in Creators : Preflight(e, t)
      PROVE  RowsGoOn
  BY <1>6, RowsStay DEF Pay, ApplyExtension, RefundExtension, Preflight
<1>7. CASE SweepSelect \/ Tick \/ (\E p \in Replicas : Crash(p)) \/ UNCHANGED tunnelVars
  BY <1>7, RowsStay DEF SweepSelect, Tick, Crash
<1> QED
  BY <1>1, <1>2, <1>3, <1>5, <1>6, <1>7 DEF TunnelNext

\* One row has the key, of a request that has inserted it.
LEMMA KeyStep ==
  ASSUME TunnelTypes, WorkInPlace, KeyInPlace, [TunnelNext]_tunnelVars
  PROVE  KeyInPlace'
<1>1. ASSUME NEW r \in Creators, Insert(r), work'[r].at = "settle" PROVE KeyInPlace'
  <2>1. /\ work[r].at = "insert" /\ work'[r].tunnel = r
        /\ \A q \in Creators : q # r => work'[q] = work[q]
    BY <1>1, Went DEF Insert, WorkInPlace, Creating, Busy
  <2>2. CASE /\ ~ \E t \in Creators : row[t].keyed
             /\ row' = [row EXCEPT ![r] = [keyed |-> TRUE, status |-> "active", paid |-> FALSE,
                          expires |-> work[r].until, token |-> work[r].token,
                          hours |-> terms[r], born |-> now]]
    <3>1. /\ row'[r].keyed /\ row'[r].status = "active"
          /\ \A t \in Creators : t # r => row'[t] = row[t]
      BY <2>2 DEF TunnelTypes
    <3>2. ASSUME NEW t \in Creators, work'[t].at = "orphan" PROVE ~row'[work'[t].tunnel].keyed
      <4>1. t # r /\ work[t].at = "orphan" /\ work'[t].tunnel = work[t].tunnel
        BY <1>1, <2>1, <3>2
      <4>2. work[t].tunnel \in Creators
        BY <4>1 DEF WorkInPlace, Replaying
      <4>3. work[t].tunnel # r
        BY <2>1, <4>1 DEF WorkInPlace, Inserted
      <4> QED
        BY <2>2, <3>1, <4>1, <4>2, <4>3
    <3> QED
      BY <1>1, <2>1, <2>2, <3>1, <3>2 DEF KeyInPlace, Inserted
  <2>3. CASE Go(r, "cancel")
    BY <1>1, <2>3, Went DEF Busy
  <2> QED
    BY <1>1, <2>2, <2>3 DEF Insert
<1>2. ASSUME RowsGoOn PROVE KeyInPlace'
  <2>1. CASE work' = work
    BY <1>2, <2>1 DEF KeyInPlace, RowsGoOn, WorkInPlace, Replaying
  <2>2. ASSUME NEW p \in Replicas, Crash(p) PROVE KeyInPlace'
    BY <1>2, <2>2, CrashEnds DEF KeyInPlace, RowsGoOn, WorkInPlace, Replaying, Inserted
  <2>3. ASSUME NEW r \in Creators, WorkGoesOn(r) PROVE KeyInPlace'
    <3>0. "find" \notin Inserted /\ "conflict" \notin Inserted /\ "mint" \notin Inserted
      BY DEF Inserted
    <3>1. ASSUME NEW t \in Creators, row'[t].keyed PROVE work'[t].tunnel = t /\ work'[t].at \in Inserted
      BY <1>2, <2>3, <3>0, <3>1 DEF KeyInPlace, RowsGoOn, WorkGoesOn
    <3>2. ASSUME NEW t \in Creators, work'[t].at = "orphan" PROVE ~row'[work'[t].tunnel].keyed
      <4>1. CASE t = r
        BY <2>3, <3>2, <4>1 DEF WorkGoesOn
      <4>2. CASE t # r
        BY <1>2, <2>3, <3>2, <4>2 DEF WorkGoesOn, RowsGoOn, KeyInPlace, WorkInPlace, Replaying
      <4> QED
        BY <4>1, <4>2
    <3> QED
      BY <1>2, <3>1, <3>2 DEF KeyInPlace, RowsGoOn
  <2> QED
    BY <2>1, <2>2, <2>3, WhoGoesOn
<1> QED
  BY <1>1, <1>2, RowsKept

----------------------------------------------------------------------------
(* One replica, and the authorization.                                     *)

\* A mishap is not forgotten.
LEMMA MishapsGrow ==
  ASSUME TunnelTypes, [TunnelNext]_tunnelVars
  PROVE  mishaps \subseteq mishaps' /\ mishaps' \subseteq AllMishaps
<1>0. ASSUME UNCHANGED mishaps \/ \E kind : GoesWrong(kind)
      PROVE  mishaps \subseteq mishaps' /\ mishaps' \subseteq AllMishaps
  BY <1>0, MishapCounted DEF TunnelTypes
<1>1. ASSUME NEW r \in Creators, Create(r) PROVE UNCHANGED mishaps \/ \E kind : GoesWrong(kind)
  <2>1. CASE Cancel(r) \/ RevokeUnpaid(r) \/ RevokeOrphan(r)
    BY <2>1 DEF Cancel, RevokeUnpaid, RevokeOrphan, Revoked
  <2>2. CASE Settle(r)
    BY <2>2 DEF Settle, Settles
  <2>3. CASE MintLease(r) \/ Insert(r) \/ Stamp(r) \/ Recover(r)
    BY <2>3 DEF MintLease, Insert, Stamp, Recover
  <2>4. CASE \/ (\E p \in Replicas : Enter(r, p)) \/ Find(r) \/ Verify(r) \/ Recheck(r)
             \/ DeleteUnpaid(r) \/ Resync(r) \/ Reread(r)
    BY <2>4 DEF Enter, Find, Verify, Recheck, DeleteUnpaid, Resync, Reread
  <2> QED
    BY <1>1, <2>1, <2>2, <2>3, <2>4 DEF Create
<1>2. ASSUME NEW t \in Creators, OwnerRevokes(t) \/ SweepRevoke(t) \/ LoseLease(t)
      PROVE  UNCHANGED mishaps \/ \E kind : GoesWrong(kind)
  BY <1>2 DEF OwnerRevokes, SweepRevoke, LoseLease, Revoked
<1>3. ASSUME NEW e \in Extenders, \/ Pay(e) \/ ApplyExtension(e) \/ Persist(e) \/ RefundExtension(e)
                                  \/ \E t \in Creators : Preflight(e, t)
      PROVE  UNCHANGED mishaps \/ \E kind : GoesWrong(kind)
  BY <1>3 DEF Pay, ApplyExtension, Persist, RefundExtension, Preflight, GoOn
<1>4. ASSUME OwnerDeletes \/ SweepSelect \/ SweepDelete \/ Tick \/ (\E p \in Replicas : Crash(p)) \/ UNCHANGED tunnelVars
      PROVE  UNCHANGED mishaps \/ \E kind : GoesWrong(kind)
  BY <1>4 DEF OwnerDeletes, SweepSelect, SweepDelete, Tick, Crash
<1> QED
  BY <1>0, <1>1, <1>2, <1>3, <1>4 DEF TunnelNext

\* The authorization is spent once, by a settlement.
LEMMA SpentOnce ==
  ASSUME [TunnelNext]_tunnelVars
  PROVE  \/ charged' = charged
         \/ \E q \in Creators :
              /\ Settle(q) /\ charged = Nothing /\ charged' = work[q].tunnel
              /\ Go(q, "stamp") \/ "settlement_answer_lost" \in mishaps'
<1>1. ASSUME NEW r \in Creators, Create(r), charged' # charged
      PROVE  /\ Settle(r) /\ charged = Nothing /\ charged' = work[r].tunnel
             /\ Go(r, "stamp") \/ "settlement_answer_lost" \in mishaps'
  <2>1. Settle(r)
    BY <1>1 DEF Create, Enter, Find, Verify, MintLease, Insert, Cancel, Recheck, RevokeUnpaid,
                DeleteUnpaid, Stamp, Recover, Resync, RevokeOrphan, Reread
  <2> QED
    BY <1>1, <2>1 DEF Settle, Settles, GoesWrong
<1>2. ASSUME NEW t \in Creators, OwnerRevokes(t) \/ SweepRevoke(t) \/ LoseLease(t) PROVE charged' = charged
  BY <1>2 DEF OwnerRevokes, SweepRevoke, LoseLease
<1>3. ASSUME NEW e \in Extenders, \/ Pay(e) \/ ApplyExtension(e) \/ Persist(e) \/ RefundExtension(e)
                                  \/ \E t \in Creators : Preflight(e, t)
      PROVE  charged' = charged
  BY <1>3 DEF Pay, ApplyExtension, Persist, RefundExtension, Preflight, GoOn
<1>4. CASE OwnerDeletes \/ SweepSelect \/ SweepDelete \/ Tick \/ (\E p \in Replicas : Crash(p)) \/ UNCHANGED tunnelVars
  BY <1>4 DEF OwnerDeletes, SweepSelect, SweepDelete, Tick, Crash
<1> QED
  BY <1>1, <1>2, <1>3, <1>4 DEF TunnelNext

\* Once the authorization is on two replicas it stays so.
LEMMA OneReplicaBefore ==
  ASSUME TunnelTypes, WorkInPlace, KeyInPlace, [TunnelNext]_tunnelVars, OnOneReplica'
  PROVE  OnOneReplica
<1>1. CASE work' = work
  BY <1>1 DEF OnOneReplica
<1>2. ASSUME NEW p \in Replicas, Crash(p) PROVE OnOneReplica
  BY <1>2, CrashEnds DEF OnOneReplica
<1>3. ASSUME NEW r \in Creators, WorkGoesOn(r) PROVE OnOneReplica
  <2>1. ASSUME NEW q \in Creators, work[q].replica # Nothing PROVE work'[q].replica = work[q].replica
    BY <1>3, <2>1 DEF WorkGoesOn, WorkInPlace
  <2> QED
    BY <2>1 DEF OnOneReplica
<1> QED
  BY <1>1, <1>2, <1>3, WhoGoesOn

\* On one replica nobody joins a request that is creating, and whoever settles for a tunnel
\* stamps it.
LEMMA UndisturbedStep ==
  ASSUME TunnelTypes, WorkInPlace, KeyInPlace, Undisturbed, [TunnelNext]_tunnelVars
  PROVE  Undisturbed'
<1> SUFFICES ASSUME OnOneReplica'
             PROVE  \A r \in Creators :
                      /\ work'[r].at \in Creating => \A q \in Creators \ {r} : work'[q].tunnel # r
                      /\ charged' = r /\ "settlement_answer_lost" \notin mishaps'
                           => work'[r].at \in {"stamp", "answered", "failed"}
  BY DEF Undisturbed
<1>0. OnOneReplica /\ mishaps \subseteq mishaps'
  BY OneReplicaBefore, MishapsGrow
<1>1. ASSUME NEW r \in Creators
      PROVE  /\ work[r].at \in Creating => \A q \in Creators \ {r} : work[q].tunnel # r
             /\ charged = r /\ "settlement_answer_lost" \notin mishaps
                  => work[r].at \in {"stamp", "answered", "failed"}
  BY <1>0 DEF Undisturbed
<1>2. /\ "failed" \notin Busy \cup Creating \cup {"new", "mint"} /\ "answered" \notin Busy \cup {"new"}
      /\ "stamp" \notin Creating \cup {"mint"} /\ Creating \subseteq Busy /\ "mint" \notin Inserted
      /\ Inserted \ Creating \subseteq {"stamp", "answered", "failed"} /\ "stamp" \in Inserted
      /\ {"find", "conflict"} \subseteq Busy /\ Inserted \subseteq Creating \cup {"stamp", "answered", "failed"}
      /\ "settle" \in Creating
  BY DEF Busy, Creating, Inserted
<1>3. ASSUME NEW r \in Creators, work'[r].at \in Creating, NEW q \in Creators \ {r}
      PROVE  work'[q].tunnel # r
  <2>1. CASE work' = work
    BY <1>1, <1>3, <2>1
  <2>2. ASSUME NEW p \in Replicas, Crash(p) PROVE work'[q].tunnel # r
    BY <1>1, <1>2, <1>3, <2>2, CrashEnds
  <2>3. ASSUME NEW s \in Creators, WorkGoesOn(s) PROVE work'[q].tunnel # r
    <3>1. CASE s = r
      <4>1. work[r].at \in Creating \/ work[r].at = "mint"
        BY <1>3, <2>3, <3>1 DEF WorkGoesOn
      <4>2. work[q].tunnel # r
        BY <1>1, <1>2, <4>1 DEF WorkInPlace
      <4> QED
        BY <2>3, <3>1, <4>2 DEF WorkGoesOn
    <3>2. CASE s # r
      <4>1. work[r].at \in Creating /\ work[q].tunnel # r
        BY <1>1, <1>3, <2>3, <3>2 DEF WorkGoesOn
      <4>2. CASE s = q
        <5>1. ASSUME work[s].at \in {"find", "conflict"} PROVE FALSE
          <6>1. work[s].at \in Busy /\ work[r].at \in Busy
            BY <1>2, <4>1, <5>1
          <6>2. work[s].replica = work[r].replica
            BY <1>0, <6>1 DEF WorkInPlace, OnOneReplica
          <6> QED
            BY <3>2, <6>1, <6>2 DEF WorkInPlace
        <5> QED
          BY <2>3, <3>2, <4>1, <4>2, <5>1 DEF WorkGoesOn
      <4> QED
        BY <2>3, <4>1, <4>2 DEF WorkGoesOn
    <3> QED
      BY <3>1, <3>2
  <2> QED
    BY <2>1, <2>2, <2>3, WhoGoesOn
<1>4. ASSUME NEW r \in Creators, charged' = r, "settlement_answer_lost" \notin mishaps'
      PROVE  work'[r].at \in {"stamp", "answered", "failed"}
  <2>1. CASE charged' = charged
    <3>0. work[r].at \in {"stamp", "answered", "failed"}
      BY <1>0, <1>1, <1>4, <2>1
    <3>1. CASE work' = work
      BY <3>0, <3>1
    <3>2. ASSUME NEW p \in Replicas, Crash(p) PROVE work'[r].at \in {"stamp", "answered", "failed"}
      BY <3>0, <3>2, CrashEnds
    <3>3. ASSUME NEW s \in Creators, WorkGoesOn(s) PROVE work'[r].at \in {"stamp", "answered", "failed"}
      <4>1. CASE s # r
        BY <3>0, <3>3, <4>1 DEF WorkGoesOn
      <4>2. CASE s = r
        BY <1>2, <3>0, <3>3, <4>2 DEF WorkGoesOn
      <4> QED
        BY <4>1, <4>2
    <3> QED
      BY <3>1, <3>2, <3>3, WhoGoesOn
  <2>2. ASSUME NEW q \in Creators, Settle(q), charged' = work[q].tunnel, Go(q, "stamp")
        PROVE  work'[r].at \in {"stamp", "answered", "failed"}
    <3>1. work'[q].at = "stamp" /\ \A s \in Creators : s # q => work'[s] = work[s]
      BY <2>2, Went DEF Busy
    <3>2. CASE q # r
      <4>1. work[r].at \in Inserted /\ work[r].at \notin Creating
        BY <1>1, <1>4, <2>2, <3>2 DEF WorkInPlace
      <4> QED
        BY <1>2, <3>1, <3>2, <4>1
    <3> QED
      BY <3>1, <3>2
  <2> QED
    BY <1>4, <2>1, <2>2, SpentOnce
<1> QED
  BY <1>3, <1>4

----------------------------------------------------------------------------
(* Extensions.                                                             *)

\* An extension of the tunnel t goes on, with what it does to the books.
Books(t, bought, refunded) ==
    /\ account'[t].bought = account[t].bought + bought
    /\ account'[t].refunded = account[t].refunded + refunded
ExtensionGoesOn(e, t) ==
    /\ \A f \in Extenders : f # e => extend'[f] = extend[f]
    /\ extend'[e].tunnel = t /\ (extend[e].at # "new" => extend[e].tunnel = t)
    /\ \A u \in Creators \ {t} : account'[u] = account[u]
    /\ account'[t].sold = account[t].sold
    /\ \/ extend[e].at = "new" /\ extend'[e].at = "pay" /\ Managed(t) /\ Books(t, 0, 0)
       \/ extend[e].at = "pay" /\ extend'[e].at = "apply" /\ Books(t, 1, 0)
       \/ extend[e].at = "pay" /\ extend'[e].at = "failed" /\ Books(t, 0, 0)
       \/ /\ extend[e].at = "pay" /\ extend'[e].at = "charge_unknown" /\ Books(t, 1, 0)
          /\ "charge_unknown" \in mishaps'
       \/ /\ extend[e].at = "apply" /\ extend'[e].at = "persist" /\ Books(t, 0, 0)
          /\ Live(t) /\ ExtendLease(t) /\ extend'[e].until = lease[t].expires + 1 /\ row' = row
       \/ extend[e].at \in {"apply", "persist"} /\ extend'[e].at = "refund" /\ Books(t, 0, 0)
       \/ /\ extend[e].at = "persist" /\ extend'[e].at = "done" /\ Books(t, 0, 0)
          /\ extend'[e].until = extend[e].until /\ extend[e].until <= row'[t].expires
       \/ extend[e].at = "refund" /\ extend'[e].at = "failed" /\ Books(t, 0, 1)
       \/ /\ extend[e].at = "refund" /\ extend'[e].at = "refund_unwritten" /\ Books(t, 0, 0)
          /\ "refund_unwritten" \in mishaps'

\* The books are right for a tunnel whatever is added to them.
LEMMA BooksKept ==
  ASSUME TunnelTypes, NEW t \in Creators, NEW a \in SaleRows, account' = [account EXCEPT ![t] = a]
  PROVE  /\ account' \in [Creators -> SaleRows] /\ account'[t] = a
         /\ \A u \in Creators \ {t} : account'[u] = account[u]
BY DEF TunnelTypes

\* Neither the payment nor the refund of an extension touches anything else in the books.
LEMMA BooksAdded ==
  ASSUME TunnelTypes, NEW t \in Creators
  PROVE  /\ Charge(t) \/ RecordExtendRefund(t) \/ account' = account =>
              /\ account' \in [Creators -> SaleRows] /\ account'[t].sold = account[t].sold
              /\ \A u \in Creators \ {t} : account'[u] = account[u]
         /\ Charge(t) => Books(t, 1, 0)
         /\ RecordExtendRefund(t) => Books(t, 0, 1)
         /\ account' = account => Books(t, 0, 0)
<1>1. account[t] \in SaleRows
  BY DEF TunnelTypes
<1>2. CASE Charge(t)
  <2> DEFINE a == [account[t] EXCEPT !.bought = @ + 1]
  <2>1. /\ a \in SaleRows /\ a.sold = account[t].sold /\ a.bought = account[t].bought + 1
        /\ a.refunded = account[t].refunded + 0
    BY <1>1 DEF SaleRows
  <2>2. account' = [account EXCEPT ![t] = a]
    BY <1>2 DEF Charge
  <2> HIDE DEF a
  <2>3. account' \in [Creators -> SaleRows] /\ account'[t] = a /\ \A u \in Creators \ {t} : account'[u] = account[u]
    BY <2>1, <2>2, BooksKept
  <2>4. ~RecordExtendRefund(t) /\ account' # account
    <3>1. account'[t].refunded # account[t].refunded + 1 /\ account'[t].bought # account[t].bought
      BY <1>1, <2>1, <2>3 DEF SaleRows
    <3>2. RecordExtendRefund(t) => account'[t].refunded = account[t].refunded + 1
      <4>1. RecordExtendRefund(t) => account'[t] = [account[t] EXCEPT !.refunded = @ + 1]
        BY DEF RecordExtendRefund, TunnelTypes
      <4> QED
        BY <1>1, <4>1 DEF SaleRows
    <3> QED
      BY <3>1, <3>2
  <2> QED
    BY <2>1, <2>3, <2>4 DEF Books
<1>3. CASE RecordExtendRefund(t)
  <2> DEFINE a == [account[t] EXCEPT !.refunded = @ + 1]
  <2>1. /\ a \in SaleRows /\ a.sold = account[t].sold /\ a.bought = account[t].bought + 0
        /\ a.refunded = account[t].refunded + 1
    BY <1>1 DEF SaleRows
  <2>2. account' = [account EXCEPT ![t] = a]
    BY <1>3 DEF RecordExtendRefund
  <2> HIDE DEF a
  <2>3. account' \in [Creators -> SaleRows] /\ account'[t] = a /\ \A u \in Creators \ {t} : account'[u] = account[u]
    BY <2>1, <2>2, BooksKept
  <2>4. account' # account /\ ~Charge(t)
    <3>1. account'[t].refunded # account[t].refunded /\ account'[t].bought # account[t].bought + 1
      BY <1>1, <2>1, <2>3 DEF SaleRows
    <3>2. Charge(t) => account'[t].bought = account[t].bought + 1
      <4>1. Charge(t) => account'[t] = [account[t] EXCEPT !.bought = @ + 1]
        BY DEF Charge, TunnelTypes
      <4> QED
        BY <1>1, <4>1 DEF SaleRows
    <3> QED
      BY <3>1, <3>2
  <2> QED
    BY <2>1, <2>3, <2>4 DEF Books
<1>4. CASE ~Charge(t) /\ ~RecordExtendRefund(t)
  BY <1>1, <1>4 DEF Books, TunnelTypes, SaleRows
<1> QED
  BY <1>2, <1>3, <1>4

\* An extension is at another place.
LEMMA ExtensionWent ==
  ASSUME TunnelTypes, NEW e \in Extenders, NEW at \in UnderWay \cup Unbooked \cup {"new", "done", "failed"},
         GoOn(e, at)
  PROVE  /\ extend' \in [Extenders -> ExtendRows] /\ extend'[e].at = at
         /\ extend'[e].tunnel = extend[e].tunnel /\ extend'[e].until = extend[e].until
         /\ \A f \in Extenders : f # e => extend'[f] = extend[f]
<1> DEFINE x == [extend[e] EXCEPT !.at = at]
<1>1. extend[e] \in ExtendRows /\ extend \in [Extenders -> ExtendRows]
  BY DEF TunnelTypes
<1>2. x \in ExtendRows /\ x.at = at /\ x.tunnel = extend[e].tunnel /\ x.until = extend[e].until
  BY <1>1 DEF ExtendRows
<1>3. extend' = [extend EXCEPT ![e] = x]
  BY DEF GoOn
<1> HIDE DEF x
<1> QED
  BY <1>1, <1>2, <1>3

LEMMA ExtensionStep ==
  ASSUME TunnelTypes, WorkInPlace, ExtensionsInStep, NEW e \in Extenders,
         \/ Pay(e) \/ ApplyExtension(e) \/ Persist(e) \/ RefundExtension(e)
         \/ \E t \in Creators : Preflight(e, t)
  PROVE  /\ \E t \in Creators : ExtensionGoesOn(e, t)
         /\ extend' \in [Extenders -> ExtendRows] /\ account' \in [Creators -> SaleRows]
<1> DEFINE t == extend[e].tunnel
           Claim(u) == /\ ExtensionGoesOn(e, u) /\ extend' \in [Extenders -> ExtendRows]
                       /\ account' \in [Creators -> SaleRows]
<1>1. extend[e] \in ExtendRows /\ extend \in [Extenders -> ExtendRows]
  BY DEF TunnelTypes
<1>2. extend[e].at # "new" => t \in Creators
  BY DEF ExtensionsInStep, WorkInPlace
<1>3. ASSUME NEW at \in UnderWay \cup Unbooked \cup {"done", "failed"}, GoOn(e, at)
      PROVE  /\ extend' \in [Extenders -> ExtendRows] /\ extend'[e].at = at
             /\ extend'[e].tunnel = t /\ extend'[e].until = extend[e].until
             /\ \A f \in Extenders : f # e => extend'[f] = extend[f]
  BY <1>3, ExtensionWent
<1>4. ASSUME t \in Creators
      PROVE  /\ Charge(t) \/ RecordExtendRefund(t) \/ account' = account =>
                  /\ account' \in [Creators -> SaleRows] /\ account'[t].sold = account[t].sold
                  /\ \A u \in Creators \ {t} : account'[u] = account[u]
             /\ Charge(t) => Books(t, 1, 0)
             /\ RecordExtendRefund(t) => Books(t, 0, 1)
             /\ account' = account => Books(t, 0, 0)
  <2> HIDE DEF t
  <2> QED
    BY <1>4, BooksAdded
<1>5. {"pay", "apply", "refund", "failed", "charge_unknown", "refund_unwritten", "done"}
        \subseteq UnderWay \cup Unbooked \cup {"done", "failed"}
  BY DEF UnderWay, Unbooked
<1>6. ASSUME NEW u \in Creators, Preflight(e, u) PROVE Claim(u)
  <2>1. [at |-> "pay", tunnel |-> u, until |-> 0] \in ExtendRows
    BY DEF ExtendRows, UnderWay
  <2>2. /\ extend' \in [Extenders -> ExtendRows] /\ extend'[e].at = "pay" /\ extend'[e].tunnel = u
        /\ \A f \in Extenders : f # e => extend'[f] = extend[f]
    BY <1>1, <1>6, <2>1 DEF Preflight
  <2>3. account' = account /\ extend[e].at = "new" /\ Managed(u)
    BY <1>6 DEF Preflight
  <2> QED
    BY <2>2, <2>3 DEF ExtensionGoesOn, Books, TunnelTypes, SaleRows
<1>7. ASSUME Pay(e) PROVE Claim(t) /\ t \in Creators
  <2>0. t \in Creators /\ extend[e].at = "pay"
    BY <1>2, <1>7 DEF Pay
  <2>1. \/ Charge(t) /\ GoOn(e, "apply")
        \/ account' = account /\ GoOn(e, "failed")
        \/ "charge_unknown" \in mishaps' /\ Charge(t) /\ GoOn(e, "charge_unknown")
    BY <1>7 DEF Pay, GoesWrong
  <2> QED
    BY <1>3, <1>4, <1>5, <2>0, <2>1 DEF ExtensionGoesOn
<1>8. ASSUME ApplyExtension(e) PROVE Claim(t) /\ t \in Creators
  <2>0. t \in Creators /\ extend[e].at = "apply" /\ row' = row /\ account' = account
    BY <1>2, <1>8 DEF ApplyExtension
  <2>1. CASE GoOn(e, "refund")
    BY <1>3, <1>4, <1>5, <2>0, <2>1 DEF ExtensionGoesOn
  <2>2. CASE /\ Live(t) /\ ExtendLease(t)
             /\ extend' = [extend EXCEPT ![e].at = "persist", ![e].until = lease[t].expires + 1]
    <3> DEFINE x == [extend[e] EXCEPT !.at = "persist", !.until = lease[t].expires + 1]
    <3>1. lease[t].expires + 1 \in Nat
      BY <2>0, TunnelFields
    <3>2. x \in ExtendRows /\ x.at = "persist" /\ x.until = lease[t].expires + 1 /\ x.tunnel = t
      BY <1>1, <3>1 DEF ExtendRows, UnderWay
    <3>3. extend' = [extend EXCEPT ![e] = x]
      BY <2>2
    <3> HIDE DEF x
    <3>4. extend' \in [Extenders -> ExtendRows] /\ extend'[e] = x /\ \A f \in Extenders : f # e => extend'[f] = extend[f]
      BY <1>1, <3>2, <3>3
    <3> QED
      BY <1>4, <2>0, <2>2, <3>2, <3>4 DEF ExtensionGoesOn
  <2> QED
    BY <1>8, <2>1, <2>2 DEF ApplyExtension
<1>9. ASSUME Persist(e) PROVE Claim(t) /\ t \in Creators
  <2>0. t \in Creators /\ extend[e].at = "persist" /\ account' = account
    BY <1>2, <1>9 DEF Persist
  <2>1. CASE GoOn(e, "refund")
    BY <1>3, <1>4, <1>5, <2>0, <2>1 DEF ExtensionGoesOn
  <2>2. CASE /\ GoOn(e, "done")
             /\ row' = IF row[t].expires < extend[e].until
                       THEN [row EXCEPT ![t].expires = extend[e].until] ELSE row
    <3>1. row[t] \in RowRows /\ extend[e].until \in Nat /\ row[t].expires \in Nat
      BY <2>0, TunnelFields DEF TunnelTypes
    <3>2. row'[t].expires \in Nat /\ extend[e].until <= row'[t].expires
      <4>1. CASE row[t].expires < extend[e].until
        <5>1. row'[t] = [row[t] EXCEPT !.expires = extend[e].until]
          BY <2>0, <2>2, <4>1 DEF TunnelTypes
        <5> QED
          BY <3>1, <5>1 DEF RowRows
      <4>2. CASE ~(row[t].expires < extend[e].until)
        BY <2>2, <3>1, <4>2
      <4> QED
        BY <4>1, <4>2
    <3> QED
      BY <1>3, <1>4, <1>5, <2>0, <2>2, <3>2 DEF ExtensionGoesOn
  <2> QED
    BY <1>9, <2>1, <2>2 DEF Persist
<1>10. ASSUME RefundExtension(e) PROVE Claim(t) /\ t \in Creators
  <2>0. t \in Creators /\ extend[e].at = "refund"
    BY <1>2, <1>10 DEF RefundExtension
  <2>1. \/ RecordExtendRefund(t) /\ GoOn(e, "failed")
        \/ "refund_unwritten" \in mishaps' /\ account' = account /\ GoOn(e, "refund_unwritten")
    BY <1>10 DEF RefundExtension, GoesWrong
  <2> QED
    BY <1>3, <1>4, <1>5, <2>0, <2>1 DEF ExtensionGoesOn
<1> QED
  BY <1>6, <1>7, <1>8, <1>9, <1>10

\* Extensions that nobody works on stay where they are, or end with their replica: one that is
\* charged by then is lost.
ExtensionsStay ==
    \A e \in Extenders :
      /\ extend'[e].tunnel = extend[e].tunnel /\ extend'[e].until = extend[e].until
      /\ \/ extend'[e] = extend[e]
         \/ extend[e].at = "pay" /\ extend'[e].at = "failed"
         \/ /\ extend[e].at \in {"apply", "persist", "refund"} /\ extend'[e].at = "crash"
            /\ "crash" \in mishaps'

LEMMA CrashExtensions ==
  ASSUME TunnelTypes, NEW p \in Replicas, Crash(p)
  PROVE  ExtensionsStay /\ extend' \in [Extenders -> ExtendRows] /\ account' = account
<1>1. PICK dead \in SUBSET {e \in Extenders : extend[e].at \in UnderWay} :
        /\ extend' = [e \in Extenders |->
             IF e \notin dead THEN extend[e]
             ELSE [extend[e] EXCEPT !.at = IF @ = "pay" THEN "failed" ELSE "crash"]]
        /\ account' = account /\ "crash" \in mishaps'
  BY DEF Crash, GoesWrong
<1>2. ASSUME NEW e \in Extenders
      PROVE  /\ extend'[e] \in ExtendRows
             /\ extend'[e].tunnel = extend[e].tunnel /\ extend'[e].until = extend[e].until
             /\ \/ extend'[e] = extend[e]
                \/ extend[e].at = "pay" /\ extend'[e].at = "failed"
                \/ extend[e].at \in {"apply", "persist", "refund"} /\ extend'[e].at = "crash"
  <2> DEFINE at == IF extend[e].at = "pay" THEN "failed" ELSE "crash"
             x == [extend[e] EXCEPT !.at = at]
  <2>1. extend[e] \in ExtendRows
    BY DEF TunnelTypes
  <2>2. at \in UnderWay \cup Unbooked \cup {"new", "done", "failed"}
    BY DEF Unbooked
  <2>3. x \in ExtendRows /\ x.at = at /\ x.tunnel = extend[e].tunnel /\ x.until = extend[e].until
    BY <2>1, <2>2 DEF ExtendRows
  <2>4. extend'[e] = extend[e] \/ (extend'[e] = x /\ extend[e].at \in UnderWay)
    BY <1>1
  <2> HIDE DEF x
  <2> QED
    BY <2>1, <2>3, <2>4 DEF UnderWay
<1>3. extend' \in [Extenders -> ExtendRows]
  BY <1>1, <1>2
<1> QED
  BY <1>1, <1>2, <1>3 DEF ExtensionsStay

\* What else changes the books: the sale of a tunnel.
LEMMA BooksElse ==
  ASSUME TunnelTypes, [TunnelNext]_tunnelVars,
         ~ \E e \in Extenders : \/ Pay(e) \/ ApplyExtension(e) \/ Persist(e) \/ RefundExtension(e)
                                \/ \E t \in Creators : Preflight(e, t)
  PROVE  /\ ExtensionsStay /\ extend' \in [Extenders -> ExtendRows] /\ account' \in [Creators -> SaleRows]
         /\ \A t \in Creators : /\ Books(t, 0, 0)
                                /\ \/ account'[t].sold = account[t].sold
                                   \/ Insert(t) /\ Go(t, "settle")
<1>0. ASSUME account' = account PROVE \A t \in Creators : Books(t, 0, 0) /\ account'[t].sold = account[t].sold
  BY <1>0 DEF TunnelTypes, Books, SaleRows
<1>1. ASSUME NEW r \in Creators, Insert(r), account' # account
      PROVE  /\ extend' = extend /\ account' \in [Creators -> SaleRows]
             /\ \A t \in Creators : /\ Books(t, 0, 0)
                                    /\ \/ account'[t].sold = account[t].sold
                                       \/ Insert(t) /\ Go(t, "settle")
  <2> DEFINE a == [account[r] EXCEPT !.sold = work[r].until]
  <2>1. account' = [account EXCEPT ![r].sold = work[r].until] /\ Go(r, "settle") /\ extend' = extend
    BY <1>1 DEF Insert
  <2>2. account[r] \in SaleRows /\ work[r].until \in Nat
    BY TunnelFields DEF TunnelTypes
  <2>3. a \in SaleRows /\ a.bought = account[r].bought + 0 /\ a.refunded = account[r].refunded + 0
    BY <2>2 DEF SaleRows
  <2>4. account' = [account EXCEPT ![r] = a]
    BY <2>1
  <2> HIDE DEF a
  <2>5. account' \in [Creators -> SaleRows] /\ account'[r] = a /\ \A u \in Creators \ {r} : account'[u] = account[u]
    BY <2>3, <2>4, BooksKept
  <2>6. \A u \in Creators \ {r} : Books(u, 0, 0)
    BY <2>5 DEF Books, TunnelTypes, SaleRows
  <2>7. Books(r, 0, 0)
    BY <2>3, <2>5 DEF Books
  <2> QED
    BY <1>1, <2>1, <2>5, <2>6, <2>7
<1>2. ASSUME NEW r \in Creators, Create(r) PROVE extend' = extend /\ (account' = account \/ Insert(r))
  BY <1>2 DEF Create, Enter, Find, Verify, MintLease, Cancel, Settle, Recheck, RevokeUnpaid,
              DeleteUnpaid, Stamp, Recover, Resync, RevokeOrphan, Reread, Insert
<1>3. ASSUME NEW t \in Creators, OwnerRevokes(t) \/ SweepRevoke(t) \/ LoseLease(t)
      PROVE  extend' = extend /\ account' = account
  BY <1>3 DEF OwnerRevokes, SweepRevoke, LoseLease
<1>4. ASSUME OwnerDeletes \/ SweepSelect \/ SweepDelete \/ Tick \/ UNCHANGED tunnelVars
      PROVE  extend' = extend /\ account' = account
  BY <1>4 DEF OwnerDeletes, SweepSelect, SweepDelete, Tick
<1>6. ASSUME NEW p \in Replicas, Crash(p)
      PROVE  ExtensionsStay /\ extend' \in [Extenders -> ExtendRows] /\ account' = account
  BY <1>6, CrashExtensions
<1>7. extend' = extend => ExtensionsStay /\ extend' \in [Extenders -> ExtendRows]
  BY DEF ExtensionsStay, TunnelTypes
<1>5. account' = account => account' \in [Creators -> SaleRows]
  BY DEF TunnelTypes
<1>8. CASE \E r \in Creators : Insert(r) /\ account' # account
  BY <1>1, <1>7, <1>8
<1>9. CASE ~ \E r \in Creators : Insert(r) /\ account' # account
  <2>1. account' = account /\ (extend' = extend \/ \E p \in Replicas : Crash(p))
    <3>1. CASE \E r \in Creators : Create(r)
      BY <1>2, <1>9, <3>1
    <3> QED
      BY <1>3, <1>4, <1>6, <3>1 DEF TunnelNext
  <2>2. ExtensionsStay /\ extend' \in [Extenders -> ExtendRows]
    BY <1>6, <1>7, <2>1
  <2> QED
    BY <1>0, <1>5, <2>1, <2>2
<1> QED
  BY <1>8, <1>9

\* An answer is final.
LEMMA AnsweredStays ==
  ASSUME TunnelTypes, WorkInPlace, KeyInPlace, [TunnelNext]_tunnelVars,
         NEW r \in Creators, work[r].at = "answered"
  PROVE  work'[r] = work[r]
<1>1. "answered" \notin Busy \cup {"new"}
  BY DEF Busy
<1>2. ASSUME NEW s \in Creators, WorkGoesOn(s) PROVE work'[r] = work[r]
  BY <1>1, <1>2 DEF WorkGoesOn
<1>3. ASSUME NEW p \in Replicas, Crash(p) PROVE work'[r] = work[r]
  BY <1>1, <1>3, CrashEnds
<1> QED
  BY <1>2, <1>3, WhoGoesOn

\* The books stay in step with the extensions that are under way.
LEMMA ExtensionsStep ==
  ASSUME TunnelTypes, WorkInPlace, KeyInPlace, ExtensionsInStep, [TunnelNext]_tunnelVars
  PROVE  ExtensionsInStep'
<1> DEFINE Extending(e) == \/ Pay(e) \/ ApplyExtension(e) \/ Persist(e) \/ RefundExtension(e)
                           \/ \E t \in Creators : Preflight(e, t)
<1>1. ASSUME NEW e \in Extenders, extend'[e].at # "new"
      PROVE  \E r \in Creators : work'[r].at = "answered" /\ work'[r].tunnel = extend'[e].tunnel
  <2>1. \E r \in Creators : work[r].at = "answered" /\ work[r].tunnel = extend'[e].tunnel
    <3>1. ASSUME NEW f \in Extenders, Extending(f)
          PROVE  \E r \in Creators : work[r].at = "answered" /\ work[r].tunnel = extend'[e].tunnel
      <4>1. PICK t \in Creators : ExtensionGoesOn(f, t)
        BY <3>1, ExtensionStep
      <4>2. CASE e # f
        BY <1>1, <4>1, <4>2 DEF ExtensionGoesOn, ExtensionsInStep
      <4>3. CASE e = f
        BY <4>1, <4>3 DEF ExtensionGoesOn, ExtensionsInStep, Managed
      <4> QED
        BY <4>2, <4>3
    <3>2. CASE ~ \E f \in Extenders : Extending(f)
      BY <1>1, <3>2, BooksElse DEF ExtensionsInStep, ExtensionsStay
    <3> QED
      BY <3>1, <3>2
  <2> QED
    BY <2>1, AnsweredStays
<1>2. ASSUME NEW t \in Creators PROVE account'[t].bought - account'[t].refunded = Cardinality(Bought(t)')
  <2>1. /\ account[t].bought - account[t].refunded = Cardinality(Bought(t))
        /\ account[t].bought \in Nat /\ account[t].refunded \in Nat
    BY TunnelFields DEF ExtensionsInStep
  <2>2. IsFiniteSet(Bought(t)) /\ Cardinality(Bought(t)) \in Nat
    BY ExtendersAreFinite, FS_Subset, FS_CardinalityType DEF Bought, Lost
  <2>3. ASSUME NEW f \in Extenders, Extending(f)
        PROVE  account'[t].bought - account'[t].refunded = Cardinality(Bought(t)')
    <3>1. PICK u \in Creators : ExtensionGoesOn(f, u)
      BY <2>3, ExtensionStep
    <3>2. CASE u # t
      <4>1. Bought(t)' = Bought(t)
        <5>1. extend'[f].tunnel = u /\ (extend[f].at # "new" => extend[f].tunnel = u)
              /\ \A g \in Extenders : g # f => extend'[g] = extend[g]
          BY <3>1 DEF ExtensionGoesOn
        <5> QED
          BY <3>2, <5>1 DEF Bought, Lost, Unbooked
      <4>2. account'[t] = account[t]
        BY <3>1, <3>2 DEF ExtensionGoesOn
      <4> QED
        BY <2>1, <4>1, <4>2
    <3>3. CASE u = t
      <4>0. extend'[f].tunnel = t /\ (extend[f].at # "new" => extend[f].tunnel = t)
            /\ \A g \in Extenders : g # f => extend'[g] = extend[g]
        BY <3>1, <3>3 DEF ExtensionGoesOn
      <4>1. CASE Books(t, 0, 0) /\ (f \in Bought(t) <=> f \in Bought(t)')
        <5>1. Bought(t)' = Bought(t)
          BY <4>0, <4>1 DEF Bought, Lost
        <5> QED
          BY <2>1, <4>1, <5>1 DEF Books
      <4>2. CASE /\ extend[f].at = "pay" /\ extend'[f].at \in {"apply", "charge_unknown"}
                 /\ Books(t, 1, 0)
        <5>1. Bought(t)' = Bought(t) \cup {f} /\ f \notin Bought(t)
          BY <4>0, <4>2 DEF Bought, Lost, Unbooked
        <5>2. Cardinality(Bought(t)') = Cardinality(Bought(t)) + 1
          BY <2>2, <5>1, FS_AddElement
        <5> QED
          BY <2>1, <2>2, <4>2, <5>2 DEF Books
      <4>3. CASE extend[f].at = "refund" /\ extend'[f].at = "failed" /\ Books(t, 0, 1)
        <5>1. Bought(t)' = Bought(t) \ {f} /\ f \in Bought(t)
          BY <4>0, <4>3 DEF Bought, Lost, Unbooked
        <5>2. Cardinality(Bought(t)') = Cardinality(Bought(t)) - 1
          BY <2>2, <5>1, FS_RemoveElement
        <5> QED
          BY <2>1, <2>2, <4>3, <5>2 DEF Books
      <4>4. CASE /\ Books(t, 0, 0)
                 /\ \/ extend[f].at = "new" /\ extend'[f].at = "pay"
                    \/ extend[f].at = "pay" /\ extend'[f].at = "failed"
                    \/ /\ extend[f].at \in {"apply", "persist", "refund"}
                       /\ extend'[f].at \in {"persist", "refund", "done", "refund_unwritten"}
        <5>1. f \in Bought(t) <=> f \in Bought(t)'
          BY <4>0, <4>4 DEF Bought, Lost, Unbooked
        <5> QED
          BY <4>1, <4>4, <5>1
      <4> QED
        BY <3>1, <3>3, <4>2, <4>3, <4>4 DEF ExtensionGoesOn
    <3> QED
      BY <3>2, <3>3
  <2>4. CASE ~ \E f \in Extenders : Extending(f)
    <3>1. ExtensionsStay /\ Books(t, 0, 0)
      BY <2>4, BooksElse
    <3>2. Bought(t)' = Bought(t)
      BY <3>1 DEF Bought, Lost, Unbooked, ExtensionsStay
    <3> QED
      BY <2>1, <3>1, <3>2 DEF Books
  <2> QED
    BY <2>3, <2>4
<1>3. ASSUME NEW e \in Extenders, extend'[e].at \in Unbooked PROVE extend'[e].at \in mishaps'
  <2>0. mishaps \subseteq mishaps' /\ (extend[e].at \in Unbooked => extend[e].at \in mishaps)
    BY MishapsGrow DEF ExtensionsInStep
  <2>1. ASSUME NEW f \in Extenders, Extending(f) PROVE extend'[e].at \in mishaps'
    <3>1. PICK u \in Creators : ExtensionGoesOn(f, u)
      BY <2>1, ExtensionStep
    <3>2. CASE e # f
      BY <1>3, <2>0, <3>1, <3>2 DEF ExtensionGoesOn
    <3>3. CASE e = f
      BY <1>3, <3>1, <3>3 DEF ExtensionGoesOn, Unbooked
    <3> QED
      BY <3>2, <3>3
  <2>2. CASE ~ \E f \in Extenders : Extending(f)
    <3>1. ExtensionsStay
      BY <2>2, BooksElse
    <3> QED
      BY <1>3, <2>0, <3>1 DEF ExtensionsStay, Unbooked
  <2> QED
    BY <2>1, <2>2
<1> QED
  BY <1>1, <1>2, <1>3 DEF ExtensionsInStep

----------------------------------------------------------------------------
(* Leases.                                                                 *)

\* What a step may do to the lease of a tunnel, and for which reasons it is dropped.
Dropped(t) ==
    /\ lease'[t].token = 0
    /\ \/ work[t].at = "cancel" \/ work'[t].at = "delete" \/ owner'.tunnel = t
       \/ swept'.revoked = t
       \/ \E r \in Creators : work[r].at = "orphan" /\ work[r].tunnel = t
       \/ "lease_lost" \in mishaps' \/ "revocation_lost" \in mishaps'
       \/ lease[t].expires <= now'
Remade(t) == \E r \in Creators :
    /\ work[r].at = "recover" /\ work[r].tunnel = t /\ ~Live(t)
    /\ lease'[t].expires = IF row[t].expires > now THEN row[t].expires ELSE now + 1
LeaseGoesOn(t) == \/ lease'[t] = lease[t]
                  \/ Dropped(t)
                  \/ work[t].at = "mint"
                  \/ Remade(t)
                  \/ Live(t) /\ lease'[t].token # 0 /\ lease'[t].expires = lease[t].expires + 1
LeasesTyped == lease' \in [Creators -> LeaseRows] /\ minted' \in [Creators -> Nat]

LEMMA LeaseRevoked ==
  ASSUME TunnelTypes, NEW t \in Creators, NEW ok \in BOOLEAN, Revoked(t, ok),
         ok => \/ work[t].at = "cancel" \/ work'[t].at = "delete" \/ owner'.tunnel = t
               \/ swept'.revoked = t
               \/ \E r \in Creators : work[r].at = "orphan" /\ work[r].tunnel = t
  PROVE  LeasesTyped /\ \A u \in Creators : LeaseGoesOn(u)
<1>1. LeasesTyped
  BY RevokeTakes DEF LeasesTyped, TunnelTypes
<1>2. \A u \in Creators : u # t => LeaseGoesOn(u)
  BY RevokeTakes DEF LeaseGoesOn
<1>3. /\ ok => lease'[t].token = 0
      /\ ~ok => lease' = lease \/ (lease'[t].token = 0 /\ "revocation_lost" \in mishaps')
  BY RevokeTakes
<1>4. lease'[t].token = 0 /\ (ok \/ "revocation_lost" \in mishaps') => Dropped(t)
  BY DEF Dropped
<1>5. lease' = lease => LeaseGoesOn(t)
  BY DEF LeaseGoesOn
<1>6. Dropped(t) => LeaseGoesOn(t)
  BY DEF LeaseGoesOn
<1> QED
  BY <1>1, <1>2, <1>3, <1>4, <1>5, <1>6, Zenon

LEMMA LeaseStays ==
  ASSUME TunnelTypes, UNCHANGED daemon
  PROVE  LeasesTyped /\ \A u \in Creators : LeaseGoesOn(u)
BY DEF LeasesTyped, LeaseGoesOn, TunnelTypes

LEMMA LeaseLonger ==
  ASSUME TunnelTypes, NEW t \in Creators, Live(t), ExtendLease(t), minted' = minted
  PROVE  LeasesTyped /\ \A u \in Creators : LeaseGoesOn(u)
<1> DEFINE x == [lease[t] EXCEPT !.expires = @ + 1]
<1>1. lease[t] \in LeaseRows
  BY DEF TunnelTypes
<1>2. x \in LeaseRows /\ x.token = lease[t].token /\ x.expires = lease[t].expires + 1
  BY <1>1 DEF LeaseRows
<1>3. lease' = [lease EXCEPT ![t] = x]
  BY DEF ExtendLease
<1> HIDE DEF x
<1>4. lease' \in [Creators -> LeaseRows] /\ lease'[t] = x /\ \A u \in Creators : u # t => lease'[u] = lease[u]
  BY <1>2, <1>3 DEF TunnelTypes
<1> QED
  BY <1>2, <1>4 DEF LeasesTyped, LeaseGoesOn, TunnelTypes

LEMMA LeaseStep ==
  ASSUME TunnelTypes, WorkInPlace, KeyInPlace, ExtensionsInStep, [TunnelNext]_tunnelVars
  PROVE  LeasesTyped /\ \A u \in Creators : LeaseGoesOn(u)
<1> DEFINE Claim == LeasesTyped /\ \A u \in Creators : LeaseGoesOn(u)
<1> SUFFICES Claim
  OBVIOUS
<1> HIDE DEF Claim
<1>1. ASSUME NEW r \in Creators, Create(r) PROVE Claim
  <2>1. CASE MintLease(r)
    <3>0. work[r].at = "mint" /\ now + terms[r] \in Nat
      BY <2>1, TunnelFields DEF MintLease
    <3>1. CASE Mint(r, now + terms[r])
      <4> HIDE DEF Mint
      <4>1. /\ lease' \in [Creators -> LeaseRows] /\ minted' \in [Creators -> Nat]
            /\ \A u \in Creators : u # r => lease'[u] = lease[u]
        BY <3>0, <3>1, MintMakes
      <4> QED
        BY <3>0, <4>1 DEF Claim, LeasesTyped, LeaseGoesOn
    <3>2. CASE UNCHANGED daemon
      BY <3>2, LeaseStays DEF Claim
    <3> QED
      BY <2>1, <3>1, <3>2 DEF MintLease
  <2>2. CASE Recover(r)
    <3> DEFINE t == work[r].tunnel
               until == IF row[t].expires > now THEN row[t].expires ELSE now + 1
    <3>0. t \in Creators /\ work[r].at = "recover"
      BY <2>2 DEF Recover, WorkInPlace, Replaying
    <3>1. until \in Nat
      BY <3>0, TunnelFields
    <3>2. CASE Mint(t, until)
      <4>1. /\ lease' \in [Creators -> LeaseRows] /\ minted' \in [Creators -> Nat]
            /\ \A u \in Creators : u # t => lease'[u] = lease[u]
            /\ Live(t) => lease'[t] = lease[t]
            /\ ~Live(t) => lease'[t].expires = until
        <5> HIDE DEF t, until
        <5> QED
          BY <3>0, <3>1, <3>2, MintMakes
      <4>2. ~Live(t) => Remade(t)
        BY <3>0, <4>1 DEF Remade
      <4> QED
        BY <4>1, <4>2 DEF Claim, LeasesTyped, LeaseGoesOn
    <3>3. CASE UNCHANGED daemon
      BY <3>3, LeaseStays DEF Claim
    <3> QED
      BY <2>2, <3>2, <3>3 DEF Recover
  <2>3. CASE Cancel(r)
    <3>1. work[r].at = "cancel" /\ \E ok \in BOOLEAN : Revoked(r, ok)
      BY <2>3 DEF Cancel
    <3> QED
      BY <3>1, LeaseRevoked DEF Claim
  <2>4. CASE RevokeUnpaid(r)
    <3>1. PICK ok \in BOOLEAN : Revoked(r, ok) /\ Go(r, IF ok THEN "delete" ELSE "failed")
      BY <2>4 DEF RevokeUnpaid
    <3>2. ok => work'[r].at = "delete"
      BY <3>1, Went DEF Busy
    <3> QED
      BY <3>1, <3>2, LeaseRevoked DEF Claim
  <2>5. CASE RevokeOrphan(r)
    <3>1. work[r].at = "orphan" /\ \E ok \in BOOLEAN : Revoked(work[r].tunnel, ok)
      BY <2>5 DEF RevokeOrphan
    <3>2. work[r].tunnel \in Creators
      BY <3>1 DEF WorkInPlace, Replaying
    <3> QED
      BY <3>1, <3>2, LeaseRevoked DEF Claim
  <2>6. CASE \/ (\E p \in Replicas : Enter(r, p)) \/ Find(r) \/ Verify(r) \/ Insert(r) \/ Settle(r)
             \/ Recheck(r) \/ DeleteUnpaid(r) \/ Stamp(r) \/ Resync(r) \/ Reread(r)
    <3>1. UNCHANGED daemon
      BY <2>6 DEF Enter, Find, Verify, Insert, Settle, Recheck, DeleteUnpaid, Stamp, Resync, Reread
    <3> QED
      BY <3>1, LeaseStays DEF Claim
  <2> QED
    BY <1>1, <2>1, <2>2, <2>3, <2>4, <2>5, <2>6 DEF Create
<1>2. ASSUME NEW t \in Creators, OwnerRevokes(t) PROVE Claim
  <2>1. owner'.tunnel = t /\ \E ok \in BOOLEAN : Revoked(t, ok)
    BY <1>2 DEF OwnerRevokes
  <2> QED
    BY <2>1, LeaseRevoked DEF Claim
<1>3. ASSUME NEW t \in Creators, SweepRevoke(t) PROVE Claim
  <2>1. PICK ok \in BOOLEAN : Revoked(t, ok) /\ (ok => swept'.revoked = t)
    BY <1>3 DEF SweepRevoke, TunnelTypes
  <2> QED
    BY <2>1, LeaseRevoked DEF Claim
<1>4. ASSUME NEW t \in Creators, LoseLease(t) PROVE Claim
  <2>1. "lease_lost" \in mishaps' /\ lease' = [lease EXCEPT ![t] = NoLease] /\ minted' = minted
    BY <1>4 DEF LoseLease, GoesWrong, RevokeLease
  <2>2. NoLease \in LeaseRows /\ NoLease.token = 0
    BY DEF NoLease, LeaseRows
  <2> QED
    BY <2>1, <2>2 DEF Claim, LeasesTyped, LeaseGoesOn, Dropped, TunnelTypes
<1>5. ASSUME NEW e \in Extenders, ApplyExtension(e) PROVE Claim
  <2>1. extend[e].tunnel \in Creators /\ minted' = minted
    BY <1>5 DEF ApplyExtension, ExtensionsInStep, WorkInPlace
  <2>2. lease' = lease \/ (Live(extend[e].tunnel) /\ ExtendLease(extend[e].tunnel))
    BY <1>5 DEF ApplyExtension
  <2> QED
    BY <2>1, <2>2, LeaseLonger, LeaseStays DEF Claim
<1>6. CASE Tick
  <2>1. /\ lease' = [t \in Creators |-> IF lease[t].expires <= now + 1 THEN NoLease ELSE lease[t]]
        /\ now' = now + 1 /\ minted' = minted
    BY <1>6 DEF Tick
  <2>2. NoLease \in LeaseRows /\ NoLease.token = 0
    BY DEF NoLease, LeaseRows
  <2>3. lease' \in [Creators -> LeaseRows]
    BY <2>1, <2>2 DEF TunnelTypes
  <2>4. ASSUME NEW t \in Creators PROVE LeaseGoesOn(t)
    BY <2>1, <2>2 DEF LeaseGoesOn, Dropped
  <2> QED
    BY <2>1, <2>3, <2>4 DEF Claim, LeasesTyped, TunnelTypes
<1>7. CASE \/ (\E e \in Extenders : \/ Pay(e) \/ Persist(e) \/ RefundExtension(e) \/ \E t \in Creators : Preflight(e, t))
           \/ OwnerDeletes \/ SweepSelect \/ SweepDelete \/ (\E p \in Replicas : Crash(p)) \/ UNCHANGED tunnelVars
  <2>1. UNCHANGED daemon
    BY <1>7 DEF Pay, Persist, RefundExtension, Preflight, OwnerDeletes, SweepSelect, SweepDelete, Crash
  <2> QED
    BY <2>1, LeaseStays DEF Claim
<1> QED
  BY <1>1, <1>2, <1>3, <1>4, <1>5, <1>6, <1>7 DEF TunnelNext

----------------------------------------------------------------------------
(* Types, and what was sold.                                               *)

\* The clock and the terms.
LEMMA RestGoesOn ==
  ASSUME TunnelTypes, [TunnelNext]_tunnelVars
  PROVE  terms' = terms /\ now' \in Nat /\ now <= now'
<1>0. now \in Nat /\ now <= now /\ now <= now + 1 /\ now + 1 \in Nat
  BY TunnelFields
<1>1. ASSUME NEW r \in Creators, Create(r) PROVE terms' = terms /\ now' = now
  BY <1>1 DEF Create, Enter, Find, Verify, MintLease, Insert, Cancel, Settle, Recheck, RevokeUnpaid,
              DeleteUnpaid, Stamp, Recover, Resync, RevokeOrphan, Reread
<1>2. ASSUME NEW t \in Creators, OwnerRevokes(t) \/ SweepRevoke(t) \/ LoseLease(t)
      PROVE  terms' = terms /\ now' = now
  BY <1>2 DEF OwnerRevokes, SweepRevoke, LoseLease
<1>3. ASSUME NEW e \in Extenders, \/ Pay(e) \/ ApplyExtension(e) \/ Persist(e) \/ RefundExtension(e)
                                  \/ \E t \in Creators : Preflight(e, t)
      PROVE  terms' = terms /\ now' = now
  BY <1>3 DEF Pay, ApplyExtension, Persist, RefundExtension, Preflight
<1>4. CASE \/ OwnerDeletes \/ SweepSelect \/ SweepDelete \/ Tick \/ (\E p \in Replicas : Crash(p))
           \/ UNCHANGED tunnelVars
  BY <1>0, <1>4 DEF OwnerDeletes, SweepSelect, SweepDelete, Tick, Crash
<1> QED
  BY <1>0, <1>1, <1>2, <1>3, <1>4 DEF TunnelNext

\* The row that a request inserts.
LEMMA InsertMakes ==
  ASSUME TunnelTypes, NEW r \in Creators, Insert(r), work'[r].at = "settle"
  PROVE  /\ work[r].at = "insert" /\ row' \in [Creators -> RowRows]
         /\ \A t \in Creators : t # r => row'[t] = row[t]
         /\ ~row[r].keyed /\ row'[r].expires = work[r].until /\ account'[r].sold = work[r].until
         /\ lease' = lease /\ extend' = extend /\ now' = now
         /\ \A t \in Creators : t # r => account'[t] = account[t]
<1> DEFINE x == [keyed |-> TRUE, status |-> "active", paid |-> FALSE,
                 expires |-> work[r].until, token |-> work[r].token,
                 hours |-> terms[r], born |-> now]
<1>1. ~Go(r, "cancel")
  BY Went DEF Busy
<1>2. /\ work[r].at = "insert" /\ row' = [row EXCEPT ![r] = x] /\ ~row[r].keyed
      /\ account' = [account EXCEPT ![r].sold = work[r].until]
      /\ lease' = lease /\ extend' = extend /\ now' = now
  BY <1>1 DEF Insert
<1>3. x \in RowRows /\ x.expires = work[r].until
  BY TunnelFields DEF RowRows
<1> HIDE DEF x
<1>4. row' \in [Creators -> RowRows] /\ row'[r] = x /\ \A t \in Creators : t # r => row'[t] = row[t]
  BY <1>2, <1>3 DEF TunnelTypes
<1>5. account'[r] = [account[r] EXCEPT !.sold = work[r].until]
      /\ \A t \in Creators : t # r => account'[t] = account[t]
  BY <1>2 DEF TunnelTypes
<1>6. account'[r].sold = work[r].until
  BY <1>5 DEF TunnelTypes, SaleRows
<1> QED
  BY <1>2, <1>3, <1>4, <1>5, <1>6

LEMMA TypesStep ==
  ASSUME TunnelTypes, WorkInPlace, KeyInPlace, ExtensionsInStep, [TunnelNext]_tunnelVars
  PROVE  TunnelTypes'
<1>1. row' \in [Creators -> RowRows]
  BY InsertMakes, RowsKept DEF RowsGoOn
<1>2. lease' \in [Creators -> LeaseRows] /\ minted' \in [Creators -> Nat]
  BY LeaseStep DEF LeasesTyped
<1>3. work' \in [Creators -> WorkRows]
  <2>1. ASSUME NEW r \in Creators, Create(r) PROVE work' \in [Creators -> WorkRows]
    BY <2>1, RequestGoesOn
  <2>2. ASSUME NEW p \in Replicas, Crash(p) PROVE work' \in [Creators -> WorkRows]
    BY <2>2, CrashEnds
  <2>3. CASE work' = work
    BY <2>3 DEF TunnelTypes
  <2> QED
    BY <2>1, <2>2, <2>3, WhoGoesOn
<1>4. extend' \in [Extenders -> ExtendRows] /\ account' \in [Creators -> SaleRows]
  <2>1. CASE \E e \in Extenders : \/ Pay(e) \/ ApplyExtension(e) \/ Persist(e) \/ RefundExtension(e)
                                  \/ \E t \in Creators : Preflight(e, t)
    BY <2>1, ExtensionStep
  <2>2. CASE ~ \E e \in Extenders : \/ Pay(e) \/ ApplyExtension(e) \/ Persist(e) \/ RefundExtension(e)
                                    \/ \E t \in Creators : Preflight(e, t)
    BY <2>2, BooksElse DEF TunnelTypes
  <2> QED
    BY <2>1, <2>2
<1>5. charged' \in Creators \cup {Nothing}
  BY SpentOnce, TunnelFields DEF TunnelTypes
<1>6. /\ terms' = terms /\ now' \in Nat
      /\ swept' \in [chosen : SUBSET Creators, revoked : Creators \cup {Nothing}]
  BY RestGoesOn, SweepMoves
<1>7. mishaps' \subseteq AllMishaps
  BY MishapsGrow
<1>8. owner' \in [at : {"idle", "delete", "revoked", "failed"}, tunnel : Creators \cup {Nothing}]
  BY OwnerMoves
<1> QED
  BY <1>1, <1>2, <1>3, <1>4, <1>5, <1>6, <1>7, <1>8 DEF TunnelTypes

\* Nothing is granted for a tunnel that nobody has got in an answer.
LEMMA NobodyGranted ==
  ASSUME TunnelTypes, ExtensionsInStep, NEW t \in Creators,
         \A r \in Creators : work[r].at = "answered" => work[r].tunnel # t
  PROVE  Granted(t) = {}
BY DEF Granted, ExtensionsInStep

\* An extension that is granted was granted before, or is granted now by the daemon.
GrantedNow(t, e) ==
    /\ Live(t) /\ lease'[t].token # 0 /\ lease'[t].expires = lease[t].expires + 1
    /\ extend'[e].until = lease[t].expires + 1 /\ extend'[e].at = "persist"
    /\ e \notin Granted(t)
    /\ \A f \in Extenders : f # e => extend'[f] = extend[f]
LEMMA GrantedStep ==
  ASSUME TunnelTypes, WorkInPlace, KeyInPlace, ExtensionsInStep, [TunnelNext]_tunnelVars,
         NEW t \in Creators, NEW e \in Granted(t)'
  PROVE  \/ GrantedNow(t, e)
         \/ /\ e \in Granted(t) /\ extend'[e].until = extend[e].until
            /\ extend'[e].at = "done" => extend[e].at = "done" \/ extend[e].until <= row'[t].expires
<1> DEFINE Extending(f) == \/ Pay(f) \/ ApplyExtension(f) \/ Persist(f) \/ RefundExtension(f)
                           \/ \E u \in Creators : Preflight(f, u)
<1>0. e \in Extenders /\ extend'[e].tunnel = t /\ extend'[e].at \in {"persist", "done"}
  BY DEF Granted
<1>1. CASE ~ \E f \in Extenders : Extending(f)
  BY <1>0, <1>1, BooksElse DEF Granted, ExtensionsStay
<1>2. ASSUME NEW f \in Extenders, Extending(f), f # e
      PROVE  extend'[e] = extend[e]
  BY <1>0, <1>2, ExtensionStep DEF ExtensionGoesOn
<1>3. ASSUME Extending(e), extend'[e] # extend[e]
      PROVE  \/ GrantedNow(t, e)
             \/ /\ e \in Granted(t) /\ extend'[e].until = extend[e].until
                /\ extend'[e].at = "done" => extend[e].until <= row'[t].expires
  <2>1. PICK u \in Creators : ExtensionGoesOn(e, u)
    BY <1>0, <1>3, ExtensionStep
  <2>2. u = t
    BY <1>0, <2>1 DEF ExtensionGoesOn
  <2>3. CASE extend[e].at = "apply" /\ extend'[e].at = "persist"
    <3>1. Live(t) /\ ExtendLease(t) /\ extend'[e].until = lease[t].expires + 1
      BY <2>1, <2>2, <2>3 DEF ExtensionGoesOn
    <3>2. lease'[t].token = lease[t].token /\ lease'[t].expires = lease[t].expires + 1
      <4>1. lease'[t] = [lease[t] EXCEPT !.expires = @ + 1] /\ lease[t] \in LeaseRows
        BY <3>1 DEF ExtendLease, TunnelTypes
      <4> QED
        BY <4>1 DEF LeaseRows
    <3> QED
      BY <2>1, <2>3, <3>1, <3>2 DEF GrantedNow, ExtensionGoesOn, Granted
  <2>4. CASE extend[e].at = "persist" /\ extend'[e].at = "done"
    BY <1>0, <2>1, <2>2, <2>4 DEF ExtensionGoesOn, Granted
  <2> QED
    BY <1>0, <2>1, <2>3, <2>4 DEF ExtensionGoesOn
<1>4. CASE extend'[e] = extend[e]
  BY <1>0, <1>4 DEF Granted
<1> QED
  BY <1>1, <1>2, <1>3, <1>4

\* The lease a request is about to record is as long as it was answered.
LEMMA InsertReady ==
  ASSUME TunnelTypes, WorkInPlace, KeyInPlace, ExtensionsInStep, SoldKept, [TunnelNext]_tunnelVars,
         NEW t \in Creators, work'[t].at = "insert", lease'[t].token # 0
  PROVE  lease'[t].expires >= work'[t].until
<1>0. lease[t].expires \in Nat /\ work[t].until \in Nat /\ "insert" \notin Inserted
  BY TunnelFields DEF Inserted
<1>1. CASE MintLease(t)
  <2>1. /\ Mint(t, now + terms[t])
        /\ work' = [work EXCEPT ![t].at = "insert", ![t].tunnel = t,
                                ![t].token = LeaseFor(t, now + terms[t]).token,
                                ![t].until = LeaseFor(t, now + terms[t]).expires]
    <3>1. CASE Go(t, "failed")
      BY <3>1, Went DEF Busy
    <3>2. CASE work' = [work EXCEPT ![t].at = "cancel", ![t].until = LeaseFor(t, now + terms[t]).expires]
      <4>1. work'[t] = [work[t] EXCEPT !.at = "cancel", !.until = LeaseFor(t, now + terms[t]).expires]
        BY <3>2 DEF TunnelTypes
      <4>2. work'[t].at = "cancel"
        BY <4>1 DEF TunnelTypes, WorkRows
      <4> QED
        BY <4>2
    <3> QED
      BY <1>1, <3>1, <3>2 DEF MintLease
  <2>2. now + terms[t] \in Nat
    BY TunnelFields
  <2>3. lease'[t] = LeaseFor(t, now + terms[t]) /\ lease'[t].expires \in Nat
    <3> HIDE DEF Mint
    <3> QED
      BY <2>1, <2>2, MintMakes DEF LeaseRows
  <2> DEFINE made == LeaseFor(t, now + terms[t])
  <2>4. work'[t] = [work[t] EXCEPT !.at = "insert", !.tunnel = t, !.token = made.token, !.until = made.expires]
    BY <2>1 DEF TunnelTypes
  <2> HIDE DEF made
  <2>5. work'[t].until = made.expires
    BY <2>4 DEF TunnelTypes, WorkRows
  <2> QED
    BY <2>3, <2>5 DEF made
<1>2. CASE ~MintLease(t)
  <2>1. work'[t] = work[t]
    <3>1. ASSUME NEW r \in Creators, Create(r), WorkGoesOn(r) PROVE work'[t] = work[t]
      <4>1. CASE r = t
        <5>1. work[t].at \in Creating \/ work[t].at = "mint"
          BY <3>1, <4>1 DEF WorkGoesOn, Creating
        <5>2. Insert(t) \/ Settle(t) \/ Recheck(t) \/ RevokeUnpaid(t) \/ DeleteUnpaid(t)
          BY <1>2, <3>1, <4>1, <5>1 DEF Create, Creating, Enter, Find, Verify, MintLease, Cancel, Stamp,
                                        Recover, Resync, RevokeOrphan, Reread
        <5>3. \E at \in {"settle", "cancel", "stamp", "recheck", "answered", "revoke", "delete", "failed"} :
                Go(t, at)
          BY <5>2 DEF Insert, Settle, Recheck, RevokeUnpaid, DeleteUnpaid
        <5>4. work'[t].at # "insert"
          BY <5>3, Went DEF Busy
        <5> QED
          BY <5>4
      <4>2. CASE r # t
        BY <3>1, <4>2 DEF WorkGoesOn
      <4> QED
        BY <4>1, <4>2
    <3>2. ASSUME NEW p \in Replicas, Crash(p) PROVE work'[t] = work[t]
      BY <3>2, CrashEnds
    <3> QED
      BY <3>1, <3>2, WhoGoesOn
  <2>2. LeaseGoesOn(t) /\ ~Dropped(t)
    BY LeaseStep DEF Dropped
  <2>3. ~Remade(t)
    BY <1>0, <2>1 DEF Remade, WorkInPlace
  <2>4. Live(t) => lease[t].expires >= work[t].until
    BY <2>1 DEF SoldKept
  <2>5. lease'[t] = lease[t] \/ (Live(t) /\ lease'[t].expires = lease[t].expires + 1)
    BY <2>1, <2>2, <2>3 DEF LeaseGoesOn
  <2> QED
    BY <1>0, <2>1, <2>4, <2>5
<1> QED
  BY <1>1, <1>2

\* What was sold stays granted.
LEMMA SoldStep ==
  ASSUME TunnelTypes, WorkInPlace, KeyInPlace, ExtensionsInStep, SoldKept, [TunnelNext]_tunnelVars
  PROVE  SoldKept'
<1>r. \A t \in Creators : work'[t].at = "insert" /\ lease'[t].token # 0
                           => lease'[t].expires >= work'[t].until
  BY InsertReady
<1> SUFFICES ASSUME NEW t \in Creators, row'[t].keyed
             PROVE  /\ row'[t].expires >= account'[t].sold
                    /\ lease'[t].token # 0 => lease'[t].expires >= account'[t].sold
                    /\ \A e \in Granted(t)' : /\ extend'[e].until > account'[t].sold
                                              /\ extend'[e].at = "done" => extend'[e].until <= row'[t].expires
  BY <1>r DEF SoldKept
<1>0. /\ lease[t].expires \in Nat /\ lease'[t].expires \in Nat /\ row[t].expires \in Nat
      /\ row'[t].expires \in Nat /\ account[t].sold \in Nat /\ account'[t].sold \in Nat /\ now \in Nat
  <2>1. TunnelTypes'
    BY TypesStep
  <2> QED
    BY <2>1, TunnelFields DEF TunnelTypes, RowRows, LeaseRows, SaleRows
<1>1. ASSUME NEW r \in Creators, Insert(r), work'[r].at = "settle", r = t
      PROVE  /\ row'[t].expires >= account'[t].sold
             /\ lease'[t].token # 0 => lease'[t].expires >= account'[t].sold
             /\ Granted(t)' = {}
  <2>1. /\ work[t].at = "insert" /\ row'[t].expires = work[t].until
        /\ account'[t].sold = work[t].until /\ lease' = lease /\ extend' = extend
        /\ Live(t) => lease[t].expires >= work[t].until
    BY <1>1, InsertMakes DEF SoldKept
  <2>2. \A q \in Creators : work[q].at = "answered" => work[q].tunnel # t
    BY <2>1 DEF WorkInPlace, Inserted
  <2>3. Granted(t)' = {}
    BY <2>1, <2>2, NobodyGranted DEF Granted
  <2> QED
    BY <1>0, <2>1, <2>3
<1>2. CASE ~ (Insert(t) /\ work'[t].at = "settle")
  <2>1. row[t].keyed /\ row'[t].expires >= row[t].expires
    <3>1. CASE \E r \in Creators : Insert(r) /\ work'[r].at = "settle"
      BY <1>0, <1>2, <3>1, InsertMakes
    <3>2. CASE ~ \E r \in Creators : Insert(r) /\ work'[r].at = "settle"
      BY <3>2, RowsKept DEF RowsGoOn
    <3> QED
      BY <3>1, <3>2
  <2>2. account'[t].sold = account[t].sold
    <3>1. CASE \E e \in Extenders : \/ Pay(e) \/ ApplyExtension(e) \/ Persist(e) \/ RefundExtension(e)
                                    \/ \E u \in Creators : Preflight(e, u)
      BY <3>1, ExtensionStep DEF ExtensionGoesOn
    <3>2. CASE ~ \E e \in Extenders : \/ Pay(e) \/ ApplyExtension(e) \/ Persist(e) \/ RefundExtension(e)
                                      \/ \E u \in Creators : Preflight(e, u)
      BY <1>2, <3>2, BooksElse, Went DEF Busy
    <3> QED
      BY <3>1, <3>2
  <2>3. /\ row[t].expires >= account[t].sold
        /\ Live(t) => lease[t].expires >= account[t].sold
        /\ \A e \in Granted(t) : /\ extend[e].until > account[t].sold
                                 /\ extend[e].at = "done" => extend[e].until <= row[t].expires
    BY <2>1 DEF SoldKept
  <2>4. row'[t].expires >= account'[t].sold
    BY <1>0, <2>1, <2>2, <2>3
  <2>5. ASSUME lease'[t].token # 0 PROVE lease'[t].expires >= account'[t].sold
    <3>1. LeaseGoesOn(t) /\ ~Dropped(t)
      BY <2>5, LeaseStep DEF Dropped
    <3>2. work[t].at # "mint"
      BY <2>1 DEF KeyInPlace, Inserted
    <3>3. CASE Remade(t)
      BY <1>0, <2>2, <2>3, <3>3 DEF Remade
    <3>4. CASE lease'[t] = lease[t] \/ (Live(t) /\ lease'[t].expires = lease[t].expires + 1)
      BY <1>0, <2>2, <2>3, <2>5, <3>4
    <3> QED
      BY <3>1, <3>2, <3>3, <3>4 DEF LeaseGoesOn
  <2>6. ASSUME NEW e \in Granted(t)'
        PROVE  /\ extend'[e].until > account'[t].sold
               /\ extend'[e].at = "done" => extend'[e].until <= row'[t].expires
    <3>1. CASE GrantedNow(t, e)
      BY <1>0, <2>2, <2>3, <3>1 DEF GrantedNow
    <3>2. CASE /\ e \in Granted(t) /\ extend'[e].until = extend[e].until
               /\ extend'[e].at = "done" => extend[e].at = "done" \/ extend[e].until <= row'[t].expires
      <4>1. extend[e].until \in Nat
        BY <3>2, TunnelFields DEF Granted
      <4> QED
        BY <1>0, <2>1, <2>2, <2>3, <3>2, <4>1
    <3> QED
      BY <3>1, <3>2, GrantedStep
  <2> QED
    BY <2>4, <2>5, <2>6
<1> QED
  BY <1>1, <1>2

----------------------------------------------------------------------------
(* The hours.                                                              *)

\* A tunnel that is kept was kept before, or nothing has been granted for it.
LEMMA KeptBefore ==
  ASSUME TunnelTypes, WorkInPlace, KeyInPlace, Undisturbed, ExtensionsInStep, [TunnelNext]_tunnelVars,
         NothingForgotten', NEW t \in Creators, Kept(t)'
  PROVE  NothingForgotten /\ (Kept(t) \/ Granted(t)' = {})
<1>1. NothingForgotten
  BY MishapsGrow, OneReplicaBefore DEF NothingForgotten
<1>2. CASE Insert(t) /\ work'[t].at = "settle"
  <2>1. work[t].at = "insert" /\ extend' = extend
    BY <1>2, InsertMakes
  <2>2. \A q \in Creators : work[q].at = "answered" => work[q].tunnel # t
    BY <2>1 DEF WorkInPlace, Inserted
  <2> QED
    BY <1>1, <2>1, <2>2, NobodyGranted DEF Granted
<1>3. CASE ~(Insert(t) /\ work'[t].at = "settle")
  <2>1. row[t].keyed
    <3>1. CASE \E r \in Creators : Insert(r) /\ work'[r].at = "settle"
      BY <1>3, <3>1, InsertMakes DEF Kept
    <3>2. CASE ~ \E r \in Creators : Insert(r) /\ work'[r].at = "settle"
      BY <3>2, RowsKept DEF RowsGoOn, Kept
    <3> QED
      BY <3>1, <3>2
  <2>2. owner.tunnel # t
    <3>1. owner'.tunnel # t
      BY DEF Kept
    <3>2. CASE owner.at = "idle"
      BY <3>2, NothingIsApart DEF WorkInPlace
    <3> QED
      BY <3>1, <3>2, OwnerMoves
  <2>3. swept.revoked # t
    <3>1. CASE SweepDelete
      BY <3>1 DEF SweepDelete, Kept, NoRow, TunnelTypes
    <3> QED
      BY <3>1, SweepMoves, NothingIsApart DEF Kept
  <2>4. CASE work[t].at = "delete"
    <3>0. "delete" \in Busy \cap Creating
      BY DEF Busy, Creating
    <3>1. work'[t].at # "delete" /\ row'[t].keyed
      BY DEF Kept
    <3>2. ~ \E r \in Creators : Create(r) /\ WorkGoesOn(r)
      <4> SUFFICES ASSUME NEW r \in Creators, Create(r), WorkGoesOn(r) PROVE FALSE
        OBVIOUS
      <4>1. r = t
        BY <2>4, <3>1 DEF WorkGoesOn
      <4>2. DeleteUnpaid(t)
        BY <2>4, <4>1 DEF Create, Enter, Find, Verify, MintLease, Insert, Cancel, Settle, Recheck,
                          RevokeUnpaid, Stamp, Recover, Resync, RevokeOrphan, Reread
      <4> QED
        BY <3>1, <4>2 DEF DeleteUnpaid, NoRow, TunnelTypes
    <3>3. PICK p \in Replicas : Crash(p)
      BY <2>4, <3>1, <3>2, WhoGoesOn
    <3>4. OnOneReplica
      BY <3>3, OneReplicaBefore DEF Crash, GoesWrong, NothingForgotten
    <3>5. \A q \in Creators : work[q].at = "answered" => work[q].tunnel # t
      BY <2>4, <3>0, <3>4 DEF Undisturbed
    <3>6. ExtensionsStay
      BY <3>3, CrashExtensions
    <3> QED
      BY <1>1, <3>5, <3>6, NobodyGranted DEF Granted, ExtensionsStay
  <2> QED
    BY <1>1, <2>1, <2>2, <2>3, <2>4 DEF Kept
<1> QED
  BY <1>2, <1>3

\* A lease of a tunnel that is kept is dropped only when its time is over.
LEMMA KeptDropped ==
  ASSUME TunnelTypes, WorkInPlace, KeyInPlace, [TunnelNext]_tunnelVars,
         NothingForgotten', NEW t \in Creators, Kept(t), Kept(t)', Dropped(t)
  PROVE  lease[t].expires <= now'
<1>1. work[t].at # "cancel"
  BY DEF Kept, KeyInPlace, Inserted
<1>2. work'[t].at # "delete" /\ owner'.tunnel # t /\ swept'.revoked # t
  BY DEF Kept
<1>3. ~ \E r \in Creators : work[r].at = "orphan" /\ work[r].tunnel = t
  BY DEF Kept, KeyInPlace
<1>4. "lease_lost" \notin mishaps' /\ "revocation_lost" \notin mishaps'
  BY DEF NothingForgotten
<1> QED
  BY <1>1, <1>2, <1>3, <1>4 DEF Dropped

LEMMA HoursStep ==
  ASSUME TunnelTypes, WorkInPlace, KeyInPlace, Undisturbed, ExtensionsInStep, HoursInStep,
         [TunnelNext]_tunnelVars
  PROVE  HoursInStep'
<1> SUFFICES ASSUME NothingForgotten', NEW t \in Creators, Kept(t)', NEW e \in Granted(t)'
             PROVE  /\ \A f \in Granted(t)' : extend'[e].until = extend'[f].until => e = f
                    /\ IF lease'[t].token # 0 THEN extend'[e].until <= lease'[t].expires
                       ELSE extend'[e].until <= row'[t].expires \/ extend'[e].until <= now'
  BY DEF HoursInStep
<1>0. NothingForgotten /\ Kept(t)
  BY KeptBefore
<1>1. ASSUME NEW f \in Granted(t)
      PROVE  /\ \A g \in Granted(t) : extend[f].until = extend[g].until => f = g
             /\ IF Live(t) THEN extend[f].until <= lease[t].expires
                ELSE extend[f].until <= row[t].expires \/ extend[f].until <= now
             /\ extend[f].until \in Nat
  BY <1>0, TunnelFields DEF HoursInStep, Granted
<1>2. /\ lease[t].expires \in Nat /\ lease'[t].expires \in Nat /\ row[t].expires \in Nat
      /\ row'[t].expires \in Nat /\ now \in Nat /\ now' \in Nat /\ now <= now'
  <2>1. TunnelTypes'
    BY TypesStep
  <2> QED
    BY <2>1, TunnelFields, RestGoesOn DEF TunnelTypes, RowRows, LeaseRows
<1>3. row'[t].expires >= row[t].expires
  <2>1. CASE \E r \in Creators : Insert(r) /\ work'[r].at = "settle"
    BY <1>0, <1>2, <2>1, InsertMakes DEF Kept
  <2>2. CASE ~ \E r \in Creators : Insert(r) /\ work'[r].at = "settle"
    BY <2>2, RowsKept DEF RowsGoOn, Kept
  <2> QED
    BY <2>1, <2>2
<1>4. \A f \in Granted(t)' : GrantedNow(t, f) \/ (f \in Granted(t) /\ extend'[f].until = extend[f].until)
  BY GrantedStep
<1>5. ASSUME NEW f \in Granted(t)', extend'[e].until = extend'[f].until PROVE e = f
  <2>1. CASE e \in Granted(t) /\ f \in Granted(t) /\ extend'[e].until = extend[e].until
             /\ extend'[f].until = extend[f].until
    BY <1>1, <1>5, <2>1
  <2>2. ASSUME NEW g \in Granted(t)', NEW h \in Granted(t), GrantedNow(t, g), extend'[h].until = extend[h].until
        PROVE  extend'[g].until # extend'[h].until
    BY <1>1, <1>2, <2>2 DEF GrantedNow
  <2>3. ASSUME GrantedNow(t, e), GrantedNow(t, f) PROVE e = f
    <3>1. ASSUME e # f PROVE FALSE
      <4>1. extend'[f] = extend[f]
        BY <2>3, <3>1 DEF GrantedNow, Granted
      <4>2. f \in Granted(t)
        BY <4>1 DEF Granted
      <4> QED
        BY <2>3, <4>2 DEF GrantedNow
    <3> QED
      BY <3>1
  <2> QED
    BY <1>4, <1>5, <2>1, <2>2, <2>3
<1>6. CASE GrantedNow(t, e)
  BY <1>2, <1>5, <1>6 DEF GrantedNow
<1>7. CASE e \in Granted(t) /\ extend'[e].until = extend[e].until
  <2>0. /\ IF Live(t) THEN extend[e].until <= lease[t].expires
           ELSE extend[e].until <= row[t].expires \/ extend[e].until <= now
        /\ extend[e].until \in Nat
    BY <1>1, <1>7
  <2>1. work[t].at # "mint"
    BY <1>0 DEF Kept, KeyInPlace, Inserted
  <2>2. CASE lease'[t] = lease[t]
    BY <1>2, <1>3, <1>5, <1>7, <2>0, <2>2
  <2>3. CASE Dropped(t)
    <3>1. lease'[t].token = 0 /\ lease[t].expires <= now'
      BY <1>0, <2>3, KeptDropped DEF Dropped
    <3> QED
      BY <1>2, <1>3, <1>5, <1>7, <2>0, <3>1
  <2>4. CASE Remade(t)
    <3>1. ~Live(t) /\ lease'[t].expires = IF row[t].expires > now THEN row[t].expires ELSE now + 1
      BY <2>4 DEF Remade
    <3>2. extend[e].until <= lease'[t].expires
      BY <1>2, <2>0, <3>1
    <3>3. CASE lease'[t].token # 0
      BY <1>5, <1>7, <3>2, <3>3
    <3>4. CASE lease'[t].token = 0
      BY <1>2, <1>3, <1>5, <1>7, <2>0, <3>1, <3>4
    <3> QED
      BY <3>3, <3>4
  <2>5. CASE Live(t) /\ lease'[t].token # 0 /\ lease'[t].expires = lease[t].expires + 1
    BY <1>2, <1>5, <1>7, <2>0, <2>5
  <2> QED
    BY <2>1, <2>2, <2>3, <2>4, <2>5, LeaseStep DEF LeaseGoesOn
<1> QED
  BY <1>4, <1>6, <1>7

\* The extensions that are bought and not lost, when none is under way, have been granted.
LEMMA BoughtCount ==
  ASSUME NEW t \in Creators, \A e \in Extenders : extend[e].tunnel = t => extend[e].at \notin UnderWay
  PROVE  /\ IsFiniteSet(Granted(t)) /\ Cardinality(Granted(t)) \in Nat /\ Cardinality(Lost(t)) \in Nat
         /\ Cardinality(Bought(t)) = Cardinality(Granted(t)) + Cardinality(Lost(t))
<1>1. IsFiniteSet(Granted(t)) /\ IsFiniteSet(Lost(t))
  BY ExtendersAreFinite, FS_Subset DEF Granted, Lost
<1>2. Bought(t) = Granted(t) \cup Lost(t) /\ Granted(t) \cap Lost(t) = {}
  BY DEF Bought, Granted, Lost, UnderWay, Unbooked
<1>3. Cardinality(Granted(t) \cup Lost(t)) =
        Cardinality(Granted(t)) + Cardinality(Lost(t)) - Cardinality(Granted(t) \cap Lost(t))
  BY <1>1, FS_Union
<1>4. Cardinality({}) = 0
  BY FS_EmptySet
<1>5. Cardinality(Granted(t)) \in Nat /\ Cardinality(Lost(t)) \in Nat
  BY <1>1, FS_CardinalityType
<1>6. Cardinality(Granted(t) \cap Lost(t)) = 0
  BY <1>2, <1>4
<1>7. Cardinality(Bought(t)) = Cardinality(Granted(t) \cup Lost(t))
  BY <1>2
<1>8. Cardinality(Bought(t)) = Cardinality(Granted(t)) + Cardinality(Lost(t))
  BY <1>3, <1>5, <1>6, <1>7
<1> QED
  BY <1>1, <1>5, <1>8

\* The hours that were granted are different hours, after those sold and within the row's.
LEMMA HoursPaid ==
  ASSUME TunnelTypes, ExtensionsInStep, SoldKept, HoursInStep
  PROVE  PaidHoursKept
<1> SUFFICES ASSUME NothingForgotten, NEW t \in Creators, Kept(t),
                    \A e \in Extenders : extend[e].tunnel = t => extend[e].at \notin UnderWay
             PROVE  row[t].expires >= account[t].sold + account[t].bought - account[t].refunded
                                        - Cardinality(Lost(t))
  BY DEF PaidHoursKept
<1> DEFINE Hour == (account[t].sold + 1)..row[t].expires
           hourOf == [e \in Granted(t) |-> extend[e].until]
<1>1. /\ row[t].expires \in Nat /\ account[t].sold \in Nat /\ row[t].expires >= account[t].sold
      /\ account[t].bought \in Nat /\ account[t].refunded \in Nat
      /\ account[t].bought - account[t].refunded = Cardinality(Bought(t))
  BY TunnelFields DEF SoldKept, ExtensionsInStep, Kept
<1>2. /\ Cardinality(Bought(t)) = Cardinality(Granted(t)) + Cardinality(Lost(t))
      /\ Cardinality(Lost(t)) \in Nat
  BY BoughtCount
<1>3. ASSUME NEW e \in Granted(t) PROVE extend[e].until \in Hour
  <2>1. extend[e].until \in Nat /\ extend[e].at = "done"
    BY TunnelFields DEF Granted, UnderWay
  <2> QED
    BY <1>1, <2>1 DEF SoldKept, Kept
<1>4. \A e, f \in Granted(t) : extend[e].until = extend[f].until => e = f
  BY DEF HoursInStep
<1>5. hourOf \in Injection(Granted(t), Hour)
  <2>1. hourOf \in [Granted(t) -> Hour]
    BY <1>3
  <2> QED
    BY <1>4, <2>1 DEF Injection, IsInjective
<1>6. IsFiniteSet(Hour) /\ Cardinality(Hour) = row[t].expires - account[t].sold
  <2> DEFINE first == account[t].sold + 1
             last == row[t].expires
  <2>1. first \in Int /\ last \in Int
    BY <1>1
  <2>2. Hour = first..last
    OBVIOUS
  <2>3. IsFiniteSet(first..last) /\ Cardinality(first..last) = IF first > last THEN 0 ELSE last - first + 1
    <3> HIDE DEF first, last
    <3> QED
      BY <2>1, FS_Interval
  <2>4. (IF first > last THEN 0 ELSE last - first + 1) = last - account[t].sold
    BY <1>1
  <2> HIDE DEF Hour, first
  <2> QED
    BY <2>2, <2>3, <2>4
<1>7. Cardinality(Granted(t)) <= Cardinality(Hour) /\ IsFiniteSet(Granted(t))
  <2> HIDE DEF Hour, hourOf
  <2> QED
    BY <1>5, <1>6, FS_Injection
<1>8. Cardinality(Granted(t)) \in Nat
  BY <1>7, FS_CardinalityType
<1> QED
  BY <1>1, <1>2, <1>6, <1>7, <1>8

----------------------------------------------------------------------------
(* The theorems.                                                           *)

LEMMA TunnelsBegin ==
  ASSUME TunnelInit
  PROVE  TunnelInv
<1>1. TunnelTypes
  BY HoursAreNumbers DEF TunnelInit, TunnelTypes, UnderWay, Unbooked, RowRows, LeaseRows, WorkRows, ExtendRows, SaleRows,
                         NoRow, NoLease
<1>2. ASSUME NEW t \in Creators
      PROVE  /\ ~row[t].keyed /\ row[t].status = "none" /\ work[t].at = "new" /\ work[t].replica = Nothing
             /\ work[t].tunnel = Nothing /\ account[t].bought = 0 /\ account[t].refunded = 0
             /\ Bought(t) = {}
  BY DEF TunnelInit, NoRow, Bought, Lost, Unbooked
<1>3. WorkInPlace
  BY <1>2, NothingIsApart DEF TunnelInit, WorkInPlace, Busy, Creating, Replaying, Inserted
<1>4. KeyInPlace
  BY <1>2 DEF KeyInPlace
<1>5. Undisturbed
  BY <1>2, NothingIsApart DEF Undisturbed, TunnelInit, Creating
<1>6. ExtensionsInStep
  <2>1. Cardinality({}) = 0
    BY FS_EmptySet
  <2>2. \A t \in Creators : account[t].bought - account[t].refunded = Cardinality(Bought(t))
    <3>1. \A t \in Creators : Cardinality(Bought(t)) = 0
      BY <1>2, <2>1, Zenon
    <3>2. \A t \in Creators : account[t].bought - account[t].refunded = 0
      BY <1>2
    <3> QED
      BY <3>1, <3>2
  <2>3. \A e \in Extenders : extend[e].at = "new"
    BY DEF TunnelInit
  <2> QED
    BY <2>2, <2>3 DEF ExtensionsInStep, Unbooked
<1>7. SoldKept /\ HoursInStep /\ PaidHoursKept
  BY <1>2 DEF SoldKept, HoursInStep, PaidHoursKept, Kept
<1> QED
  BY <1>1, <1>3, <1>4, <1>5, <1>6, <1>7 DEF TunnelInv

\* The invariant but for the hours that were paid for, which follow from it.
TunnelParts == /\ TunnelTypes /\ WorkInPlace /\ KeyInPlace /\ Undisturbed
               /\ ExtensionsInStep /\ SoldKept /\ HoursInStep

LEMMA TunnelsGoOn ==
  ASSUME TunnelParts, [TunnelNext]_tunnelVars
  PROVE  TunnelParts'
<1>1. TunnelTypes' /\ WorkInPlace' /\ KeyInPlace' /\ Undisturbed'
  BY TypesStep, WorkStep, KeyStep, UndisturbedStep DEF TunnelParts
<1>2. ExtensionsInStep' /\ SoldKept' /\ HoursInStep'
  BY ExtensionsStep, SoldStep, HoursStep DEF TunnelParts
<1> QED
  BY <1>1, <1>2 DEF TunnelParts

\* Whatever the requests, replicas and mishaps: the rows and leases of the tunnels have the
\* hours that were sold and paid for, and one row has the authorization's key.
THEOREM TunnelInvariant == TunnelSpec => []TunnelInv
<1>1. TunnelInit => TunnelParts
  BY TunnelsBegin DEF TunnelInv, TunnelParts
<1>2. TunnelParts /\ [TunnelNext]_tunnelVars => TunnelParts'
  BY TunnelsGoOn
<1>3. TunnelParts => TunnelInv
  BY HoursPaid DEF TunnelInv, TunnelParts
<1> QED
  BY <1>1, <1>2, <1>3, PTL DEF TunnelSpec

\* A step never tears down a tunnel whose authorization was charged, nor selects it for the
\* sweep, but for its owner or when its time is over.
PaidTunnelKeptStep == \A t \in Creators :
    /\ charged = t /\ "settlement_answer_lost" \notin mishaps /\ OnOneReplica /\ row[t].keyed
    /\ \/ row'[t].status = "none"
       \/ t \in swept'.chosen
       \/ Live(t) /\ lease'[t].token = 0 /\ now' = now /\ "lease_lost" \notin mishaps' \ mishaps
    => \/ owner'.tunnel = t
       \/ row[t].expires + Grace < now \/ t \in swept.chosen

LEMMA PaidTunnelStays ==
  ASSUME TunnelParts, [TunnelNext]_tunnelVars
  PROVE  PaidTunnelKeptStep
<1> USE DEF TunnelParts
<1> SUFFICES ASSUME NEW t \in Creators, charged = t, "settlement_answer_lost" \notin mishaps,
                    OnOneReplica, row[t].keyed,
                    \/ row'[t].status = "none"
                    \/ t \in swept'.chosen
                    \/ Live(t) /\ lease'[t].token = 0 /\ now' = now /\ "lease_lost" \notin mishaps' \ mishaps,
                    owner'.tunnel # t, t \notin swept.chosen
             PROVE  row[t].expires + Grace < now
  BY DEF PaidTunnelKeptStep
<1>0. /\ work[t].at \in {"stamp", "answered", "failed"} /\ row[t].status = "active"
      /\ ~ \E r \in Creators : work[r].at = "orphan" /\ work[r].tunnel = t
  BY DEF Undisturbed, KeyInPlace
<1>1. ASSUME row'[t].status = "none" PROVE FALSE
  <2>1. row'[t] # row[t]
    BY <1>0, <1>1
  <2>2. ASSUME NEW r \in Creators, Create(r) PROVE FALSE
    <3>1. CASE Insert(r)
      BY <1>0, <1>1, <2>1, <3>1 DEF Insert, TunnelTypes
    <3>2. CASE Cancel(r)
      BY <1>0, <2>1, <3>2 DEF Cancel, TunnelTypes
    <3>3. CASE DeleteUnpaid(r)
      BY <1>0, <2>1, <3>3 DEF DeleteUnpaid, TunnelTypes
    <3>4. CASE Stamp(r) \/ Resync(r)
      <4> DEFINE u == work[r].tunnel
      <4>1. \/ row' = row
            \/ row' = [row EXCEPT ![u].paid = TRUE]
            \/ row' = [row EXCEPT ![u].token = work[r].token]
        BY <3>4 DEF Stamp, Resync
      <4> HIDE DEF u
      <4>2. CASE u = t
        <5>1. \/ row' = row
              \/ row'[t] = [row[t] EXCEPT !.paid = TRUE]
              \/ row'[t] = [row[t] EXCEPT !.token = work[r].token]
          BY <4>1, <4>2 DEF TunnelTypes
        <5>2. row'[t].status = row[t].status
          BY <5>1 DEF TunnelTypes, RowRows
        <5> QED
          BY <1>0, <1>1, <5>2
      <4>3. CASE u # t
        BY <1>0, <1>1, <4>1, <4>3 DEF TunnelTypes
      <4> QED
        BY <4>2, <4>3
    <3>5. CASE ~(Insert(r) \/ Cancel(r) \/ DeleteUnpaid(r) \/ Stamp(r) \/ Resync(r))
      BY <2>1, <2>2, <3>5 DEF Create, Enter, Find, Verify, MintLease, Settle, Recheck, RevokeUnpaid,
                              Recover, RevokeOrphan, Reread
    <3> QED
      BY <3>1, <3>2, <3>3, <3>4, <3>5
  <2>3. ASSUME NEW e \in Extenders, Persist(e) PROVE FALSE
    <3>1. PICK x, y : row' = [row EXCEPT ![x].expires = y]
      BY <2>1, <2>3 DEF Persist
    <3>2. CASE x = t
      <4>1. row'[t] = [row[t] EXCEPT !.expires = y]
        BY <3>1, <3>2 DEF TunnelTypes
      <4>2. row'[t].status = row[t].status
        BY <4>1 DEF TunnelTypes, RowRows
      <4> QED
        BY <1>0, <1>1, <4>2
    <3>3. CASE x # t
      BY <1>0, <1>1, <3>1, <3>3 DEF TunnelTypes
    <3> QED
      BY <3>2, <3>3
  <2>4. ASSUME OwnerDeletes \/ SweepDelete PROVE FALSE
    <3>1. owner'.tunnel # owner.tunnel \/ owner.tunnel # t
      OBVIOUS
    <3>2. CASE SweepDelete
      BY <2>1, <3>2 DEF SweepDelete, TunnelTypes, WorkInPlace
    <3>3. CASE OwnerDeletes
      <4>1. row' = [row EXCEPT ![owner.tunnel] = NoRow] /\ owner' = [owner EXCEPT !.at = "revoked"]
        BY <3>3 DEF OwnerDeletes
      <4>2. owner'.tunnel = owner.tunnel
        BY <4>1 DEF TunnelTypes
      <4> QED
        BY <2>1, <4>1, <4>2 DEF TunnelTypes
    <3> QED
      BY <2>4, <3>2, <3>3
  <2>5. ASSUME NEW u \in Creators, OwnerRevokes(u) \/ SweepRevoke(u) \/ LoseLease(u) PROVE FALSE
    BY <2>1, <2>5 DEF OwnerRevokes, SweepRevoke, LoseLease
  <2>6. ASSUME NEW e \in Extenders, \/ Pay(e) \/ ApplyExtension(e) \/ RefundExtension(e)
                                    \/ \E u \in Creators : Preflight(e, u)
        PROVE  FALSE
    BY <2>1, <2>6 DEF Pay, ApplyExtension, RefundExtension, Preflight
  <2>7. ASSUME SweepSelect \/ Tick \/ (\E p \in Replicas : Crash(p)) \/ UNCHANGED tunnelVars PROVE FALSE
    BY <2>1, <2>7 DEF SweepSelect, Tick, Crash
  <2> QED
    BY <2>2, <2>3, <2>4, <2>5, <2>6, <2>7 DEF TunnelNext
<1>2. ASSUME Live(t), lease'[t].token = 0, now' = now, "lease_lost" \notin mishaps' \ mishaps
      PROVE  FALSE
  <2>1. lease'[t] # lease[t]
    BY <1>2
  <2>2. ASSUME NEW r \in Creators, Create(r) PROVE FALSE
    <3>1. CASE MintLease(r)
      <4>1. lease' = lease \/ Mint(r, now + terms[r])
        BY <3>1 DEF MintLease
      <4>2. now + terms[r] \in Nat
        BY TunnelFields
      <4>3. Mint(r, now + terms[r]) => lease'[t] = lease[t] \/ lease'[t].token # 0
        <5> HIDE DEF Mint
        <5> QED
          BY <4>2, MintMakes
      <4> QED
        BY <1>2, <2>1, <4>1, <4>3
    <3>2. CASE Recover(r)
      <4> DEFINE u == work[r].tunnel
                 until == IF row[u].expires > now THEN row[u].expires ELSE now + 1
      <4>1. lease' = lease \/ Mint(u, until)
        BY <3>2 DEF Recover
      <4>2. u \in Creators
        BY <3>2 DEF Recover, WorkInPlace, Replaying
      <4>3. until \in Nat
        BY <4>2, TunnelFields
      <4>4. Mint(u, until) => lease'[t] = lease[t] \/ lease'[t].token # 0
        <5> HIDE DEF Mint, u, until
        <5> QED
          BY <4>2, <4>3, MintMakes
      <4> QED
        BY <1>2, <2>1, <4>1, <4>4
    <3>3. CASE Cancel(r) \/ RevokeUnpaid(r)
      <4>1. r # t /\ \E ok \in BOOLEAN : Revoked(r, ok)
        BY <1>0, <3>3 DEF Cancel, RevokeUnpaid
      <4> QED
        BY <2>1, <4>1, RevokeTakes
    <3>4. CASE RevokeOrphan(r)
      <4>1. /\ work[r].tunnel # t /\ work[r].tunnel \in Creators
            /\ \E ok \in BOOLEAN : Revoked(work[r].tunnel, ok)
        BY <1>0, <3>4 DEF RevokeOrphan, WorkInPlace, Replaying
      <4> QED
        BY <2>1, <4>1, RevokeTakes
    <3> QED
      BY <2>1, <2>2, <3>1, <3>2, <3>3, <3>4
         DEF Create, Enter, Find, Verify, Insert, Settle, Recheck, DeleteUnpaid, Stamp, Resync, Reread
  <2>3. ASSUME NEW u \in Creators, OwnerRevokes(u) PROVE FALSE
    <3>1. owner'.tunnel = u /\ \E ok \in BOOLEAN : Revoked(u, ok)
      BY <2>3 DEF OwnerRevokes
    <3> QED
      BY <2>1, <3>1, RevokeTakes
  <2>4. ASSUME NEW u \in Creators, SweepRevoke(u) PROVE FALSE
    <3>1. u \in swept.chosen /\ \E ok \in BOOLEAN : Revoked(u, ok)
      BY <2>4 DEF SweepRevoke
    <3> QED
      BY <2>1, <3>1, RevokeTakes
  <2>5. ASSUME NEW u \in Creators, LoseLease(u) PROVE FALSE
    BY <1>2, <2>5 DEF LoseLease, GoesWrong
  <2>6. ASSUME NEW e \in Extenders, ApplyExtension(e) PROVE FALSE
    <3> DEFINE u == extend[e].tunnel
    <3>1. lease' = lease \/ lease' = [lease EXCEPT ![u].expires = @ + 1]
      BY <2>6 DEF ApplyExtension, ExtendLease
    <3>2. lease'[t] = [lease[t] EXCEPT !.expires = @ + 1]
      <4> HIDE DEF u
      <4> QED
        BY <2>1, <3>1 DEF TunnelTypes
    <3>3. lease'[t].token = lease[t].token
      BY <3>2 DEF TunnelTypes, LeaseRows
    <3> QED
      BY <1>2, <3>3
  <2>7. ASSUME Tick PROVE FALSE
    BY <1>2, <2>7, TunnelFields DEF Tick
  <2>8. ASSUME \/ (\E e \in Extenders : \/ Pay(e) \/ Persist(e) \/ RefundExtension(e)
                                           \/ \E u \in Creators : Preflight(e, u))
               \/ OwnerDeletes \/ SweepSelect \/ SweepDelete \/ (\E p \in Replicas : Crash(p)) \/ UNCHANGED tunnelVars
        PROVE  FALSE
    BY <2>1, <2>8 DEF Pay, Persist, RefundExtension, Preflight, OwnerDeletes, SweepSelect, SweepDelete, Crash
  <2> QED
    BY <2>2, <2>3, <2>4, <2>5, <2>6, <2>7, <2>8 DEF TunnelNext
<1>3. CASE t \in swept'.chosen
  <2>1. SweepSelect
    BY <1>3, SweepMoves
  <2>2. swept' = [swept EXCEPT !.chosen = {u \in Creators : Reapable(u)}]
    BY <2>1 DEF SweepSelect
  <2>3. swept'.chosen = {u \in Creators : Reapable(u)}
    BY <2>2 DEF TunnelTypes
  <2> QED
    BY <1>0, <1>3, <2>3 DEF Reapable
<1> QED
  BY <1>1, <1>2, <1>3

\* A tunnel whose authorization was charged stays until its owner tears it down or its time
\* is over (create_tunnel, sweep_expiries).
THEOREM PaidTunnelStaysUp == TunnelSpec => PaidTunnelKept
<1>1. TunnelInit => TunnelParts
  BY TunnelsBegin DEF TunnelInv, TunnelParts
<1>2. TunnelParts /\ [TunnelNext]_tunnelVars => TunnelParts'
  BY TunnelsGoOn
<1>3. TunnelParts /\ [TunnelNext]_tunnelVars => [PaidTunnelKeptStep]_tunnelVars
  BY PaidTunnelStays
<1>4. TunnelSpec => [][PaidTunnelKeptStep]_tunnelVars
  BY <1>1, <1>2, <1>3, PTL DEF TunnelSpec
<1> QED
  BY <1>4 DEF PaidTunnelKept, PaidTunnelKeptStep

=============================================================================
