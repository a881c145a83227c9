------------------------------- MODULE Accounts -------------------------------
(***************************************************************************)
(* Accounts and the credentials that open them: passwords, recovery codes, *)
(* wallets, browser sessions and API keys.                                 *)
(*                                                                         *)
(* A request is two steps.  In the first it is authenticated, or the proof *)
(* it carries is verified, without a lock; in the second one transaction   *)
(* locks the account's row, looks again and commits.  Between the two the  *)
(* account may be disabled, its password changed or its sessions revoked.  *)
(* A password and a recovery code are modelled by their version; a client  *)
(* presents the one that was right when its request arrived.               *)
(***************************************************************************)
EXTENDS Integers, FiniteSets

CONSTANTS
    Accounts,
    FirstAdmin, SecondAdmin,   \* the accounts there are at the beginning
    Wallets,
    Payer,              \* by account: the wallets that have paid for one of its VMs
    Requests,           \* requests in flight
    Scopes, WriteKeys,  \* scopes of API keys; the one that lets a key make keys
    None,
    \* Bounds of the model.
    MaxRequests,        \* requests in all
    MaxChallenges       \* wallet challenges

ASSUME FirstAccounts == {FirstAdmin, SecondAdmin} \subseteq Accounts /\ FirstAdmin # SecondAdmin
ASSUME WriteIsScope == WriteKeys \in Scopes
ASSUME PayerIsKnown == Payer \in [Accounts -> SUBSET Wallets]
ASSUME BoundsAreNumbers == MaxRequests \in Nat /\ MaxChallenges \in Nat

VARIABLES
    acct,       \* AccountRow and AccountWalletRow
    sessions,   \* SessionRow, with the version of the password it was issued under, the one that
                \* was verified when it was elevated, and the one it has itself set
    keys,       \* ApiKeyRow
    challenge,  \* WalletChallengeRow and RecoveryChallengeRow
    req,        \* a request between its two steps
    started,    \* requests so far; also the identity of what a request makes
    recovered   \* the recoveries: by which code, of which account

vars == <<acct, sessions, keys, challenge, req, started, recovered>>

Idle == [kind |-> None, id |-> 0, acct |-> None, via |-> 0, proof |-> 0, target |-> None,
         scopes |-> {}]
NoAccount == [exists |-> FALSE, disabled |-> FALSE, admin |-> FALSE, pw |-> 0, code |-> 0,
              wallet |-> None, gone |-> FALSE]

\* generate_account_id: a new account takes an identity that none has had.
Unused(b) == acct[b] = NoAccount
DeletedAccount == [NoAccount EXCEPT !.gone = TRUE]

SessionKinds == {"password", "code", "mint", "unkey", "delete", "step_up", "link", "rotate",
                 "transfer"}
AdminKinds == {"disable", "enable", "promote", "demote", "revoke_sessions", "revoke_keys"}
Kinds == SessionKinds \cup AdminKinds
           \cup {"login", "recover", "register", "checkout", "wallet_login"}
ASSUME NoneIsNothing == None \notin Accounts \cup Wallets \cup Kinds

Enabled(a) == acct[a].exists /\ ~acct[a].disabled
LinkedTo(w) == {a \in Accounts : acct[a].exists /\ acct[a].wallet = w}
SessionsOf(a) == {s \in sessions : s.acct = a}
NewKey(id, a, scopes, from) == [id |-> id, acct |-> a, scopes |-> scopes, revoked |-> FALSE,
                                from |-> from]
Session(id, a, from) == [id |-> id, acct |-> a, since |-> acct[a].pw, elevated |-> 0, set |-> 0,
                         from |-> from]

----------------------------------------------------------------------------
(* The first step of a request.                                            *)

\* A request arrives in slot r with what has been established about it.
Arrive(r, fields) ==
    /\ started' = started + 1
    /\ req' = [req EXCEPT ![r] = [fields EXCEPT !.id = started + 1]]

\* current_account by cookie, require_browser_session and, for an administrator's request,
\* require_admin_step_up.  Requests about an account that never was are left out, and a key is
\* asked for with or without the scope that makes keys.
ArriveBySession(r, s, kind) ==
    /\ Enabled(s.acct)
    /\ kind \in AdminKinds \cup {"step_up"} => acct[s.acct].admin
    /\ kind \in AdminKinds => s.elevated # 0
    /\ kind \in {"link", "rotate", "transfer"} => \E c \in challenge : c.action = kind
    /\ \E target \in IF kind \in AdminKinds THEN {a \in Accounts : acct[a].exists}
                     ELSE IF kind = "unkey" THEN {k.id : k \in keys} ELSE {None} :
       \E scopes \in IF kind = "mint" THEN {Scopes, Scopes \ {WriteKeys}} ELSE {{}} :
         /\ kind \in {"disable", "demote"} => target # s.acct
         /\ Arrive(r, [Idle EXCEPT !.kind = kind, !.acct = s.acct, !.via = s.id,
                         !.proof = acct[s.acct].pw, !.target = target, !.scopes = scopes])
    /\ UNCHANGED <<acct, sessions, keys, challenge, recovered>>

\* assert_key_scopes_subset: a key makes keys with no more than its own scopes.
Grantable(k) == {k.scopes, k.scopes \ {WriteKeys}}

\* current_account by API key, for the routes that take one.
ArriveByKey(r, k) ==
    /\ ~k.revoked /\ Enabled(k.acct) /\ WriteKeys \in k.scopes
    /\ \/ \E scopes \in Grantable(k) :
            Arrive(r, [Idle EXCEPT !.kind = "mint", !.acct = k.acct, !.scopes = scopes])
       \/ \E j \in keys : j.id # k.id
            /\ Arrive(r, [Idle EXCEPT !.kind = "unkey", !.acct = k.acct, !.target = j.id])
    /\ UNCHANGED <<acct, sessions, keys, challenge, recovered>>

\* login and recover_with_code have verified what was presented.
ArriveWithProof(r, a, kind) ==
    /\ acct[a].exists /\ kind \in {"login", "recover"}
    /\ LET proof == IF kind = "login" THEN acct[a].pw ELSE acct[a].code IN
       proof # 0 /\ Arrive(r, [Idle EXCEPT !.kind = kind, !.acct = a, !.proof = proof])
    /\ UNCHANGED <<acct, sessions, keys, challenge, recovered>>

NewAccount(b, admin) == [NoAccount EXCEPT !.exists = TRUE, !.admin = admin, !.pw = 1, !.code = 1]
WalletAccount(w) == [NoAccount EXCEPT !.exists = TRUE, !.wallet = w]

\* register commits the account before its session.
Register(r, b) ==
    /\ Unused(b) /\ Arrive(r, [Idle EXCEPT !.kind = "register", !.acct = b])
    /\ acct' = [acct EXCEPT ![b] = NewAccount(b, FALSE)]
    /\ UNCHANGED <<sessions, keys, challenge, recovered>>

\* resolve_x402_owner for a payer without a session: its account is found or made.  The
\* session is issued after the settlement.
ResolveX402Owner(r, w) ==
    /\ \/ \E a \in LinkedTo(w) : /\ Arrive(r, [Idle EXCEPT !.kind = "checkout", !.acct = a])
                                 /\ UNCHANGED acct
       \/ \E b \in Accounts : /\ LinkedTo(w) = {} /\ Unused(b)
                              /\ acct' = [acct EXCEPT ![b] = WalletAccount(w)]
                              /\ Arrive(r, [Idle EXCEPT !.kind = "checkout", !.acct = b])
    /\ UNCHANGED <<sessions, keys, challenge, recovered>>

\* With a session the payer's wallet becomes the account's first.
LinkPayer(s, w) ==
    /\ Enabled(s.acct) /\ LinkedTo(w) = {} /\ acct[s.acct].wallet = None
    /\ started < MaxRequests /\ started' = started + 1
    /\ acct' = [acct EXCEPT ![s.acct].wallet = w]
    /\ UNCHANGED <<sessions, keys, challenge, req, recovered>>

Issue(action, w, a) ==
    /\ Cardinality(challenge) < MaxChallenges
    /\ challenge' = challenge \cup {[n |-> Cardinality(challenge) + 1, action |-> action,
                                     wallet |-> w, acct |-> a, used |-> FALSE]}
    /\ UNCHANGED <<acct, sessions, keys, req, started, recovered>>

\* recover_wallet_challenge is for anyone; a challenge that cannot recover its account is
\* left out.
RecoverWalletChallenge(w, a) == w \in Payer[a] /\ Issue("recover", w, a)

\* create_challenge for a login, by anyone, or for an action of a session's account.
CreateLoginChallenge(w) == Issue("login", w, None)
CreateChallenge(action, w, a) ==
    /\ Enabled(a) /\ SessionsOf(a) # {}
    /\ action = "link" => acct[a].wallet = None
    /\ action = "rotate" => acct[a].wallet # None
    /\ Issue(action, w, a)

\* The row of a challenge stays locked while a login with it is under way.
Free(c) == ~c.used /\ \A r \in Requests : req[r].kind = "wallet_login" => req[r].via # c.n
Use(c) == challenge' = (challenge \ {c}) \cup {[c EXCEPT !.used = TRUE]}

\* A wallet login reads whose the wallet is without locking it.
ArriveWithWallet(r, c) ==
    /\ c.action = "login" /\ Free(c)
    /\ Arrive(r, [Idle EXCEPT !.kind = "wallet_login", !.via = c.n,
                    !.acct = IF LinkedTo(c.wallet) = {} THEN None
                             ELSE CHOOSE a \in LinkedTo(c.wallet) : TRUE])
    /\ UNCHANGED <<acct, sessions, keys, challenge, recovered>>

----------------------------------------------------------------------------
(* The second step.                                                        *)

Ends(r, kind) == req[r].kind = kind /\ req' = [req EXCEPT ![r] = Idle] /\ UNCHANGED started
Refused == UNCHANGED <<acct, sessions, keys, challenge, recovered>>

\* Mutant of Login: the password is not compared again under the lock.
LoginUnlocked(r) ==
    LET a == req[r].acct IN
    /\ Ends(r, "login")
    /\ \/ /\ Enabled(a)
          /\ sessions' = sessions \cup {[Session(req[r].id, a, "login") EXCEPT !.since = req[r].proof]}
          /\ UNCHANGED <<acct, keys, challenge, recovered>>
       \/ ~Enabled(a) /\ Refused

Login(r) ==
    LET a == req[r].acct
        ok == Enabled(a) /\ acct[a].pw = req[r].proof IN
    /\ Ends(r, "login")
    /\ \/ /\ ok
          /\ sessions' = sessions \cup {[Session(req[r].id, a, "login") EXCEPT !.since = req[r].proof]}
          /\ UNCHANGED <<acct, keys, challenge, recovered>>
       \/ ~ok /\ Refused

\* The password is replaced, and no session of the account is left but the ones in kept, which
\* stay as elevated as they were.
SetPassword(a, kept, code) ==
    /\ acct' = [acct EXCEPT ![a].pw = @ + 1, ![a].code = code]
    /\ sessions' = (sessions \ SessionsOf(a))
                     \cup {[s EXCEPT !.set = acct[a].pw + 1] : s \in kept}

\* The recovery code is good for one recovery, which makes the next.
RecoverWithCode(r) ==
    LET a == req[r].acct
        ok == Enabled(a) /\ acct[a].code = req[r].proof IN
    /\ Ends(r, "recover")
    /\ \/ /\ ok /\ SetPassword(a, {}, acct[a].code + 1)
          /\ recovered' = recovered \cup {[id |-> req[r].id, acct |-> a, code |-> req[r].proof]}
          /\ UNCHANGED <<keys, challenge>>
       \/ ~ok /\ Refused

\* recover_wallet_verify is one transaction: a wallet that has paid for a VM of the account.
RecoverWithWallet(c) ==
    /\ c.action = "recover" /\ Free(c) /\ c.acct # None
    /\ c.wallet \in Payer[c.acct] /\ Enabled(c.acct) /\ started < MaxRequests
    /\ started' = started + 1 /\ Use(c) /\ SetPassword(c.acct, {}, acct[c.acct].code)
    /\ UNCHANGED <<keys, req, recovered>>

\* An account without a password may set its first.
ChangePassword(r) ==
    LET a == req[r].acct
        ok == Enabled(a) /\ acct[a].pw \in {0, req[r].proof} IN
    /\ Ends(r, "password")
    /\ \/ /\ ok /\ SetPassword(a, {s \in SessionsOf(a) : s.id = req[r].via}, acct[a].code)
          /\ UNCHANGED <<keys, challenge, recovered>>
       \/ ~ok /\ Refused

RotateRecoveryCode(r) ==
    LET a == req[r].acct
        ok == Enabled(a) /\ acct[a].pw = req[r].proof /\ req[r].proof # 0 IN
    /\ Ends(r, "code")
    /\ \/ /\ ok /\ acct' = [acct EXCEPT ![a].code = @ + 1]
          /\ UNCHANGED <<sessions, keys, challenge, recovered>>
       \/ ~ok /\ Refused

\* The account and then the session are locked, the password is verified last.
StepUp(r) ==
    LET a == req[r].acct
        own == {s \in SessionsOf(a) : s.id = req[r].via}
        ok == Enabled(a) /\ acct[a].admin /\ own # {} /\ acct[a].pw = req[r].proof IN
    /\ Ends(r, "step_up")
    /\ \/ /\ ok /\ sessions' = (sessions \ own) \cup {[s EXCEPT !.elevated = req[r].proof] : s \in own}
          /\ UNCHANGED <<acct, keys, challenge, recovered>>
       \/ ~ok /\ Refused

\* Mutant of CreateApiKey: that the account was enabled when the request arrived will do.
CreateApiKeyUnchecked(r) ==
    LET a == req[r].acct IN
    /\ Ends(r, "mint")
    /\ \/ /\ acct[a].exists
          /\ keys' = keys \cup {NewKey(req[r].id, a, req[r].scopes, "mint")}
          /\ UNCHANGED <<acct, sessions, challenge, recovered>>
       \/ ~acct[a].exists /\ Refused

\* The account is looked at again, the session or the key that asked is not.
CreateApiKey(r) ==
    LET a == req[r].acct IN
    /\ Ends(r, "mint")
    /\ \/ /\ Enabled(a)
          /\ keys' = keys \cup {NewKey(req[r].id, a, req[r].scopes, "mint")}
          /\ UNCHANGED <<acct, sessions, challenge, recovered>>
       \/ ~Enabled(a) /\ Refused

Revoke(these) == keys' = (keys \ these) \cup {[k EXCEPT !.revoked = TRUE] : k \in these}

RevokeApiKey(r) ==
    /\ Ends(r, "unkey")
    /\ Revoke({k \in keys : k.id = req[r].target /\ k.acct = req[r].acct})
    /\ UNCHANGED <<acct, sessions, challenge, recovered>>

Logout(s) ==
    /\ started < MaxRequests /\ started' = started + 1
    /\ sessions' = sessions \ {s}
    /\ UNCHANGED <<acct, keys, challenge, req, recovered>>

\* The session of a new account is written without its lock; a starter key may follow.
EndRegister(r) ==
    LET a == req[r].acct IN
    /\ Ends(r, "register")
    /\ IF acct[a].exists
       THEN /\ sessions' = sessions \cup {Session(req[r].id, a, "register")}
            /\ \/ UNCHANGED keys
               \/ keys' = keys \cup {NewKey(req[r].id, a, Scopes \ {WriteKeys}, "register")}
            /\ UNCHANGED <<acct, challenge, recovered>>
       ELSE Refused

\* issue_session, after the checkout was settled.
IssueSession(r) ==
    LET a == req[r].acct IN
    /\ Ends(r, "checkout")
    /\ \/ /\ Enabled(a) /\ sessions' = sessions \cup {Session(req[r].id, a, "checkout")}
          /\ UNCHANGED <<acct, keys, challenge, recovered>>
       \/ ~Enabled(a) /\ Refused

\* A wallet nobody has linked makes an account, unless it was linked meanwhile.
WalletLogin(r) ==
    /\ Ends(r, "wallet_login")
    /\ \E c \in challenge :
         /\ c.n = req[r].via
         /\ \/ /\ req[r].acct # None /\ Enabled(req[r].acct) /\ Use(c)
               /\ sessions' = sessions \cup {Session(req[r].id, req[r].acct, "wallet")}
               /\ UNCHANGED <<acct, keys, recovered>>
            \/ /\ req[r].acct = None /\ LinkedTo(c.wallet) = {} /\ Use(c)
               /\ \E b \in Accounts :
                    /\ Unused(b) /\ acct' = [acct EXCEPT ![b] = WalletAccount(c.wallet)]
                    /\ sessions' = sessions \cup {[id |-> req[r].id, acct |-> b, since |-> 0,
                                                   elevated |-> 0, set |-> 0, from |-> "wallet"]}
               /\ UNCHANGED <<keys, recovered>>
            \/ /\ IF req[r].acct = None THEN LinkedTo(c.wallet) # {} ELSE ~Enabled(req[r].acct)
               /\ Refused

\* The wallet is linked, or replaced with the signature of both, if it is nobody else's.
LinkOrRotate(r) ==
    LET a == req[r].acct IN
    /\ req[r].kind \in {"link", "rotate"} /\ Ends(r, req[r].kind)
    /\ \/ \E c \in challenge :
            /\ c.action = req[r].kind /\ c.acct = a /\ Free(c) /\ Enabled(a)
            /\ (acct[a].wallet = None) <=> (c.action = "link")
            /\ LinkedTo(c.wallet) \subseteq {a}
            /\ Use(c) /\ acct' = [acct EXCEPT ![a].wallet = c.wallet]
            /\ UNCHANGED <<sessions, keys, recovered>>
       \/ Refused

\* consume_transfer_challenge: the wallet must still be the account's.
ConsumeTransferChallenge(r) ==
    /\ Ends(r, "transfer")
    /\ \/ \E c \in challenge :
            /\ c.action = "transfer" /\ c.acct = req[r].acct /\ Free(c)
            /\ acct[c.acct].exists /\ acct[c.acct].wallet = c.wallet /\ Use(c)
            /\ UNCHANGED <<acct, sessions, keys, recovered>>
       \/ Refused

\* The last transaction of delete_me; a disabled account and an administrator are refused.
DeleteAccount(r) ==
    LET a == req[r].acct
        ok == Enabled(a) /\ ~acct[a].admin IN
    /\ Ends(r, "delete")
    /\ \/ /\ ok /\ acct' = [acct EXCEPT ![a] = DeletedAccount]
          /\ sessions' = sessions \ SessionsOf(a) /\ keys' = {k \in keys : k.acct # a}
          /\ UNCHANGED <<challenge, recovered>>
       \/ ~ok /\ Refused

----------------------------------------------------------------------------
(* Administrators.                                                         *)

EnabledAdmins == {a \in Accounts : Enabled(a) /\ acct[a].admin}

\* validate_admin_dispatch: the actor is still an enabled administrator.
MayAct(r) == req[r].acct \in EnabledAdmins /\ acct[req[r].target].exists
\* The last one is kept.
LastAdmin(a) == a \in EnabledAdmins /\ Cardinality(EnabledAdmins) <= 1

AdminDisable(r) ==
    LET a == req[r].target
        ok == MayAct(r) /\ ~LastAdmin(a) IN
    /\ Ends(r, "disable")
    /\ \/ /\ ok /\ acct' = [acct EXCEPT ![a].disabled = TRUE]
          /\ sessions' = sessions \ SessionsOf(a) /\ Revoke({k \in keys : k.acct = a})
          /\ UNCHANGED <<challenge, recovered>>
       \/ ~ok /\ Refused

AdminEnable(r) ==
    /\ Ends(r, "enable")
    /\ \/ /\ MayAct(r) /\ acct' = [acct EXCEPT ![req[r].target].disabled = FALSE]
          /\ UNCHANGED <<sessions, keys, challenge, recovered>>
       \/ ~MayAct(r) /\ Refused

SetAccountRole(r) ==
    LET a == req[r].target
        ok == MayAct(r) /\ (req[r].kind = "demote" => ~LastAdmin(a)) IN
    /\ req[r].kind \in {"promote", "demote"} /\ Ends(r, req[r].kind)
    /\ \/ /\ ok /\ acct' = [acct EXCEPT ![a].admin = req[r].kind = "promote"]
          /\ UNCHANGED <<sessions, keys, challenge, recovered>>
       \/ ~ok /\ Refused

AdminRevokes(r) ==
    LET a == req[r].target IN
    /\ req[r].kind \in {"revoke_sessions", "revoke_keys"} /\ Ends(r, req[r].kind)
    /\ \/ /\ MayAct(r) /\ UNCHANGED <<acct, challenge, recovered>>
          /\ IF req[r].kind = "revoke_keys"
             THEN Revoke({k \in keys : k.acct = a}) /\ UNCHANGED sessions
             ELSE sessions' = sessions \ SessionsOf(a) /\ UNCHANGED keys
       \/ ~MayAct(r) /\ Refused

\* hyrule-admin create, with or without --allow-additional.
CreateAdmin(b) ==
    /\ Unused(b) /\ started < MaxRequests /\ started' = started + 1
    /\ acct' = [acct EXCEPT ![b] = NewAccount(b, TRUE)]
    /\ UNCHANGED <<sessions, keys, challenge, req, recovered>>

----------------------------------------------------------------------------
Init ==
    /\ acct = [a \in Accounts |-> IF a \in {FirstAdmin, SecondAdmin} THEN NewAccount(a, TRUE)
                                  ELSE NoAccount]
    /\ sessions = {[id |-> 0, acct |-> FirstAdmin, since |-> 1, elevated |-> 1, set |-> 0, from |-> "login"],
                   [id |-> 0, acct |-> SecondAdmin, since |-> 1, elevated |-> 0, set |-> 0, from |-> "login"]}
    /\ keys = {} /\ challenge = {} /\ req = [r \in Requests |-> Idle]
    /\ started = 0 /\ recovered = {}

Arrives(r) ==
    /\ req[r] = Idle /\ started < MaxRequests
    /\ \/ \E s \in sessions, kind \in SessionKinds \cup AdminKinds : ArriveBySession(r, s, kind)
       \/ \E k \in keys : ArriveByKey(r, k)
       \/ \E a \in Accounts, kind \in {"login", "recover"} : ArriveWithProof(r, a, kind)
       \/ \E b \in Accounts : Register(r, b)
       \/ \E w \in Wallets : ResolveX402Owner(r, w)
       \/ \E c \in challenge : ArriveWithWallet(r, c)

Commits(r) ==
    \/ Login(r) \/ RecoverWithCode(r) \/ ChangePassword(r) \/ RotateRecoveryCode(r) \/ StepUp(r)
    \/ CreateApiKey(r) \/ RevokeApiKey(r) \/ EndRegister(r) \/ IssueSession(r) \/ WalletLogin(r)
    \/ LinkOrRotate(r) \/ ConsumeTransferChallenge(r) \/ DeleteAccount(r)
    \/ AdminDisable(r) \/ AdminEnable(r) \/ SetAccountRole(r) \/ AdminRevokes(r)

Next ==
    \/ \E r \in Requests : Arrives(r) \/ Commits(r)
    \/ \E s \in sessions : Logout(s)
    \/ \E s \in sessions, w \in Wallets : LinkPayer(s, w)
    \/ \E w \in Wallets : CreateLoginChallenge(w)
    \/ \E w \in Wallets, a \in Accounts :
         \/ RecoverWalletChallenge(w, a)
         \/ \E action \in {"link", "rotate", "transfer"} : CreateChallenge(action, w, a)
    \/ \E c \in challenge : RecoverWithWallet(c)
    \/ \E b \in Accounts : CreateAdmin(b)

Spec == Init /\ [][Next]_vars

----------------------------------------------------------------------------
(* Properties.                                                             *)

\* from: the operation that made the row.
SessionRows == [id : 0..MaxRequests, acct : Accounts, since : Nat, elevated : Nat, set : Nat,
                from : {"login", "register", "checkout", "wallet"}]
KeyRows == [id : 0..MaxRequests, acct : Accounts, scopes : SUBSET Scopes, revoked : BOOLEAN,
            from : {"mint", "register"}]
ChallengeRows == [n : 1..MaxChallenges, action : {"login", "recover", "link", "rotate", "transfer"}, wallet : Wallets,
                  acct : Accounts \cup {None}, used : BOOLEAN]

AccountRows == [exists : BOOLEAN, disabled : BOOLEAN, admin : BOOLEAN, gone : BOOLEAN, pw : Nat,
                code : Nat, wallet : Wallets \cup {None}]
RequestRows == [kind : Kinds \cup {None}, id : 0..MaxRequests, acct : Accounts \cup {None}, via : Nat,
                proof : Nat, target : Accounts \cup Nat \cup {None}, scopes : SUBSET Scopes]
RecoveryRows == [id : 0..MaxRequests, acct : Accounts, code : Nat]

\* What the variables hold, and what relates them by construction of the tables.
TypeOK ==
    /\ acct \in [Accounts -> AccountRows]
    /\ \A a \in Accounts : acct[a].exists \/ acct[a] \in {NoAccount, DeletedAccount}
    /\ sessions \subseteq SessionRows /\ keys \subseteq KeyRows /\ recovered \subseteq RecoveryRows
    /\ challenge \subseteq ChallengeRows /\ IsFiniteSet(challenge)
    /\ \A x \in sessions \cup keys : acct[x.acct].exists
    /\ req \in [Requests -> RequestRows] /\ started \in 0..MaxRequests
    /\ \A r \in Requests : /\ req[r].kind \in AdminKinds => req[r].target \in Accounts
                           /\ req[r].kind \notin {"wallet_login", None} => req[r].acct \in Accounts
    /\ \A w \in Wallets : \A a, b \in LinkedTo(w) : a = b

\* Some enabled administrator is left, whatever administrators do to each other and to
\* themselves at the same time (_enabled_admin_count, validate_admin_dispatch).
AdminRemains == EnabledAdmins # {}

\* A disabled account has no session and no API key: a request that was under way when it was
\* disabled leaves none behind.  The exception is a registration, whose session and starter
\* key are written without the account's lock (create_api_key_endpoint, login, issue_session).
DisabledLockedOut ==
    \A a \in Accounts : acct[a].disabled =>
        /\ \A s \in SessionsOf(a) : s.from = "register"
        /\ \A k \in keys : k.acct = a /\ ~k.revoked => k.from = "register"

\* No session is older than the account's password, and none is elevated by an earlier one:
\* a login or a step-up that verified the old password does not outlive its change.  The one
\* exception is the session by which that password itself was set: it is kept as it is
\* (login, step_up, change_password, revoke_all_sessions_for).
SessionsFollowPassword ==
    \A s \in sessions :
        LET pw == acct[s.acct].pw IN
        \/ s.since = pw /\ s.elevated \in {0, pw}
        \/ s.set = pw /\ pw # 0

\* A recovery code recovers the account once, however many requests carry it
\* (recover_with_code).
CodesUsedOnce ==
    \A x, y \in recovered : x.acct = y.acct /\ x.code = y.code => x = y

\* The codes an account has been recovered by are older than the one it has, and a new
\* account has been recovered by none.
CodesAreSpent ==
    \A x \in recovered : /\ acct[x.acct] # NoAccount
                         /\ acct[x.acct].exists => x.code < acct[x.acct].code

\* What holds of every account (login, create_api_key_endpoint, recover_with_code,
\* set_account_role and the rest of api/auth.py and api/admin.py).
AccountInv == TypeOK /\ AdminRemains /\ DisabledLockedOut /\ CodesUsedOnce /\ CodesAreSpent
=============================================================================
