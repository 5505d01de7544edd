--------------------------- MODULE LoginSessions ---------------------------
(***************************************************************************)
(* One account: its credentials, its second factor, the rows of sessions   *)
(* and the cookies its devices hold. The requests that create, check and   *)
(* delete sessions interleave at their awaits.                             *)
(*                                                                         *)
(* A request's first step is the browser sending it with its cookie and    *)
(* the handler's first reads; getSession reads the session row and the     *)
(* user together. Its last step, when it sets or clears the cookie, is the *)
(* response reaching the browser. Apart and ApartTab name the pairs of     *)
(* requests that do not overlap, at all or when sent by one device: the    *)
(* code has no lock between any two of them.                               *)
(*                                                                         *)
(* Simplifications.                                                        *)
(*  - Whatever updateUserAuth writes in one statement (verifier, blob,     *)
(*    recovery hash and data) is one number, the era of the credentials.   *)
(*  - A handshake is one whose user typed the password of the era init     *)
(*    took the verifier from; every other is refused and changes nothing.  *)
(*    A browser has one login form open.                                   *)
(*  - Handlers die in the middle of a sign-out. A death elsewhere leaves   *)
(*    what a refused request does, or one whose session is ended at once,  *)
(*    but for one after Insert: its row is listed, and no device has it.   *)
(*  - Rate limits, the age of JWTs and rows, the counter of a passkey, and *)
(*    the wrap of the recovery email are left out.                         *)
(***************************************************************************)
EXTENDS Naturals, FiniteSets

CONSTANTS
  Device,       \* browsers, each with one cookie jar
  Jti,          \* ids of session rows; an id nobody holds is used again
  NoJti,        \* no cookie
  Nobody,       \* stands for the device of an admin's request
  Slot,         \* slots for requests being handled
  MaxEra,       \* bound: eras of the credentials
  MaxSecret,    \* bound: TOTP secrets ever generated
  MaxStep,      \* bound: 30 s periods
  Window,       \* periods a code may be off
  Apart,        \* pairs {o, p} of requests that do not overlap
  ApartTab,     \* pairs that do not overlap when one device sends both
  Ops           \* the requests in this instance

OpTag == {"verify", "code", "passkey", "logout", "revokeAll", "revokeOthers",
          "revokeOne", "change", "recover", "suspend", "unsuspend", "setup",
          "enable", "disable"}

ASSUME NoneAssumption == NoJti \notin Jti /\ Nobody \notin Device
ASSUME BoundAssumption ==
  /\ MaxEra \in Nat \ {0} /\ MaxSecret \in Nat /\ MaxStep \in Nat \ {0}
  /\ Window \in Nat
ASSUME TagAssumption == Ops \subseteq OpTag

VARIABLES
  era,        \* the credentials users holds
  secret,     \* totp_secret, or 0
  pending,    \* totp_pending_secret, or 0
  lastUsed,   \* totp_last_used_at, or 0
  suspended,  \* suspended_at
  rows,       \* the rows of sessions
  cookie,     \* cookie[d]: the jti in the cookie of d
  hand,       \* hand[d]: the SRP handshake of d, its srp_sessions row with it
  now,        \* the current period
  secrets,    \* TOTP secrets generated so far
  phone,      \* secrets in the user's authenticator
  spent,      \* <<secret, period>> of the code a login accepted last
  stale,      \* rows that a sign-out has decided to end, or that came while
              \* it ran, unless it died
  s           \* s[i]: program counter and locals of the request in slot i

db   == <<era, secret, pending, lastUsed, suspended>>
vars == <<db, rows, cookie, hand, now, secrets, phone, spent, stale, s>>

NoHand == [stage |-> "none", era |-> 0]

PC == {"idle", "prune", "insert", "reply", "cdCas",
       "loDelete", "clear", "raDelete", "roDelete", "r1Delete", "cpUser",
       "cpUpdate", "rcToken", "rcUpdate", "suDelete", "stWrite", "enWrite",
       "dsWrite"}

Idle == [pc |-> "idle", op |-> "none", d |-> Nobody, jar |-> NoJti, era |-> 0,
         secret |-> 0, step |-> 0, jti |-> NoJti]

TypeOK ==
  /\ era \in 1..MaxEra
  /\ secrets \in 0..MaxSecret
  /\ secret \in 0..secrets /\ pending \in 0..secrets
  /\ phone \subseteq 1..secrets
  /\ now \in 1..MaxStep
  /\ lastUsed \in 0..MaxStep
  /\ spent \in (0..secrets) \X (0..MaxStep)
  /\ suspended \in BOOLEAN
  /\ rows \subseteq Jti /\ stale \subseteq rows
  /\ cookie \in [Device -> Jti \cup {NoJti}]
  /\ hand \in [Device -> [stage: {"none", "proof", "code"}, era: 0..MaxEra]]
  /\ s \in [Slot -> [pc: PC, op: OpTag \cup {"none"}, d: Device \cup {Nobody},
                     jar: Jti \cup {NoJti}, era: 0..MaxEra, secret: 0..MaxSecret,
                     step: 0..MaxStep, jti: Jti \cup {NoJti}]]

(* A new account: one session, or none, and no second factor.              *)
Init ==
  /\ era = 1 /\ secret = 0 /\ pending = 0 /\ lastUsed = 0 /\ suspended = FALSE
  /\ rows = {} /\ cookie = [d \in Device |-> NoJti]
  /\ hand = [d \in Device |-> NoHand]
  /\ now = 1 /\ secrets = 0 /\ phone = {} /\ spent = <<0, 0>>
  /\ stale = {}
  /\ s = [i \in Slot |-> Idle]

-----------------------------------------------------------------------------
At(i, pc)  == s[i].pc = pc
Goto(i, p) == s' = [s EXCEPT ![i].pc = p]
Return(i)  == s' = [s EXCEPT ![i] = Idle]

MayRun(op, d) ==
  \A i \in Slot : s[i].op # "none" =>
    /\ {op, s[i].op} \notin Apart
    /\ s[i].d = d => {op, s[i].op} \notin ApartTab

NewCredentials == {"change", "recover"}

\* Device d sends a request with its cookie.
Request(op, d, pc) ==
  [Idle EXCEPT !.pc = pc, !.op = op, !.d = d, !.jar = cookie[d],
               !.era = IF op \in NewCredentials THEN era ELSE 0]

MaySend(i, op, d) == op \in Ops /\ At(i, "idle") /\ MayRun(op, d)

Send(i, op, d, pc) ==
  /\ MaySend(i, op, d)
  /\ s' = [s EXCEPT ![i] = Request(op, d, pc)]

\* getSession: the row of the cookie is there and the user is not suspended.
Session(d) == cookie[d] \in rows /\ ~suspended

\* An id that no table, cookie or request refers to.
Fresh == Jti \ (rows \cup {cookie[d] : d \in Device}
                     \cup UNION {{s[i].jar, s[i].jti} : i \in Slot})

\* Rows are deleted. Mutant: what is known of them stays.
DropRowsOnly(J) == rows' = rows \ J /\ stale' = stale
Drop(J) == rows' = rows \ J /\ stale' = stale \ J

\* The request has decided that sessions must end, and their delete is to come.
SigningOut(r) == r.pc \in {"raDelete", "roDelete", "suDelete"}

\* The session it keeps, and those it is to end.
Kept(r) == IF r.pc = "roDelete" THEN r.jar ELSE NoJti
Ends(r, j) == SigningOut(r) /\ j # Kept(r)

\* The request in slot i decides, as r, that every session but the one it keeps
\* must end.
SignOut(i, r) ==
  /\ stale' = stale \cup (rows \ {Kept(r)})
  /\ s' = [s EXCEPT ![i] = r]

-----------------------------------------------------------------------------
(* Signing in with a password.                                             *)

\* login/init: an SRP row with an ephemeral of the current verifier.
LoginInit(d) ==
  /\ "verify" \in Ops /\ hand[d].stage = "none"
  /\ \A i \in Slot : s[i].d = d => s[i].op \notin {"verify", "code"}
  /\ hand' = [hand EXCEPT ![d] = [stage |-> "proof", era |-> era]]
  /\ UNCHANGED <<db, rows, cookie, now, secrets, phone, spent, stale, s>>

\* The SRP row expires after five minutes, or the user turns away.
LoginExpire(d) ==
  /\ hand[d].stage # "none"
  /\ hand' = [hand EXCEPT ![d] = NoHand]
  /\ UNCHANGED <<db, rows, cookie, now, secrets, phone, spent, stale, s>>

Proves(h) == h.stage = "proof" /\ h.era = era

\* verify: the proof against the verifier of now, then suspension, then the
\* second factor, which keeps the SRP row for the code. A client whose proof is
\* refused starts again from init.
StartVerify(i, d) ==
  /\ Proves(hand[d]) /\ ~suspended /\ secret = 0
  /\ Send(i, "verify", d, "prune")
  /\ UNCHANGED <<db, rows, cookie, hand, now, secrets, phone, spent, stale>>

VerifyAsksCode(d) ==
  /\ Proves(hand[d]) /\ ~suspended /\ secret # 0
  /\ hand' = [hand EXCEPT ![d] = [stage |-> "code", era |-> 0]]
  /\ UNCHANGED <<db, rows, cookie, now, secrets, phone, spent, stale, s>>

VerifyRefuses(d) ==
  /\ hand[d].stage = "proof" /\ (~Proves(hand[d]) \/ suspended)
  /\ hand' = [hand EXCEPT ![d] = NoHand]
  /\ UNCHANGED <<db, rows, cookie, now, secrets, phone, spent, stale, s>>

InWindow(c) == c + Window >= now /\ c <= now + Window

\* verify-2fa with the code c that entry p of the authenticator shows: the SRP
\* row stands for the password, the code is validated against the secret of now.
StartCode(i, d, p, c) ==
  /\ hand[d].stage = "code"
  /\ p \in phone /\ c \in {now - 1, now} \ {0}
  /\ p = secret /\ InWindow(c)
  /\ MaySend(i, "code", d)
  /\ s' = [s EXCEPT ![i] = [Request("code", d, "cdCas") EXCEPT !.secret = p, !.step = c]]
  /\ UNCHANGED <<db, rows, cookie, hand, now, secrets, phone, spent, stale>>

\* Mutant: the period of the last code accepted passes again.
CodeFreshSame(i) == lastUsed <= s[i].step
CodeFresh(i) == lastUsed < s[i].step

\* One UPDATE that matches only while no code of this period was accepted.
CodeCas(i) ==
  /\ At(i, "cdCas")
  /\ \/ /\ CodeFresh(i)
        /\ lastUsed' = s[i].step
        /\ spent' = <<s[i].secret, s[i].step>>
        /\ Goto(i, "prune")
     \/ /\ ~CodeFresh(i)
        /\ Return(i)
        /\ UNCHANGED <<lastUsed, spent>>
  /\ UNCHANGED <<era, secret, pending, suspended, rows, cookie, hand, now, secrets,
                 phone, stale>>

-----------------------------------------------------------------------------
(* createSession, and the response that carries its cookie.                *)

\* Mutant: the row of the cookie stays.
PruneHandshake(i) ==
  /\ At(i, "prune")
  /\ hand' = IF s[i].op \in {"verify", "code"} THEN [hand EXCEPT ![s[i].d] = NoHand]
             ELSE hand
  /\ Goto(i, "insert")
  /\ UNCHANGED <<db, rows, cookie, now, secrets, phone, spent, stale>>

\* The SRP row goes if there is one, then the row of the cookie sent along.
Prune(i) ==
  /\ At(i, "prune")
  /\ hand' = IF s[i].op \in {"verify", "code"} THEN [hand EXCEPT ![s[i].d] = NoHand]
             ELSE hand
  /\ Drop({s[i].jar})
  /\ Goto(i, "insert")
  /\ UNCHANGED <<db, cookie, now, secrets, phone, spent>>

Insert(i, j) ==
  /\ At(i, "insert")
  /\ j \in Fresh
  /\ rows' = rows \cup {j}
  /\ stale' = IF \E k \in Slot : SigningOut(s[k]) THEN stale \cup {j} ELSE stale
  /\ s' = [s EXCEPT ![i].pc = "reply", ![i].jti = j]
  /\ UNCHANGED <<db, cookie, hand, now, secrets, phone, spent>>

Reply(i) ==
  /\ At(i, "reply")
  /\ cookie' = [cookie EXCEPT ![s[i].d] = s[i].jti]
  /\ Return(i)
  /\ UNCHANGED <<db, rows, hand, now, secrets, phone, spent, stale>>

ReplyClear(i) ==
  /\ At(i, "clear")
  /\ cookie' = [cookie EXCEPT ![s[i].d] = NoJti]
  /\ Return(i)
  /\ UNCHANGED <<db, rows, hand, now, secrets, phone, spent, stale>>

\* passkey/login-verify, from its check of the account on.
StartPasskey(i, d) ==
  /\ ~suspended
  /\ Send(i, "passkey", d, "prune")
  /\ UNCHANGED <<db, rows, cookie, hand, now, secrets, phone, spent, stale>>

-----------------------------------------------------------------------------
(* Signing out: one device, all of them, all others, one of the list.      *)

StartLogout(i, d) ==
  /\ cookie[d] # NoJti
  /\ Send(i, "logout", d, "loDelete")
  /\ UNCHANGED <<db, rows, cookie, hand, now, secrets, phone, spent, stale>>

LogoutDelete(i) ==
  /\ At(i, "loDelete")
  /\ Drop({s[i].jar})
  /\ Goto(i, "clear")
  /\ UNCHANGED <<db, cookie, hand, now, secrets, phone, spent>>

StartRevokeAll(i, d) ==
  /\ Session(d) /\ MaySend(i, "revokeAll", d)
  /\ SignOut(i, Request("revokeAll", d, "raDelete"))
  /\ UNCHANGED <<db, rows, cookie, hand, now, secrets, phone, spent>>

\* revokeAllSessions, in revoke-all and in change-password.
RevokeAll(i) ==
  /\ At(i, "raDelete")
  /\ Drop(Jti)
  /\ Goto(i, "prune")
  /\ UNCHANGED <<db, cookie, hand, now, secrets, phone, spent>>

StartRevokeOthers(i, d) ==
  /\ Session(d) /\ MaySend(i, "revokeOthers", d)
  /\ SignOut(i, Request("revokeOthers", d, "roDelete"))
  /\ UNCHANGED <<db, rows, cookie, hand, now, secrets, phone, spent>>

RevokeOthers(i) ==
  /\ At(i, "roDelete")
  /\ Drop(Jti \ {s[i].jar})
  /\ Return(i)
  /\ UNCHANGED <<db, cookie, hand, now, secrets, phone, spent>>

\* The user picks a row of the list of sessions.
StartRevokeOne(i, d, j) ==
  /\ Session(d) /\ j \in rows
  /\ MaySend(i, "revokeOne", d)
  /\ s' = [s EXCEPT ![i] = [Request("revokeOne", d, "r1Delete") EXCEPT !.jti = j]]
  /\ UNCHANGED <<db, rows, cookie, hand, now, secrets, phone, spent, stale>>

\* The cookie goes too when the row was the caller's own.
RevokeOne(i) ==
  /\ At(i, "r1Delete")
  /\ Drop({s[i].jti})
  /\ IF s[i].jti \in rows /\ s[i].jti = s[i].jar THEN Goto(i, "clear") ELSE Return(i)
  /\ UNCHANGED <<db, cookie, hand, now, secrets, phone, spent>>

\* An admin suspends the account and kicks it out everywhere.
StartSuspend(i) ==
  /\ ~suspended /\ MaySend(i, "suspend", Nobody)
  /\ suspended' = TRUE
  /\ SignOut(i, [Idle EXCEPT !.pc = "suDelete", !.op = "suspend"])
  /\ UNCHANGED <<era, secret, pending, lastUsed, rows, cookie, hand, now, secrets,
                 phone, spent>>

SuspendRevoke(i) ==
  /\ At(i, "suDelete")
  /\ Drop(Jti)
  /\ Return(i)
  /\ UNCHANGED <<db, cookie, hand, now, secrets, phone, spent>>

Unsuspend ==
  /\ "unsuspend" \in Ops /\ MayRun("unsuspend", Nobody) /\ suspended
  /\ suspended' = FALSE
  /\ UNCHANGED <<era, secret, pending, lastUsed, rows, cookie, hand, now, secrets,
                 phone, spent, stale, s>>

-----------------------------------------------------------------------------
(* New credentials: a change of the password, and recovery by the phrase.  *)

\* The user types the current password, from which the old verifier comes.
StartChange(i, d) ==
  /\ Session(d)
  /\ Send(i, "change", d, "cpUser")
  /\ UNCHANGED <<db, rows, cookie, hand, now, secrets, phone, spent, stale>>

ChangeUser(i) ==
  /\ At(i, "cpUser")
  /\ IF s[i].era = era THEN Goto(i, "cpUpdate") ELSE Return(i)
  /\ UNCHANGED <<db, rows, cookie, hand, now, secrets, phone, spent, stale>>

\* Mutant: the route goes straight on to createSession.
ChangeUpdateKeeps(i) ==
  /\ At(i, "cpUpdate") /\ era < MaxEra
  /\ era' = era + 1
  /\ SignOut(i, [s[i] EXCEPT !.pc = "prune"])
  /\ UNCHANGED <<secret, pending, lastUsed, suspended, rows, cookie, hand, now,
                 secrets, phone, spent>>

ChangeUpdate(i) ==
  /\ At(i, "cpUpdate") /\ era < MaxEra
  /\ era' = era + 1
  /\ SignOut(i, [s[i] EXCEPT !.pc = "raDelete"])
  /\ UNCHANGED <<secret, pending, lastUsed, suspended, rows, cookie, hand, now,
                 secrets, phone, spent>>

\* recover, verify: the phrase of now earns a token, with which the client
\* goes on to update.
StartRecover(i, d) ==
  /\ Send(i, "recover", d, "rcToken")
  /\ UNCHANGED <<db, rows, cookie, hand, now, secrets, phone, spent, stale>>

\* The token is consumed, then the suspension is checked.
RecoverToken(i) ==
  /\ At(i, "rcToken")
  /\ IF suspended THEN Return(i) ELSE Goto(i, "rcUpdate")
  /\ UNCHANGED <<db, rows, cookie, hand, now, secrets, phone, spent, stale>>

\* Mutant: without clearTotp.
RecoverUpdateOnly(i) ==
  /\ At(i, "rcUpdate") /\ era < MaxEra
  /\ era' = era + 1
  /\ phone' \in {phone, {}}
  /\ Goto(i, "prune")
  /\ UNCHANGED <<secret, pending, lastUsed, suspended, rows, cookie, hand, now, secrets, spent, stale>>

\* updateUserAuth with clearTotp. Who recovers may have lost the phone.
RecoverUpdate(i) ==
  /\ At(i, "rcUpdate") /\ era < MaxEra
  /\ era' = era + 1
  /\ secret' = 0 /\ pending' = 0 /\ lastUsed' = 0
  /\ phone' \in {phone, {}}
  /\ Goto(i, "prune")
  /\ UNCHANGED <<suspended, rows, cookie, hand, now, secrets, spent, stale>>

-----------------------------------------------------------------------------
(* The second factor: setup, verify-setup, disable.                        *)

StartSetup(i, d) ==
  /\ Session(d) /\ secret = 0
  /\ Send(i, "setup", d, "stWrite")
  /\ UNCHANGED <<db, rows, cookie, hand, now, secrets, phone, spent, stale>>

\* The user scans the new secret.
SetupWrite(i) ==
  /\ At(i, "stWrite") /\ secrets < MaxSecret
  /\ secrets' = secrets + 1
  /\ pending' = secrets + 1
  /\ phone' = phone \cup {secrets + 1}
  /\ Return(i)
  /\ UNCHANGED <<era, secret, lastUsed, suspended, rows, cookie, hand, now, spent, stale>>

\* With a code of the pending secret.
StartEnable(i, d) ==
  /\ Session(d) /\ pending \in phone
  /\ MaySend(i, "enable", d)
  /\ s' = [s EXCEPT ![i] = [Request("enable", d, "enWrite") EXCEPT !.secret = pending]]
  /\ UNCHANGED <<db, rows, cookie, hand, now, secrets, phone, spent, stale>>

EnableWrite(i) ==
  /\ At(i, "enWrite")
  /\ secret' = s[i].secret /\ pending' = 0
  /\ Return(i)
  /\ UNCHANGED <<era, lastUsed, suspended, rows, cookie, hand, now, secrets, phone,
                 spent, stale>>

\* With a code of the secret.
StartDisable(i, d) ==
  /\ Session(d) /\ secret \in phone
  /\ Send(i, "disable", d, "dsWrite")
  /\ UNCHANGED <<db, rows, cookie, hand, now, secrets, phone, spent, stale>>

DisableWrite(i) ==
  /\ At(i, "dsWrite")
  /\ secret' = 0
  /\ Return(i)
  /\ UNCHANGED <<era, pending, lastUsed, suspended, rows, cookie, hand, now, secrets,
                 phone, spent, stale>>

-----------------------------------------------------------------------------
\* A sign-out dies, or fails, between what it has decided and its delete. What
\* it was to end is stale only if another one is to end it too.
Die(i) ==
  /\ SigningOut(s[i])
  /\ stale' = {j \in stale : \E k \in Slot \ {i} : Ends(s[k], j)}
  /\ Return(i)
  /\ UNCHANGED <<db, rows, cookie, hand, now, secrets, phone, spent>>

Tick ==
  /\ now < MaxStep
  /\ now' = now + 1
  /\ UNCHANGED <<db, rows, cookie, hand, secrets, phone, spent, stale, s>>

Begin(i) ==
  \/ \E d \in Device :
       \/ StartVerify(i, d) \/ StartPasskey(i, d) \/ StartLogout(i, d)
       \/ StartRevokeAll(i, d) \/ StartRevokeOthers(i, d)
       \/ StartChange(i, d) \/ StartRecover(i, d)
       \/ StartSetup(i, d) \/ StartEnable(i, d) \/ StartDisable(i, d)
       \/ \E j \in Jti : StartRevokeOne(i, d, j)
       \/ \E p \in phone, c \in 1..MaxStep : StartCode(i, d, p, c)
  \/ StartSuspend(i)

Step(i) ==
  \/ CodeCas(i) \/ Prune(i) \/ (\E j \in Jti : Insert(i, j)) \/ Reply(i) \/ ReplyClear(i)
  \/ LogoutDelete(i) \/ RevokeAll(i) \/ RevokeOthers(i) \/ RevokeOne(i)
  \/ SuspendRevoke(i)
  \/ ChangeUser(i) \/ ChangeUpdate(i) \/ RecoverToken(i) \/ RecoverUpdate(i)
  \/ SetupWrite(i) \/ EnableWrite(i) \/ DisableWrite(i) \/ Die(i)

Next ==
  \/ \E i \in Slot : Begin(i) \/ Step(i)
  \/ \E d \in Device :
       \/ LoginInit(d)
       \/ LoginExpire(d) \/ VerifyAsksCode(d) \/ VerifyRefuses(d)
  \/ Unsuspend
  \/ Tick

Spec == Init /\ [][Next]_vars

-----------------------------------------------------------------------------
(* Pairs that break a property when they overlap.                          *)

\* The requests that end in createSession, and those that answer with a cookie.
SignIns == {"verify", "code", "passkey", "revokeAll", "change", "recover"}
Answers == SignIns \cup {"logout", "revokeOne"}

\* Those that do from any two devices.
Races == {{"code", "recover"}, {"enable", "recover"}}

\* Those that do when one device sends both, from two tabs.
TabRaces == {{o, p} : o \in SignIns, p \in Answers}

-----------------------------------------------------------------------------
(* Properties.                                                             *)

\* Once no sign-out (revoke-all, sign out of all others, a new password, a
\* suspension) runs, every session is gone that one of them found or that was
\* created while one ran, whatever overlaps; but for those of a sign-out that
\* died before its delete (Die), the credentials or the suspension written. Of a
\* sign-in that creates its session after the delete nothing is said, although
\* it may have passed its checks before: see the README.
SignOutHolds == (\A i \in Slot : ~SigningOut(s[i])) => stale = {}

\* Every row is some device's cookie, or about to be: nothing is listed under
\* Active sessions that no device can use.
NoOrphanSessions ==
  \A j \in rows :
    (\E d \in Device : cookie[d] = j) \/ (\E i \in Slot : s[i].pc = "reply" /\ s[i].jti = j)

\* A code is accepted by one login only.
CodeUsedOnce ==
  [][\A i \in Slot : At(i, "cdCas") /\ s'[i].pc = "prune"
                    => <<s[i].secret, s[i].step>> # spent]_vars

\* A second factor in force is one the user's authenticator can answer: nobody
\* who recovered the account is locked out by the factor recovery removed.
SecondFactorPassable == secret # 0 => secret \in phone
=============================================================================
