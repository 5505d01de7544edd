------------------------ MODULE LoginSessions_proofs ------------------------
(***************************************************************************)
(* Theorems about LoginSessions, for every number of browsers, rows and    *)
(* slots and any bound. The first two assume nothing; the others, that the *)
(* pairs of Races and TabRaces do not overlap.                             *)
(***************************************************************************)
EXTENDS LoginSessions, TLAPS

SlotRec == [pc: PC, op: OpTag \cup {"none"}, d: Device \cup {Nobody},
            jar: Jti \cup {NoJti}, era: 0..MaxEra, secret: 0..MaxSecret,
            step: 0..MaxStep, jti: Jti \cup {NoJti}]

-----------------------------------------------------------------------------
(* Types.                                                                  *)

\* TypeOK is not inductive: enable and a code put into force, or record, the
\* secret that their slot carries, which has to be one generated by then.
TypeInv == TypeOK /\ \A i \in Slot : s[i].secret <= secrets

LEMMA Bounds ==
  /\ MaxEra \in Nat /\ MaxEra >= 1 /\ MaxStep \in Nat /\ MaxStep >= 1
  /\ MaxSecret \in Nat /\ 0 \in 0..MaxEra /\ 0 \in 0..MaxSecret /\ 0 \in 0..MaxStep
BY BoundAssumption

LEMMA Names ==
  /\ {"verify", "code", "passkey", "logout", "revokeAll", "revokeOthers", "revokeOne",
      "change", "recover", "suspend", "setup", "enable", "disable"} \subseteq OpTag
  /\ {"idle", "prune", "insert", "reply", "cdCas", "loDelete", "clear", "raDelete",
      "roDelete", "r1Delete", "cpUser", "cpUpdate", "rcToken", "rcUpdate", "suDelete",
      "stWrite", "enWrite", "dsWrite"} \subseteq PC
BY DEF OpTag, PC

LEMMA IdleTyped == Idle \in SlotRec /\ Idle.secret = 0
BY Bounds DEF Idle, SlotRec, PC

LEMMA SlotTyped == TypeOK => s \in [Slot -> SlotRec]
BY DEF TypeOK, SlotRec

LEMMA SignOutTyped ==
  ASSUME TypeInv, NEW i \in Slot, NEW r \in SlotRec, r.secret <= secrets,
         SignOut(i, r)
  PROVE  /\ s' \in [Slot -> SlotRec] /\ \A k \in Slot : s'[k].secret <= secrets
         /\ stale' \subseteq rows
<1>1. s \in [Slot -> SlotRec] /\ \A k \in Slot : s[k].secret <= secrets
  BY SlotTyped DEF TypeInv
<1>2. stale \subseteq rows
  BY DEF TypeInv, TypeOK
<1> QED
  BY <1>1, <1>2 DEF SignOut

LEMMA TypeInit == Init => TypeInv
<1> SUFFICES ASSUME Init PROVE TypeInv
  OBVIOUS
<1>1. s \in [Slot -> SlotRec] /\ \A i \in Slot : s[i].secret <= secrets
  BY IdleTyped DEF Init
<1>2. hand \in [Device -> [stage: {"none", "proof", "code"}, era: 0..MaxEra]]
  BY Bounds DEF Init, NoHand
<1>3. spent \in (0..secrets) \X (0..MaxStep)
  BY Bounds DEF Init
<1>4. cookie \in [Device -> Jti \cup {NoJti}]
  BY DEF Init
<1>5. /\ era \in 1..MaxEra /\ now \in 1..MaxStep
      /\ secrets \in 0..MaxSecret /\ secret \in 0..secrets /\ pending \in 0..secrets
      /\ lastUsed \in 0..MaxStep
  BY Bounds DEF Init
<1>6. /\ phone \subseteq 1..secrets /\ suspended \in BOOLEAN
      /\ rows \subseteq Jti /\ stale \subseteq rows
  BY DEF Init
<1> QED
  BY <1>1, <1>2, <1>3, <1>4, <1>5, <1>6 DEF TypeInv, TypeOK, SlotRec

\* What the steps of one slot do to types.
LEMMA TypeBegin ==
  ASSUME TypeInv, NEW i \in Slot, Begin(i)
  PROVE  TypeInv'
<1> USE DEF db
<1>s. s \in [Slot -> SlotRec] /\ \A k \in Slot : s[k].secret <= secrets
  BY SlotTyped DEF TypeInv
<1>g. secrets \in Nat /\ secrets <= MaxSecret
  BY Bounds DEF TypeInv, TypeOK
<1>c. era \in 0..MaxEra /\ \A d \in Device : cookie[d] \in Jti \cup {NoJti}
  BY Bounds DEF TypeInv, TypeOK
<1>1. ASSUME NEW op \in OpTag, NEW d \in Device, NEW pc \in PC, Send(i, op, d, pc),
             UNCHANGED <<db, rows, cookie, hand, now, secrets, phone, spent, stale>>
      PROVE  TypeInv'
  <2>1. Request(op, d, pc) \in SlotRec /\ Request(op, d, pc).secret = 0
    BY <1>c, Bounds DEF Request, Idle, SlotRec
  <2>2. s' \in [Slot -> SlotRec] /\ \A k \in Slot : s'[k].secret <= secrets
    BY <1>1, <1>s, <1>g, <2>1 DEF Send
  <2> QED
    BY <1>1, <2>2 DEF TypeInv, TypeOK, SlotRec
<1>2. ASSUME NEW r \in SlotRec, r.secret <= secrets, s' = [s EXCEPT ![i] = r],
             UNCHANGED <<db, rows, cookie, hand, now, secrets, phone, spent, stale>>
      PROVE  TypeInv'
  <2>2. s' \in [Slot -> SlotRec] /\ \A k \in Slot : s'[k].secret <= secrets
    BY <1>2, <1>s
  <2> QED
    BY <1>2, <2>2 DEF TypeInv, TypeOK, SlotRec
<1>3. ASSUME NEW r \in SlotRec, r.secret <= secrets, SignOut(i, r),
             UNCHANGED <<era, secret, pending, lastUsed, rows, cookie, hand, now, secrets,
                         phone, spent>>,
             suspended' \in BOOLEAN
      PROVE  TypeInv'
  BY <1>3, SignOutTyped DEF TypeInv, TypeOK, SlotRec
<1>4. ASSUME NEW d \in Device
      PROVE  /\ StartVerify(i, d) \/ StartPasskey(i, d) \/ StartLogout(i, d)
                  \/ StartChange(i, d) \/ StartRecover(i, d)
                  \/ StartSetup(i, d) \/ StartDisable(i, d) => TypeInv'
  BY <1>1, Names DEF StartVerify, StartPasskey, StartLogout, StartChange, StartRecover,
              StartSetup, StartDisable
<1>5. ASSUME NEW d \in Device, StartRevokeAll(i, d) \/ StartRevokeOthers(i, d)
      PROVE  TypeInv'
  <2>1. suspended' \in BOOLEAN
    BY <1>5 DEF StartRevokeAll, StartRevokeOthers, TypeInv, TypeOK
  <2>2. ASSUME NEW op \in OpTag, NEW pc \in PC
        PROVE  Request(op, d, pc) \in SlotRec /\ Request(op, d, pc).secret <= secrets
    <3>1. Request(op, d, pc) \in SlotRec /\ Request(op, d, pc).secret = 0
      BY <1>c, Bounds DEF Request, Idle, SlotRec
    <3> QED
      BY <3>1, <1>g
  <2> QED
    BY <1>3, <1>5, <2>1, <2>2, Names DEF StartRevokeAll, StartRevokeOthers
<1>6. ASSUME NEW d \in Device, NEW j \in Jti, StartRevokeOne(i, d, j)
      PROVE  TypeInv'
  <2> DEFINE r == [Request("revokeOne", d, "r1Delete") EXCEPT !.jti = j]
  <2>1. r \in SlotRec /\ r.secret <= secrets
    <3>1. r \in SlotRec /\ r.secret = 0
      BY <1>c, Names, Bounds DEF Request, Idle, SlotRec
    <3> QED
      BY <3>1, <1>g
  <2> QED
    BY <1>2, <1>6, <2>1 DEF StartRevokeOne
<1>7. ASSUME NEW d \in Device, StartEnable(i, d)
      PROVE  TypeInv'
  <2> DEFINE r == [Request("enable", d, "enWrite") EXCEPT !.secret = pending]
  <2>1. r \in SlotRec /\ r.secret <= secrets
    <3>1. pending \in 0..MaxSecret /\ pending <= secrets
      BY <1>g, Bounds DEF TypeInv, TypeOK
    <3> QED
      BY <1>c, <3>1, Names, Bounds DEF Request, Idle, SlotRec
  <2> QED
    BY <1>2, <1>7, <2>1 DEF StartEnable
<1>8. ASSUME NEW d \in Device, NEW p \in phone, NEW c \in 1..MaxStep, StartCode(i, d, p, c)
      PROVE  TypeInv'
  <2> DEFINE r == [Request("code", d, "cdCas") EXCEPT !.secret = p, !.step = c]
  <2>1. r \in SlotRec /\ r.secret <= secrets
    <3>1. p \in 0..MaxSecret /\ p <= secrets /\ c \in 0..MaxStep
      BY <1>g, Bounds DEF TypeInv, TypeOK
    <3> QED
      BY <1>c, <3>1, Names, Bounds DEF Request, Idle, SlotRec
  <2> QED
    BY <1>2, <1>8, <2>1 DEF StartCode
<1>9. CASE StartSuspend(i)
  <2> DEFINE r == [Idle EXCEPT !.pc = "suDelete", !.op = "suspend"]
  <2>1. r \in SlotRec /\ r.secret <= secrets
    <3>1. r \in SlotRec /\ r.secret = 0
      BY Names, Bounds DEF Idle, SlotRec
    <3> QED
      BY <3>1, <1>g
  <2> QED
    BY <1>3, <1>9, <2>1 DEF StartSuspend
<1> QED
  BY <1>4, <1>5, <1>6, <1>7, <1>8, <1>9 DEF Begin

LEMMA TypeStep ==
  ASSUME TypeInv, NEW i \in Slot, Step(i)
  PROVE  TypeInv'
<1> USE DEF db
<1>s. s \in [Slot -> SlotRec] /\ \A k \in Slot : s[k].secret <= secrets
  BY SlotTyped DEF TypeInv
<1>r. /\ s[i] \in SlotRec /\ s[i].secret \in 0..secrets /\ s[i].step \in 0..MaxStep
      /\ s[i].jti \in Jti \cup {NoJti}
  BY <1>s, Bounds DEF SlotRec, TypeInv, TypeOK
<1>g. secrets \in Nat /\ secrets <= MaxSecret /\ era \in Nat
  BY Bounds DEF TypeInv, TypeOK
<1>1. ASSUME NEW p \in PC, Goto(i, p)
      PROVE  s' \in [Slot -> SlotRec] /\ \A k \in Slot : s'[k].secret <= secrets
  BY <1>1, <1>s DEF Goto, SlotRec
<1>2. ASSUME Return(i)
      PROVE  s' \in [Slot -> SlotRec] /\ \A k \in Slot : s'[k].secret <= secrets
  BY <1>2, <1>s, <1>g, IdleTyped DEF Return
<1>3. ASSUME NEW J, Drop(J)
      PROVE  rows' \subseteq Jti /\ stale' \subseteq rows'
  BY <1>3 DEF Drop, TypeInv, TypeOK
<1>a. CASE CodeCas(i)
  <2>1. spent' \in (0..secrets) \X (0..MaxStep) /\ lastUsed' \in 0..MaxStep
    BY <1>a, <1>r DEF CodeCas, TypeInv, TypeOK
  <2> QED
    BY <1>a, <1>1, <1>2, <2>1, Names DEF CodeCas, TypeInv, TypeOK, SlotRec
<1>b. CASE Prune(i)
  <2>1. hand' \in [Device -> [stage: {"none", "proof", "code"}, era: 0..MaxEra]]
    BY <1>b, Bounds DEF Prune, NoHand, TypeInv, TypeOK
  <2> QED
    BY <1>b, <1>1, <1>3, <2>1, Names DEF Prune, TypeInv, TypeOK, SlotRec
<1>c. ASSUME NEW j \in Jti, Insert(i, j)
      PROVE  TypeInv'
  <2> DEFINE r == [s[i] EXCEPT !.pc = "reply", !.jti = j]
  <2>3. r \in SlotRec /\ r.secret = s[i].secret
    BY <1>r, Names DEF SlotRec
  <2>4. s' = [s EXCEPT ![i] = r]
    BY <1>c, <1>s DEF Insert
  <2>1. s' \in [Slot -> SlotRec] /\ \A k \in Slot : s'[k].secret <= secrets
    BY <2>3, <2>4, <1>s
  <2>2. rows' \subseteq Jti /\ stale' \subseteq rows'
    BY <1>c DEF Insert, TypeInv, TypeOK
  <2> QED
    BY <1>c, <2>1, <2>2 DEF Insert, TypeInv, TypeOK, SlotRec
<1>d. CASE Reply(i) \/ ReplyClear(i)
  <2>1. cookie' \in [Device -> Jti \cup {NoJti}]
    BY <1>d, <1>r DEF Reply, ReplyClear, TypeInv, TypeOK
  <2> QED
    BY <1>d, <1>2, <2>1 DEF Reply, ReplyClear, TypeInv, TypeOK, SlotRec
<1>e. CASE LogoutDelete(i) \/ RevokeAll(i) \/ RevokeOthers(i) \/ RevokeOne(i)
           \/ SuspendRevoke(i)
  <2>1. rows' \subseteq Jti /\ stale' \subseteq rows'
    BY <1>e, <1>3 DEF LogoutDelete, RevokeAll, RevokeOthers, RevokeOne, SuspendRevoke
  <2>2. s' \in [Slot -> SlotRec] /\ \A k \in Slot : s'[k].secret <= secrets
    BY <1>e, <1>1, <1>2, Names
    DEF LogoutDelete, RevokeAll, RevokeOthers, RevokeOne, SuspendRevoke
  <2> QED
    BY <1>e, <2>1, <2>2 DEF LogoutDelete, RevokeAll, RevokeOthers, RevokeOne,
                            SuspendRevoke, TypeInv, TypeOK, SlotRec
<1>f. CASE ChangeUser(i) \/ RecoverToken(i)
  BY <1>f, <1>1, <1>2, Names DEF ChangeUser, RecoverToken, TypeInv, TypeOK, SlotRec
<1>h. CASE ChangeUpdate(i)
  <2> DEFINE r == [s[i] EXCEPT !.pc = "raDelete"]
  <2>1. r \in SlotRec /\ r.secret <= secrets
    BY <1>s, Names DEF SlotRec
  <2>2. era' \in 1..MaxEra
    BY <1>h, <1>g, Bounds DEF ChangeUpdate
  <2> QED
    BY <1>h, <2>1, <2>2, SignOutTyped DEF ChangeUpdate, TypeInv, TypeOK, SlotRec
<1>i. CASE RecoverUpdate(i)
  <2>1. era' \in 1..MaxEra /\ phone' \subseteq 1..secrets
    BY <1>i, <1>g, Bounds DEF RecoverUpdate, TypeInv, TypeOK
  <2> QED
    BY <1>i, <1>1, <1>g, <2>1, Names, Bounds DEF RecoverUpdate, TypeInv, TypeOK, SlotRec
<1>j. CASE SetupWrite(i)
  <2>1. /\ secrets' \in 0..MaxSecret /\ pending' \in 0..secrets' /\ secret' \in 0..secrets'
        /\ phone' \subseteq 1..secrets'
    BY <1>j, <1>g, Bounds DEF SetupWrite, TypeInv, TypeOK
  <2>2. spent' \in (0..secrets') \X (0..MaxStep)
    <3>1. 0..secrets \subseteq 0..secrets'
      BY <1>j, <1>g DEF SetupWrite
    <3> QED
      BY <1>j, <3>1 DEF SetupWrite, TypeInv, TypeOK
  <2>3. s' \in [Slot -> SlotRec] /\ \A k \in Slot : s'[k].secret <= secrets'
    <3>1. \A k \in Slot : s'[k].secret <= secrets
      BY <1>j, <1>2 DEF SetupWrite
    <3>2. s' \in [Slot -> SlotRec]
      BY <1>j, <1>2 DEF SetupWrite
    <3>3. \A k \in Slot : s'[k].secret \in Nat
      BY <3>2, Bounds DEF SlotRec
    <3> QED
      BY <1>j, <1>g, <3>1, <3>2, <3>3 DEF SetupWrite
  <2> QED
    BY <1>j, <2>1, <2>2, <2>3 DEF SetupWrite, TypeInv, TypeOK, SlotRec
<1>l. CASE Die(i)
  BY <1>l, <1>2 DEF Die, TypeInv, TypeOK, SlotRec
<1>k. CASE EnableWrite(i) \/ DisableWrite(i)
  <2>1. secret' \in 0..secrets /\ pending' \in 0..secrets
    BY <1>k, <1>r, <1>g DEF EnableWrite, DisableWrite, TypeInv, TypeOK
  <2> QED
    BY <1>k, <1>2, <2>1 DEF EnableWrite, DisableWrite, TypeInv, TypeOK, SlotRec
<1> QED
  BY <1>a, <1>b, <1>c, <1>d, <1>e, <1>f, <1>h, <1>i, <1>j, <1>k, <1>l DEF Step

\* The steps that no slot takes.
Aside ==
  \/ \E d \in Device : LoginInit(d) \/ LoginExpire(d) \/ VerifyAsksCode(d) \/ VerifyRefuses(d)
  \/ Unsuspend
  \/ Tick

LEMMA TypeAside ==
  ASSUME TypeInv, Aside
  PROVE  TypeInv'
<1> USE DEF db
<1>1. hand' \in [Device -> [stage: {"none", "proof", "code"}, era: 0..MaxEra]]
  BY Bounds DEF Aside, LoginInit, LoginExpire, VerifyAsksCode, VerifyRefuses, Unsuspend,
                Tick, NoHand, TypeInv, TypeOK
<1>2. now' \in 1..MaxStep
  BY Bounds DEF Aside, LoginInit, LoginExpire, VerifyAsksCode, VerifyRefuses, Unsuspend,
                Tick, TypeInv, TypeOK
<1> QED
  BY <1>1, <1>2 DEF Aside, LoginInit, LoginExpire, VerifyAsksCode, VerifyRefuses, Unsuspend,
                    Tick, TypeInv, TypeOK, SlotRec

LEMMA TypeNext == TypeInv /\ [Next]_vars => TypeInv'
<1> SUFFICES ASSUME TypeInv, [Next]_vars PROVE TypeInv'
  OBVIOUS
<1>1. CASE UNCHANGED vars
  BY <1>1 DEF vars, db, TypeInv, TypeOK
<1>2. ASSUME NEW i \in Slot, Begin(i) \/ Step(i)
      PROVE  TypeInv'
  BY <1>2, TypeBegin, TypeStep
<1>3. CASE Aside
  BY <1>3, TypeAside
<1> QED
  BY <1>1, <1>2, <1>3 DEF Next, Aside

LEMMA TypeHolds == Spec => []TypeInv
<1>1. Init => TypeInv
  BY TypeInit
<1>2. TypeInv /\ [Next]_vars => TypeInv'
  BY TypeNext
<1> QED
  BY <1>1, <1>2, PTL DEF Spec

(* For every number of browsers, rows and slots, whatever overlaps, the state *)
(* keeps its types.                                                           *)
THEOREM TypeCorrect == Spec => []TypeOK
<1>1. TypeInv => TypeOK
  BY DEF TypeInv
<1> QED
  BY <1>1, TypeHolds, PTL

-----------------------------------------------------------------------------
(* What the slots hold.                                                    *)

RacesApart == Races \subseteq Apart /\ TabRaces \subseteq ApartTab

LEMMA RacePairs ==
  ASSUME RacesApart
  PROVE  /\ {"code", "recover"} \in Apart /\ {"enable", "recover"} \in Apart
         /\ \A o \in SignIns, p \in Answers : {o, p} \in ApartTab
BY DEF RacesApart, Races, TabRaces

\* Which request may be where.
Placed(r) ==
  /\ r.pc = "idle" <=> r.op = "none"
  /\ r.pc = "cdCas" => r.op = "code"
  /\ r.pc \in {"prune", "insert", "reply"} => r.op \in SignIns
  /\ r.pc = "clear" => r.op \in {"logout", "revokeOne"}
  /\ r.pc = "loDelete" => r.op = "logout"
  /\ r.pc = "r1Delete" => r.op = "revokeOne"
  /\ r.pc = "raDelete" => r.op \in {"revokeAll", "change"}
  /\ r.pc = "roDelete" => r.op = "revokeOthers"
  /\ r.pc = "suDelete" => r.op = "suspend"
  /\ r.pc \in {"cpUser", "cpUpdate"} => r.op = "change"
  /\ r.pc \in {"rcToken", "rcUpdate"} => r.op = "recover"
  /\ r.pc = "enWrite" => r.op = "enable"
  /\ r.op \in Answers => r.d \in Device

Together(r, q) ==
  r.op # "none" /\ q.op # "none" =>
    /\ {r.op, q.op} \notin Apart
    /\ r.d = q.d => {r.op, q.op} \notin ApartTab

SlotInv ==
  /\ \A i \in Slot : Placed(s[i])
  /\ \A i, k \in Slot : i # k => Together(s[i], s[k])

\* A request r arrives in slot i.
Started(i, r) ==
  /\ s[i].pc = "idle" /\ MayRun(r.op, r.d)
  /\ s' = [s EXCEPT ![i] = r]
  /\ Placed(r)
  /\ r.op # "none" /\ r.pc \notin {"insert", "reply", "clear"}
  /\ r.d \in Device => r.jar = cookie[r.d]
  /\ r.pc = "cdCas" => r.secret = secret /\ secret \in phone
  /\ r.pc = "enWrite" => r.secret = pending /\ pending \in phone
  /\ \/ stale' = stale
     \/ SigningOut(r) /\ stale' = stale \cup (rows \ {Kept(r)})
  /\ UNCHANGED <<era, secret, pending, lastUsed, rows, cookie, hand, now, secrets, phone, spent>>

\* The request in slot i goes on as r, or is answered.
Advanced(i, r) ==
  /\ s[i].pc # "idle"
  /\ s' = [s EXCEPT ![i] = r]
  /\ \/ r = Idle
     \/ /\ r.pc \notin {"idle", "cdCas", "enWrite"} /\ Placed(r)
        /\ r.op = s[i].op /\ r.d = s[i].d /\ r.jar = s[i].jar

LEMMA Begins ==
  ASSUME TypeInv, SlotInv, NEW i \in Slot, Begin(i)
  PROVE  \E r \in SlotRec : Started(i, r)
<1> USE DEF db
<1>s. s \in [Slot -> SlotRec]
  BY SlotTyped DEF TypeInv
<1>c. era \in 0..MaxEra /\ \A d \in Device : cookie[d] \in Jti \cup {NoJti}
  BY Bounds DEF TypeInv, TypeOK
<1>1. ASSUME NEW d \in Device, NEW op, NEW pc, Send(i, op, d, pc),
             <<op, pc>> \in {<<"verify", "prune">>, <<"passkey", "prune">>,
               <<"logout", "loDelete">>, <<"change", "cpUser">>, <<"recover", "rcToken">>,
               <<"setup", "stWrite">>, <<"disable", "dsWrite">>},
             UNCHANGED <<db, rows, cookie, hand, now, secrets, phone, spent, stale>>
      PROVE  \E r \in SlotRec : Started(i, r)
  <2> DEFINE r == Request(op, d, pc)
  <2>1. r \in SlotRec /\ r.op = op /\ r.pc = pc /\ r.d = d /\ r.jar = cookie[d]
    BY <1>1, <1>c, Names, Bounds DEF Request, Idle, SlotRec
  <2>2. Placed(r)
    BY <1>1, <2>1 DEF Placed, SignIns, Answers
  <2>3. Started(i, r)
    BY <1>1, <2>1, <2>2 DEF Started, Send, MaySend, At
  <2> QED
    BY <2>1, <2>3
<1>2. ASSUME NEW d \in Device, NEW op, NEW pc,
             <<op, pc>> \in {<<"revokeAll", "raDelete">>, <<"revokeOthers", "roDelete">>},
             MaySend(i, op, d), SignOut(i, Request(op, d, pc)),
             UNCHANGED <<db, rows, cookie, hand, now, secrets, phone, spent>>
      PROVE  \E r \in SlotRec : Started(i, r)
  <2> DEFINE r == Request(op, d, pc)
  <2>1. r \in SlotRec /\ r.op = op /\ r.pc = pc /\ r.d = d /\ r.jar = cookie[d]
    BY <1>2, <1>c, Names, Bounds DEF Request, Idle, SlotRec
  <2>2. Placed(r) /\ r.op # "none" /\ SigningOut(r)
    BY <1>2, <2>1 DEF Placed, SignIns, Answers, SigningOut
  <2>3. s' = [s EXCEPT ![i] = r] /\ stale' = stale \cup (rows \ {Kept(r)})
    BY <1>2 DEF SignOut
  <2>4. Started(i, r)
    BY <1>2, <2>1, <2>2, <2>3 DEF Started, MaySend, At
  <2> QED
    BY <2>1, <2>4
<1>3. ASSUME NEW d \in Device, NEW j \in Jti, StartRevokeOne(i, d, j)
      PROVE  \E r \in SlotRec : Started(i, r)
  <2> DEFINE r == [Request("revokeOne", d, "r1Delete") EXCEPT !.jti = j]
  <2>1. /\ r \in SlotRec /\ r.op = "revokeOne" /\ r.pc = "r1Delete"
        /\ r.d = d /\ r.jar = cookie[d]
    BY <1>c, Names, Bounds DEF Request, Idle, SlotRec
  <2>2. Placed(r)
    BY <2>1 DEF Placed, SignIns, Answers
  <2>3. Started(i, r)
    BY <1>3, <2>1, <2>2 DEF Started, StartRevokeOne, MaySend, At
  <2> QED
    BY <2>1, <2>3
<1>4. ASSUME NEW d \in Device, StartEnable(i, d)
      PROVE  \E r \in SlotRec : Started(i, r)
  <2> DEFINE r == [Request("enable", d, "enWrite") EXCEPT !.secret = pending]
  <2>0. pending \in 0..MaxSecret
    BY Bounds DEF TypeInv, TypeOK
  <2>1. /\ r \in SlotRec /\ r.op = "enable" /\ r.pc = "enWrite" /\ r.secret = pending
        /\ r.d = d /\ r.jar = cookie[d]
    BY <1>c, <2>0, Names, Bounds DEF Request, Idle, SlotRec
  <2>2. Placed(r)
    BY <2>1 DEF Placed, SignIns, Answers
  <2>3. Started(i, r)
    BY <1>4, <2>1, <2>2 DEF Started, StartEnable, MaySend, At
  <2> QED
    BY <2>1, <2>3
<1>5. ASSUME NEW d \in Device, NEW p \in phone, NEW c \in 1..MaxStep, StartCode(i, d, p, c)
      PROVE  \E r \in SlotRec : Started(i, r)
  <2> DEFINE r == [Request("code", d, "cdCas") EXCEPT !.secret = p, !.step = c]
  <2>0. p \in 0..MaxSecret /\ c \in 0..MaxStep
    BY Bounds DEF TypeInv, TypeOK
  <2>1. /\ r \in SlotRec /\ r.op = "code" /\ r.pc = "cdCas" /\ r.secret = p
        /\ r.d = d /\ r.jar = cookie[d]
    BY <1>c, <2>0, Names, Bounds DEF Request, Idle, SlotRec
  <2>2. Placed(r)
    BY <2>1 DEF Placed, SignIns, Answers
  <2>3. Started(i, r)
    BY <1>5, <2>1, <2>2 DEF Started, StartCode, MaySend, At
  <2> QED
    BY <2>1, <2>3
<1>6. CASE StartSuspend(i)
  <2> DEFINE r == [Idle EXCEPT !.pc = "suDelete", !.op = "suspend"]
  <2>1. /\ r \in SlotRec /\ r.op = "suspend" /\ r.pc = "suDelete"
        /\ r.d = Nobody /\ r.jar = NoJti
    BY Names, Bounds DEF Idle, SlotRec
  <2>2. Placed(r) /\ r.op # "none" /\ r.d \notin Device /\ SigningOut(r)
    BY <2>1, NoneAssumption DEF Placed, SignIns, Answers, SigningOut
  <2>3. s' = [s EXCEPT ![i] = r] /\ stale' = stale \cup (rows \ {Kept(r)})
    BY <1>6 DEF StartSuspend, SignOut
  <2>4. Started(i, r)
    BY <1>6, <2>1, <2>2, <2>3 DEF Started, StartSuspend, MaySend, At
  <2> QED
    BY <2>1, <2>4
<1>7. ASSUME NEW d \in Device,
             \/ StartVerify(i, d) \/ StartPasskey(i, d) \/ StartLogout(i, d)
             \/ StartChange(i, d) \/ StartRecover(i, d)
             \/ StartSetup(i, d) \/ StartDisable(i, d)
      PROVE  \E r \in SlotRec : Started(i, r)
  BY <1>1, <1>7 DEF StartVerify, StartPasskey, StartLogout, StartChange, StartRecover,
                    StartSetup, StartDisable
<1>8. ASSUME NEW d \in Device, StartRevokeAll(i, d) \/ StartRevokeOthers(i, d)
      PROVE  \E r \in SlotRec : Started(i, r)
  BY <1>2, <1>8 DEF StartRevokeAll, StartRevokeOthers
<1> QED
  BY <1>3, <1>4, <1>5, <1>6, <1>7, <1>8 DEF Begin

LEMMA Steps ==
  ASSUME TypeInv, SlotInv, NEW i \in Slot, Step(i)
  PROVE  \E r \in SlotRec : Advanced(i, r)
<1> USE DEF db
<1>s. s \in [Slot -> SlotRec] /\ s[i] \in SlotRec /\ Placed(s[i])
  BY SlotTyped DEF TypeInv, SlotInv
<1>1. ASSUME Return(i), s[i].pc # "idle"
      PROVE  \E r \in SlotRec : Advanced(i, r)
  BY <1>1, IdleTyped DEF Return, Advanced
<1>2. ASSUME NEW p \in PC \ {"idle", "cdCas", "enWrite"}, Goto(i, p), s[i].pc # "idle",
             Placed([s[i] EXCEPT !.pc = p])
      PROVE  \E r \in SlotRec : Advanced(i, r)
  <2> DEFINE r == [s[i] EXCEPT !.pc = p]
  <2>1. /\ r \in SlotRec /\ r.pc = p
        /\ r.op = s[i].op /\ r.d = s[i].d /\ r.jar = s[i].jar
    BY <1>s DEF SlotRec
  <2>2. s' = [s EXCEPT ![i] = r]
    BY <1>2, <1>s DEF Goto
  <2> QED
    BY <1>2, <2>1, <2>2 DEF Advanced
<1>3. \A p \in PC : LET r == [s[i] EXCEPT !.pc = p] IN
        /\ r.pc = p /\ r.op = s[i].op /\ r.d = s[i].d
  BY <1>s DEF SlotRec
<1>a. CASE CodeCas(i)
  <2>1. Placed([s[i] EXCEPT !.pc = "prune"])
    BY <1>a, <1>s, <1>3, Names DEF CodeCas, At, Placed, SignIns
  <2> QED
    BY <1>a, <1>1, <1>2, <2>1, Names DEF CodeCas, At
<1>b. CASE Prune(i)
  <2>1. Placed([s[i] EXCEPT !.pc = "insert"])
    BY <1>b, <1>s, <1>3, Names DEF Prune, At, Placed, SignIns
  <2> QED
    BY <1>b, <1>2, <2>1, Names DEF Prune, At
<1>c. ASSUME NEW j \in Jti, Insert(i, j)
      PROVE  \E r \in SlotRec : Advanced(i, r)
  <2> DEFINE r == [s[i] EXCEPT !.pc = "reply", !.jti = j]
  <2>1. /\ r \in SlotRec /\ r.pc = "reply"
        /\ r.op = s[i].op /\ r.d = s[i].d /\ r.jar = s[i].jar
    BY <1>s, Names DEF SlotRec
  <2>2. s' = [s EXCEPT ![i] = r]
    BY <1>c, <1>s DEF Insert
  <2>3. Placed(r)
    BY <1>c, <1>s, <2>1 DEF Insert, At, Placed, SignIns
  <2> QED
    BY <1>c, <2>1, <2>2, <2>3 DEF Advanced, Insert, At
<1>d. CASE Reply(i) \/ ReplyClear(i) \/ RevokeOthers(i) \/ SuspendRevoke(i)
           \/ SetupWrite(i) \/ EnableWrite(i) \/ DisableWrite(i) \/ Die(i)
  BY <1>d, <1>1 DEF Reply, ReplyClear, RevokeOthers, SuspendRevoke, SetupWrite,
                    EnableWrite, DisableWrite, Die, SigningOut, At
<1>e. CASE LogoutDelete(i)
  <2>1. Placed([s[i] EXCEPT !.pc = "clear"])
    BY <1>e, <1>s, <1>3, Names DEF LogoutDelete, At, Placed
  <2> QED
    BY <1>e, <1>2, <2>1, Names DEF LogoutDelete, At
<1>f. CASE RevokeAll(i)
  <2>1. Placed([s[i] EXCEPT !.pc = "prune"])
    BY <1>f, <1>s, <1>3, Names DEF RevokeAll, At, Placed, SignIns
  <2> QED
    BY <1>f, <1>2, <2>1, Names DEF RevokeAll, At
<1>g. CASE RevokeOne(i)
  <2>1. Placed([s[i] EXCEPT !.pc = "clear"])
    BY <1>g, <1>s, <1>3, Names DEF RevokeOne, At, Placed
  <2> QED
    BY <1>g, <1>1, <1>2, <2>1, Names DEF RevokeOne, At
<1>h. CASE ChangeUser(i)
  <2>1. Placed([s[i] EXCEPT !.pc = "cpUpdate"])
    BY <1>h, <1>s, <1>3, Names DEF ChangeUser, At, Placed
  <2> QED
    BY <1>h, <1>1, <1>2, <2>1, Names DEF ChangeUser, At
<1>i. CASE ChangeUpdate(i)
  <2> DEFINE r == [s[i] EXCEPT !.pc = "raDelete"]
  <2>1. /\ r \in SlotRec /\ r.pc = "raDelete"
        /\ r.op = s[i].op /\ r.d = s[i].d /\ r.jar = s[i].jar
    BY <1>s, Names DEF SlotRec
  <2>2. Placed(r)
    BY <1>i, <1>s, <2>1 DEF ChangeUpdate, At, Placed, SignIns, Answers
  <2> QED
    BY <1>i, <2>1, <2>2 DEF Advanced, ChangeUpdate, SignOut, At
<1>j. CASE RecoverToken(i)
  <2>1. Placed([s[i] EXCEPT !.pc = "rcUpdate"])
    BY <1>j, <1>s, <1>3, Names DEF RecoverToken, At, Placed
  <2> QED
    BY <1>j, <1>1, <1>2, <2>1, Names DEF RecoverToken, At
<1>k. CASE RecoverUpdate(i)
  <2>1. Placed([s[i] EXCEPT !.pc = "prune"])
    BY <1>k, <1>s, <1>3, Names DEF RecoverUpdate, At, Placed, SignIns
  <2> QED
    BY <1>k, <1>2, <2>1, Names DEF RecoverUpdate, At
<1> QED
  BY <1>a, <1>b, <1>c, <1>d, <1>e, <1>f, <1>g, <1>h, <1>i, <1>j, <1>k DEF Step

LEMMA SlotStarts ==
  ASSUME TypeInv, SlotInv, NEW i \in Slot, NEW r \in SlotRec, Started(i, r)
  PROVE  SlotInv'
<1>s. s \in [Slot -> SlotRec]
  BY SlotTyped DEF TypeInv
<1>1. \A k \in Slot : Placed(s'[k])
  BY <1>s DEF Started, SlotInv
<1>2. ASSUME NEW k \in Slot \ {i}
      PROVE  Together(r, s[k]) /\ Together(s[k], r)
  <2>1. Together(r, s[k])
    BY DEF Started, MayRun, Together
  <2>2. {r.op, s[k].op} = {s[k].op, r.op}
    OBVIOUS
  <2> QED
    BY <2>1, <2>2 DEF Together
<1>3. \A k, m \in Slot : k # m => Together(s'[k], s'[m])
  BY <1>s, <1>2 DEF Started, SlotInv
<1> QED
  BY <1>1, <1>3 DEF SlotInv

LEMMA SlotAdvances ==
  ASSUME TypeInv, SlotInv, NEW i \in Slot, NEW r \in SlotRec, Advanced(i, r)
  PROVE  SlotInv'
<1>s. s \in [Slot -> SlotRec]
  BY SlotTyped DEF TypeInv
<1>1. Placed(r)
  <2>1. Placed(Idle)
    BY DEF Idle, Placed, Answers, SignIns
  <2> QED
    BY <2>1 DEF Advanced, SlotInv
<1>2. ASSUME NEW k \in Slot \ {i}
      PROVE  Together(r, s[k]) /\ Together(s[k], r)
  <2>1. Together(s[i], s[k]) /\ Together(s[k], s[i])
    BY DEF SlotInv
  <2>2. r = Idle => r.op = "none"
    BY DEF Idle
  <2> QED
    BY <2>1, <2>2 DEF Advanced, Together
<1>3. \A k \in Slot : Placed(s'[k])
  BY <1>s, <1>1 DEF Advanced, SlotInv
<1>4. \A k, m \in Slot : k # m => Together(s'[k], s'[m])
  BY <1>s, <1>2 DEF Advanced, SlotInv
<1> QED
  BY <1>3, <1>4 DEF SlotInv

-----------------------------------------------------------------------------
(* Sign-outs: every row that is to end is one that a running delete takes. *)

StaleInv == \A j \in stale : \E i \in Slot : Ends(s[i], j)

LEMMA StaleStarts ==
  ASSUME TypeInv, StaleInv, NEW i \in Slot, NEW r \in SlotRec, Started(i, r)
  PROVE  StaleInv'
<1>s. s \in [Slot -> SlotRec]
  BY SlotTyped DEF TypeInv
<1> SUFFICES ASSUME NEW j \in stale' PROVE \E k \in Slot : Ends(s'[k], j)
  BY DEF StaleInv, Ends, SigningOut, Kept
<1>1. CASE j \in stale
  <2>1. PICK k \in Slot : Ends(s[k], j)
    BY <1>1 DEF StaleInv
  <2>2. k # i
    BY <2>1 DEF Started, Ends, SigningOut
  <2>3. s'[k] = s[k]
    BY <1>s, <2>2 DEF Started
  <2> QED
    BY <2>1, <2>3
<1>2. CASE j \notin stale
  <2>1. s'[i] = r
    BY <1>s DEF Started
  <2>2. Ends(r, j)
    BY <1>2 DEF Started, Ends
  <2> QED
    BY <2>1, <2>2
<1> QED
  BY <1>1, <1>2

LEMMA StaleAdvances ==
  ASSUME TypeInv, StaleInv, NEW i \in Slot, NEW r \in SlotRec, Advanced(i, r), Step(i)
  PROVE  StaleInv'
<1> USE DEF db
<1>s. s \in [Slot -> SlotRec]
  BY SlotTyped DEF TypeInv
<1> SUFFICES ASSUME NEW j \in stale' PROVE \E k \in Slot : Ends(s'[k], j)
  BY DEF StaleInv, Ends, SigningOut, Kept
<1>k. ASSUME NEW k \in Slot, Ends(s[k], j), k # i
      PROVE  \E m \in Slot : Ends(s'[m], j)
  BY <1>k, <1>s DEF Advanced
<1>1. ASSUME j \in stale, ~Ends(s[i], j)
      PROVE  \E k \in Slot : Ends(s'[k], j)
  BY <1>1, <1>k DEF StaleInv
<1>a. CASE CodeCas(i) \/ Reply(i) \/ ReplyClear(i) \/ ChangeUser(i) \/ RecoverToken(i)
           \/ RecoverUpdate(i) \/ SetupWrite(i) \/ EnableWrite(i) \/ DisableWrite(i)
  BY <1>a, <1>1 DEF CodeCas, Reply, ReplyClear, ChangeUser, RecoverToken, RecoverUpdate,
                    SetupWrite, EnableWrite, DisableWrite, At, Ends, SigningOut
<1>b. CASE Prune(i) \/ LogoutDelete(i) \/ RevokeOne(i)
  BY <1>b, <1>1 DEF Prune, LogoutDelete, RevokeOne, Drop, At, Ends, SigningOut
<1>c. ASSUME NEW n \in Jti, Insert(i, n)
      PROVE  \E k \in Slot : Ends(s'[k], j)
  <2>1. ~SigningOut(s[i])
    BY <1>c DEF Insert, At, SigningOut
  <2>2. CASE j \in stale
    BY <2>1, <2>2, <1>1 DEF Ends
  <2>3. CASE j \notin stale
    <3>1. j = n /\ \E k \in Slot : SigningOut(s[k])
      BY <1>c, <2>3 DEF Insert
    <3>2. PICK k \in Slot : SigningOut(s[k])
      BY <3>1
    <3>3. j # s[k].jar /\ j # NoJti
      BY <1>c, <3>1, NoneAssumption DEF Insert, Fresh
    <3>4. Ends(s[k], j) /\ k # i
      BY <2>1, <3>2, <3>3 DEF Ends, Kept
    <3> QED
      BY <3>4, <1>k
  <2> QED
    BY <2>2, <2>3
<1>d. CASE RevokeAll(i) \/ SuspendRevoke(i)
  <2>1. j \notin Jti /\ j \in stale
    BY <1>d DEF RevokeAll, SuspendRevoke, Drop
  <2> QED
    BY <2>1 DEF TypeInv, TypeOK
<1>e. CASE RevokeOthers(i)
  <2>1. j \in stale /\ j = s[i].jar
    BY <1>e DEF RevokeOthers, Drop, TypeInv, TypeOK
  <2>2. ~Ends(s[i], j)
    BY <1>e, <2>1 DEF RevokeOthers, At, Ends, Kept
  <2> QED
    BY <2>1, <2>2, <1>1
<1>f. CASE ChangeUpdate(i)
  <2>1. s'[i].pc = "raDelete"
    BY <1>f, <1>s DEF ChangeUpdate, SignOut, SlotRec
  <2>2. ~SigningOut(s[i])
    BY <1>f DEF ChangeUpdate, At, SigningOut
  <2>3. CASE j \in stale
    BY <2>2, <2>3, <1>1 DEF Ends
  <2>4. CASE j \notin stale
    <3>1. j \in rows
      BY <1>f, <2>4 DEF ChangeUpdate, SignOut
    <3>2. j # NoJti
      BY <3>1, NoneAssumption DEF TypeInv, TypeOK
    <3> QED
      BY <2>1, <3>2 DEF Ends, SigningOut, Kept
  <2> QED
    BY <2>3, <2>4
<1>g. CASE Die(i)
  <2>1. PICK k \in Slot \ {i} : Ends(s[k], j)
    BY <1>g DEF Die
  <2> QED
    BY <2>1, <1>k
<1> QED
  BY <1>a, <1>b, <1>c, <1>d, <1>e, <1>f, <1>g DEF Step

-----------------------------------------------------------------------------
(* Cookies: a request that answers with one is the only one its browser    *)
(* has under way that may, so that what it was sent with is what it        *)
(* replaces.                                                               *)

Held(r) ==
  /\ r.op \in SignIns => cookie[r.d] = r.jar
  /\ r.op \in {"logout", "revokeOne"} => cookie[r.d] \in {r.jar, NoJti}
  /\ r.pc \in {"insert", "reply", "clear"} => r.jar \notin rows

CookieInv ==
  /\ \A i \in Slot : Held(s[i])
  /\ NoOrphanSessions

LEMMA CookieStarts ==
  ASSUME TypeInv, SlotInv, CookieInv, NEW i \in Slot, NEW r \in SlotRec, Started(i, r)
  PROVE  CookieInv'
<1>s. s \in [Slot -> SlotRec]
  BY SlotTyped DEF TypeInv
<1>1. Held(r)'
  BY DEF Held, Started, Placed, Answers
<1>2. \A k \in Slot \ {i} : s'[k] = s[k]
  BY <1>s DEF Started
<1>3. \A k \in Slot : Held(s[k])'
  <2>1. s'[i] = r
    BY <1>s DEF Started
  <2> QED
    BY <2>1, <1>1, <1>2 DEF Held, CookieInv, Started
<1>4. NoOrphanSessions'
  <2> SUFFICES ASSUME NEW j \in rows
               PROVE  \/ \E d \in Device : cookie[d] = j
                      \/ \E k \in Slot : s'[k].pc = "reply" /\ s'[k].jti = j
    BY DEF NoOrphanSessions, Started
  <2>1. ASSUME NEW k \in Slot, s[k].pc = "reply"
        PROVE  s'[k] = s[k]
    BY <2>1, <1>s DEF Started
  <2> QED
    BY <2>1 DEF CookieInv, NoOrphanSessions
<1> QED
  BY <1>3, <1>4 DEF CookieInv

\* A step that deletes rows at most, and sets no cookie.
LEMMA CookieStays ==
  ASSUME TypeInv, SlotInv, CookieInv, NEW i \in Slot, NEW r \in SlotRec, Advanced(i, r),
         cookie' = cookie, rows' \subseteq rows, s[i].pc # "reply",
         r.pc \in {"insert", "reply", "clear"} => r.jar \notin rows'
  PROVE  CookieInv'
<1>s. s \in [Slot -> SlotRec]
  BY SlotTyped DEF TypeInv
<1>1. Held(r)'
  <2>1. CASE r = Idle
    BY <2>1 DEF Held, Idle, SignIns
  <2>2. CASE r # Idle
    BY <2>2 DEF Advanced, CookieInv, Held
  <2> QED
    BY <2>1, <2>2
<1>2. \A k \in Slot \ {i} : s'[k] = s[k]
  BY <1>s DEF Advanced
<1>3. \A k \in Slot : Held(s[k])'
  <2>1. s'[i] = r
    BY <1>s DEF Advanced
  <2> QED
    BY <2>1, <1>1, <1>2 DEF Held, CookieInv
<1>4. NoOrphanSessions'
  <2> SUFFICES ASSUME NEW j \in rows'
               PROVE  \/ \E d \in Device : cookie[d] = j
                      \/ \E k \in Slot : s'[k].pc = "reply" /\ s'[k].jti = j
    BY DEF NoOrphanSessions
  <2> QED
    BY <1>2 DEF CookieInv, NoOrphanSessions
<1> QED
  BY <1>3, <1>4 DEF CookieInv

LEMMA CookieInsert ==
  ASSUME TypeInv, SlotInv, CookieInv, NEW i \in Slot, NEW j \in Jti, Insert(i, j)
  PROVE  CookieInv'
<1> USE DEF db
<1>s. s \in [Slot -> SlotRec]
  BY SlotTyped DEF TypeInv
<1>1. /\ \A k \in Slot \ {i} : s'[k] = s[k]
      /\ s'[i].pc = "reply" /\ s'[i].jti = j
      /\ s'[i].op = s[i].op /\ s'[i].d = s[i].d /\ s'[i].jar = s[i].jar
  BY <1>s DEF Insert, SlotRec
<1>2. \A k \in Slot : s[k].jar # j
  BY DEF Insert, Fresh
<1>3. rows' = rows \cup {j} /\ cookie' = cookie /\ s[i].pc = "insert"
  BY DEF Insert, At
<1>4. ASSUME NEW k \in Slot
      PROVE  Held(s[k])'
  <2>1. Held(s[k])
    BY DEF CookieInv
  <2>2. CASE k = i
    BY <1>1, <1>2, <1>3, <2>1, <2>2 DEF Held
  <2>3. CASE k # i
    BY <1>1, <1>2, <1>3, <2>1, <2>3 DEF Held
  <2> QED
    BY <2>2, <2>3
<1>5. NoOrphanSessions'
  <2> SUFFICES ASSUME NEW n \in rows'
               PROVE  \/ \E d \in Device : cookie'[d] = n
                      \/ \E k \in Slot : s'[k].pc = "reply" /\ s'[k].jti = n
    BY DEF NoOrphanSessions
  <2>1. CASE n = j
    BY <1>1, <2>1
  <2>2. CASE n # j
    BY <1>1, <1>3, <2>2 DEF CookieInv, NoOrphanSessions
  <2> QED
    BY <2>1, <2>2
<1> QED
  BY <1>4, <1>5 DEF CookieInv

LEMMA CookieReply ==
  ASSUME TypeInv, SlotInv, RacesApart, CookieInv, NEW i \in Slot,
         Reply(i) \/ ReplyClear(i)
  PROVE  CookieInv'
<1> USE DEF db
<1>s. s \in [Slot -> SlotRec] /\ cookie \in [Device -> Jti \cup {NoJti}]
  BY SlotTyped DEF TypeInv, TypeOK
<1> DEFINE d == s[i].d
           c == IF s[i].pc = "reply" THEN s[i].jti ELSE NoJti
<1>1. /\ s[i].pc \in {"reply", "clear"} /\ cookie' = [cookie EXCEPT ![d] = c]
      /\ s' = [s EXCEPT ![i] = Idle] /\ rows' = rows
  BY DEF Reply, ReplyClear, At, Return
<1>2. d \in Device /\ s[i].op \in Answers /\ (s[i].pc = "reply" => s[i].op \in SignIns)
  BY <1>1 DEF SlotInv, Placed, Answers
<1>3. cookie[d] \in {s[i].jar, NoJti} /\ s[i].jar \notin rows
  BY <1>1, <1>2 DEF CookieInv, Held, Answers
<1>4. cookie'[d] = c /\ \A e \in Device \ {d} : cookie'[e] = cookie[e]
  BY <1>1, <1>2, <1>s
<1> HIDE DEF c, d
<1>5. ASSUME NEW k \in Slot \ {i}, s[k].d = d
      PROVE  /\ s[k].op \notin SignIns
             /\ s[i].op \in SignIns => s[k].op \notin Answers
  <2>1. Together(s[k], s[i]) /\ Together(s[i], s[k])
    BY DEF SlotInv
  <2>2. /\ s[k].op \in SignIns => s[k].op # "none" /\ s[i].op # "none"
        /\ s[k].op \in Answers => s[k].op # "none" /\ s[i].op # "none"
    BY <1>2 DEF Answers, SignIns
  <2>3. \A o \in SignIns, p \in Answers : {o, p} \in ApartTab
    BY RacePairs
  <2> QED
    BY <1>2, <1>5, <2>1, <2>2, <2>3 DEF Together, d
<1>6. ASSUME NEW k \in Slot
      PROVE  Held(s[k])'
  <2>1. CASE k = i
    <3>1. s'[k] = Idle
      BY <1>1, <1>s, <2>1
    <3> QED
      BY <3>1 DEF Held, Idle, SignIns
  <2>2. CASE k # i /\ s[k].d # d
    <3>1. s'[k] = s[k] /\ Held(s[k])
      BY <1>1, <1>s, <2>2 DEF CookieInv
    <3>2. s[k].op \in Answers => s[k].d \in Device
      BY DEF SlotInv, Placed
    <3> QED
      BY <1>1, <1>4, <2>2, <3>1, <3>2 DEF Held, Answers
  <2>3. CASE k # i /\ s[k].d = d
    <3>1. s'[k] = s[k] /\ Held(s[k])
      BY <1>1, <1>s, <2>3 DEF CookieInv
    <3>2. s[k].op \notin SignIns
      BY <1>5, <2>3
    <3>3. s[k].op \in {"logout", "revokeOne"} => c = NoJti
      BY <1>1, <1>2, <1>5, <2>3 DEF c, Answers
    <3> QED
      BY <1>1, <1>4, <2>3, <3>1, <3>2, <3>3 DEF Held
  <2> QED
    BY <2>1, <2>2, <2>3
<1>7. NoOrphanSessions'
  <2> SUFFICES ASSUME NEW n \in rows
               PROVE  \/ \E e \in Device : cookie'[e] = n
                      \/ \E k \in Slot : s'[k].pc = "reply" /\ s'[k].jti = n
    BY <1>1 DEF NoOrphanSessions
  <2>1. n # s[i].jar /\ n # NoJti
    BY <1>3, NoneAssumption DEF TypeInv, TypeOK
  <2>2. CASE \E e \in Device : cookie[e] = n
    BY <1>3, <1>4, <2>1, <2>2
  <2>3. CASE \E k \in Slot : s[k].pc = "reply" /\ s[k].jti = n
    <3>1. PICK k \in Slot : s[k].pc = "reply" /\ s[k].jti = n
      BY <2>3
    <3>2. CASE k = i
      BY <1>2, <1>4, <3>1, <3>2 DEF c
    <3>3. CASE k # i
      BY <1>1, <1>s, <3>1, <3>3
    <3> QED
      BY <3>2, <3>3
  <2> QED
    BY <2>2, <2>3 DEF CookieInv, NoOrphanSessions
<1> QED
  BY <1>6, <1>7 DEF CookieInv

LEMMA CookieAdvances ==
  ASSUME TypeInv, SlotInv, RacesApart, CookieInv, NEW i \in Slot, Step(i)
  PROVE  CookieInv'
<1> USE DEF db
<1>p. PICK r \in SlotRec : Advanced(i, r)
  BY Steps
<1>r. r = s'[i] /\ (r.pc # "idle" => r.jar = s[i].jar)
  BY <1>p, SlotTyped DEF TypeInv, Advanced, Idle
<1>i. s[i] \in SlotRec
  BY SlotTyped DEF TypeInv
<1>1. ASSUME cookie' = cookie, rows' \subseteq rows, s[i].pc # "reply",
             r.pc \in {"insert", "reply", "clear"} => s[i].jar \notin rows'
      PROVE  CookieInv'
  BY <1>1, <1>p, <1>r, CookieStays
<1>2. ASSUME NEW p, Goto(i, p)
      PROVE  r.pc = p
  BY <1>2, <1>r, <1>i, SlotTyped DEF Goto, TypeInv, SlotRec
<1>3. ASSUME Return(i)
      PROVE  r.pc = "idle"
  BY <1>3, <1>r, SlotTyped DEF Return, TypeInv, Idle
<1>a. CASE CodeCas(i) \/ ChangeUser(i) \/ RecoverToken(i) \/ RecoverUpdate(i)
           \/ SetupWrite(i) \/ EnableWrite(i) \/ DisableWrite(i)
  BY <1>a, <1>1, <1>2, <1>3 DEF CodeCas, ChangeUser, RecoverToken, RecoverUpdate,
                                SetupWrite, EnableWrite, DisableWrite, At
<1>b. CASE Prune(i) \/ LogoutDelete(i)
  BY <1>b, <1>1 DEF Prune, LogoutDelete, Drop, At
<1>c. CASE RevokeAll(i) \/ RevokeOthers(i) \/ SuspendRevoke(i)
  BY <1>c, <1>1, <1>2, <1>3 DEF RevokeAll, RevokeOthers, SuspendRevoke, Drop, At
<1>d. CASE RevokeOne(i)
  BY <1>d, <1>1, <1>2, <1>3 DEF RevokeOne, Drop, At
<1>e. ASSUME NEW j \in Jti, Insert(i, j)
      PROVE  CookieInv'
  BY <1>e, CookieInsert
<1>f. CASE Reply(i) \/ ReplyClear(i)
  BY <1>f, CookieReply
<1>h. CASE Die(i)
  BY <1>h, <1>1, <1>3 DEF Die, SigningOut
<1>g. CASE ChangeUpdate(i)
  <2>1. r.pc = "raDelete"
    <3>1. [s[i] EXCEPT !.pc = "raDelete"].pc = "raDelete"
      BY <1>i DEF SlotRec
    <3>2. s'[i] = [s[i] EXCEPT !.pc = "raDelete"]
      BY <1>g, SlotTyped DEF ChangeUpdate, SignOut, TypeInv
    <3> QED
      BY <1>r, <3>1, <3>2
  <2> QED
    BY <1>g, <1>1, <2>1 DEF ChangeUpdate, At
<1> QED
  BY <1>a, <1>b, <1>c, <1>d, <1>e, <1>f, <1>g, <1>h DEF Step

-----------------------------------------------------------------------------
(* The second factor.                                                      *)

FactorInv ==
  /\ secret # 0 => secret \in phone
  /\ \A i \in Slot : s[i].pc = "enWrite" => s[i].secret \in phone

\* The secret of the code accepted last is in force no more, and never again.
Retired ==
  /\ spent[1] \notin {secret, pending}
  /\ \A i \in Slot : s[i].pc \in {"cdCas", "enWrite"} => s[i].secret # spent[1]

CodeInv ==
  /\ \A i \in Slot : s[i].pc \in {"cdCas", "enWrite"} => s[i].secret # 0
  /\ spent[2] > 0 => spent[1] # 0
  /\ spent[2] <= lastUsed \/ Retired

LEMMA FactorStarts ==
  ASSUME TypeInv, FactorInv, CodeInv, NEW i \in Slot, NEW r \in SlotRec, Started(i, r)
  PROVE  FactorInv' /\ CodeInv'
<1>s. s \in [Slot -> SlotRec] /\ phone \subseteq 1..secrets
  BY SlotTyped DEF TypeInv, TypeOK
<1>1. s'[i] = r /\ \A k \in Slot \ {i} : s'[k] = s[k]
  BY <1>s DEF Started
<1>2. FactorInv'
  BY <1>1 DEF Started, FactorInv
<1>3. r.pc \in {"cdCas", "enWrite"} => r.secret # 0 /\ r.secret \in {secret, pending}
  BY <1>s DEF Started
<1>4. Retired => Retired'
  BY <1>1, <1>3 DEF Started, Retired
<1> QED
  BY <1>1, <1>2, <1>3, <1>4 DEF Started, CodeInv

\* Where a recovery clears the factor, no code and no enable is under way.
LEMMA RecoverAlone ==
  ASSUME TypeInv, SlotInv, RacesApart, NEW i \in Slot, s[i].pc = "rcUpdate",
         NEW k \in Slot
  PROVE  s[k].pc \notin {"cdCas", "enWrite"}
<1>1. CASE k # i
  <2>1. Together(s[k], s[i])
    BY <1>1 DEF SlotInv
  <2>2. s[i].op = "recover" /\ (s[k].pc = "cdCas" => s[k].op = "code")
          /\ (s[k].pc = "enWrite" => s[k].op = "enable")
    BY DEF SlotInv, Placed
  <2>3. {"code", "recover"} \in Apart /\ {"enable", "recover"} \in Apart
    BY RacePairs
  <2> QED
    BY <2>1, <2>2, <2>3 DEF Together
<1> QED
  BY <1>1

LEMMA FactorAdvances ==
  ASSUME TypeInv, SlotInv, RacesApart, FactorInv, CodeInv, NEW i \in Slot, Step(i)
  PROVE  FactorInv' /\ CodeInv'
<1> USE DEF db
<1>s. /\ s \in [Slot -> SlotRec] /\ phone \subseteq 1..secrets
      /\ spent[1] \in 0..secrets /\ spent[2] \in Nat /\ lastUsed \in Nat
      /\ secrets \in Nat
  BY SlotTyped, Bounds DEF TypeInv, TypeOK
<1>p. PICK r \in SlotRec : Advanced(i, r)
  BY Steps
<1>1. /\ s'[i].pc \notin {"cdCas", "enWrite"}
      /\ \A k \in Slot \ {i} : s'[k] = s[k]
  BY <1>p, <1>s DEF Advanced, Idle
<1>2. ASSUME UNCHANGED <<secret, pending, lastUsed, phone, spent>>
      PROVE  FactorInv' /\ CodeInv'
  <2>1. Retired => Retired'
    BY <1>1, <1>2 DEF Retired
  <2> QED
    BY <1>1, <1>2, <2>1 DEF FactorInv, CodeInv
<1>a. CASE CodeCas(i)
  <2>1. CASE UNCHANGED <<lastUsed, spent>>
    BY <1>a, <1>2, <2>1 DEF CodeCas
  <2>2. CASE lastUsed' = s[i].step /\ spent' = <<s[i].secret, s[i].step>>
    <3>1. FactorInv'
      BY <1>a, <1>1 DEF CodeCas, FactorInv
    <3>2. s[i].secret # 0 /\ s[i].step \in Nat
      BY <1>a, <1>s, Bounds DEF CodeCas, At, CodeInv, SlotRec
    <3>3. spent'[2] <= lastUsed' /\ spent'[1] # 0
      BY <2>2, <3>2
    <3> QED
      BY <3>1, <3>3, <1>1 DEF CodeInv
  <2> QED
    BY <1>a, <2>1, <2>2 DEF CodeCas
<1>b. CASE \/ Prune(i) \/ (\E j \in Jti : Insert(i, j)) \/ Reply(i) \/ ReplyClear(i)
           \/ LogoutDelete(i) \/ RevokeAll(i) \/ RevokeOthers(i) \/ RevokeOne(i)
           \/ SuspendRevoke(i)
           \/ ChangeUser(i) \/ ChangeUpdate(i) \/ RecoverToken(i) \/ Die(i)
  BY <1>b, <1>2 DEF Die, Prune, Insert, Reply, ReplyClear, LogoutDelete, RevokeAll, RevokeOthers,
                    RevokeOne, SuspendRevoke, ChangeUser, ChangeUpdate, RecoverToken
<1>c. CASE RecoverUpdate(i)
  <2>1. /\ secret' = 0 /\ pending' = 0 /\ lastUsed' = 0 /\ spent' = spent
        /\ s[i].pc = "rcUpdate"
    BY <1>c DEF RecoverUpdate, At
  <2>2. \A k \in Slot : s'[k].pc \notin {"cdCas", "enWrite"}
    BY <1>1, <2>1, RecoverAlone
  <2>3. FactorInv'
    BY <2>1, <2>2 DEF FactorInv
  <2>4. spent[2] > 0 => Retired'
    BY <2>1, <2>2 DEF CodeInv, Retired
  <2>5. spent'[2] <= lastUsed' \/ Retired'
    BY <1>s, <2>1, <2>4
  <2> QED
    BY <2>1, <2>2, <2>3, <2>5 DEF CodeInv
<1>d. CASE SetupWrite(i)
  <2>1. /\ pending' = secrets + 1 /\ phone' = phone \cup {secrets + 1}
        /\ UNCHANGED <<secret, lastUsed, spent>>
    BY <1>d DEF SetupWrite
  <2>2. spent[1] # secrets + 1
    BY <1>s
  <2>3. Retired => Retired'
    BY <1>1, <2>1, <2>2 DEF Retired
  <2>4. FactorInv'
    BY <1>1, <2>1 DEF FactorInv
  <2> QED
    BY <1>1, <2>1, <2>3, <2>4 DEF CodeInv
<1>e. CASE EnableWrite(i)
  <2>1. /\ secret' = s[i].secret /\ pending' = 0 /\ s[i].pc = "enWrite"
        /\ UNCHANGED <<lastUsed, phone, spent>>
    BY <1>e DEF EnableWrite, At
  <2>2. FactorInv'
    BY <1>1, <2>1 DEF FactorInv
  <2>3. Retired /\ spent[2] > 0 => Retired'
    BY <1>1, <2>1 DEF Retired, CodeInv
  <2>4. spent[2] <= lastUsed \/ (Retired /\ spent[2] > 0)
    BY <1>s DEF CodeInv
  <2> QED
    BY <1>1, <2>1, <2>2, <2>3, <2>4 DEF CodeInv
<1>f. CASE DisableWrite(i)
  <2>1. secret' = 0 /\ UNCHANGED <<pending, lastUsed, phone, spent>>
    BY <1>f DEF DisableWrite
  <2>2. FactorInv'
    BY <1>1, <2>1 DEF FactorInv
  <2>3. Retired /\ spent[2] > 0 => Retired'
    BY <1>1, <2>1 DEF Retired, CodeInv
  <2>4. spent[2] <= lastUsed \/ (Retired /\ spent[2] > 0)
    BY <1>s DEF CodeInv
  <2> QED
    BY <1>1, <2>1, <2>2, <2>3, <2>4 DEF CodeInv
<1> QED
  BY <1>a, <1>b, <1>c, <1>d, <1>e, <1>f DEF Step

-----------------------------------------------------------------------------
(* Sign-outs need nothing apart.                                           *)

SignOutInv == TypeInv /\ SlotInv /\ StaleInv

LEMMA SignOutInit == Init => SignOutInv
<1> SUFFICES ASSUME Init PROVE SignOutInv
  OBVIOUS
<1>1. \A i \in Slot : s[i] = Idle
  BY DEF Init
<1>2. SlotInv
  BY <1>1 DEF SlotInv, Placed, Together, Idle, Answers, SignIns
<1>3. StaleInv
  BY DEF Init, StaleInv
<1> QED
  BY <1>2, <1>3, TypeInit DEF SignOutInv

LEMMA AsideKeeps ==
  ASSUME Aside \/ UNCHANGED vars
  PROVE  UNCHANGED <<secret, pending, lastUsed, rows, cookie, phone, spent, stale, s>>
BY DEF Aside, LoginInit, LoginExpire, VerifyAsksCode, VerifyRefuses, Unsuspend, Tick,
       vars, db

LEMMA SignOutNext ==
  ASSUME SignOutInv, [Next]_vars
  PROVE  SignOutInv'
<1>t. TypeInv'
  BY TypeNext DEF SignOutInv
<1>1. ASSUME NEW i \in Slot, Begin(i)
      PROVE  SignOutInv'
  <2>1. PICK r \in SlotRec : Started(i, r)
    BY <1>1, Begins DEF SignOutInv
  <2> QED
    BY <1>t, <2>1, SlotStarts, StaleStarts DEF SignOutInv
<1>2. ASSUME NEW i \in Slot, Step(i)
      PROVE  SignOutInv'
  <2>1. PICK r \in SlotRec : Advanced(i, r)
    BY <1>2, Steps DEF SignOutInv
  <2> QED
    BY <1>t, <1>2, <2>1, SlotAdvances, StaleAdvances DEF SignOutInv
<1>3. CASE Aside \/ UNCHANGED vars
  BY <1>3, <1>t, AsideKeeps DEF SignOutInv, SlotInv, StaleInv
<1> QED
  BY <1>1, <1>2, <1>3 DEF Next, Aside

(* Whatever overlaps: once no sign-out runs, every session is gone that    *)
(* one of them found, or that was created while one ran, unless it died.   *)
THEOREM SignOutsHold == Spec => []SignOutHolds
<1>1. Init => SignOutInv
  BY SignOutInit
<1>2. SignOutInv /\ [Next]_vars => SignOutInv'
  BY SignOutNext
<1>3. SignOutInv => SignOutHolds
  BY DEF SignOutInv, StaleInv, Ends, SignOutHolds
<1> QED
  BY <1>1, <1>2, <1>3, PTL DEF Spec

-----------------------------------------------------------------------------
(* All of it.                                                              *)

Inv == SignOutInv /\ CookieInv /\ FactorInv /\ CodeInv

LEMMA InvInit == Init => Inv
<1> SUFFICES ASSUME Init PROVE Inv
  OBVIOUS
<1>1. \A i \in Slot : s[i] = Idle
  BY DEF Init
<1>4. CookieInv
  BY <1>1 DEF Init, CookieInv, Held, NoOrphanSessions, Idle, SignIns
<1>5. FactorInv
  BY <1>1 DEF Init, FactorInv, Idle
<1>6. CodeInv
  BY <1>1 DEF Init, CodeInv, Idle
<1> QED
  BY <1>4, <1>5, <1>6, SignOutInit DEF Inv

LEMMA InvNext ==
  ASSUME RacesApart, Inv, [Next]_vars
  PROVE  Inv'
<1>t. SignOutInv'
  BY SignOutNext DEF Inv
<1>1. ASSUME NEW i \in Slot, Begin(i)
      PROVE  Inv'
  <2>1. PICK r \in SlotRec : Started(i, r)
    BY <1>1, Begins DEF Inv, SignOutInv
  <2> QED
    BY <1>t, <2>1, CookieStarts, FactorStarts DEF Inv, SignOutInv
<1>2. ASSUME NEW i \in Slot, Step(i)
      PROVE  Inv'
  BY <1>2, <1>t, CookieAdvances, FactorAdvances DEF Inv, SignOutInv
<1>3. CASE Aside \/ UNCHANGED vars
  <2>1. CookieInv'
    BY <1>3, AsideKeeps DEF Inv, CookieInv, Held, NoOrphanSessions
  <2>2. FactorInv' /\ CodeInv'
    BY <1>3, AsideKeeps DEF Inv, FactorInv, CodeInv, Retired
  <2> QED
    BY <1>t, <2>1, <2>2 DEF Inv
<1> QED
  BY <1>1, <1>2, <1>3 DEF Next, Aside

LEMMA InvHolds == ASSUME RacesApart PROVE Spec => []Inv
<1>1. Init => Inv
  BY InvInit
<1>2. Inv /\ [Next]_vars => Inv'
  BY InvNext
<1> QED
  BY <1>1, <1>2, PTL DEF Spec

(* No row of sessions is without a browser that has, or is about to get,   *)
(* its cookie, whatever tabs of one browser and other browsers do.         *)
THEOREM NoSessionIsOrphaned == ASSUME RacesApart PROVE Spec => []NoOrphanSessions
<1>1. Inv => NoOrphanSessions
  BY DEF Inv, SignOutInv, CookieInv
<1> QED
  BY <1>1, InvHolds, PTL

(* The second factor in force is one the user's authenticator can answer.  *)
THEOREM SecondFactorStaysPassable == ASSUME RacesApart PROVE Spec => []SecondFactorPassable
<1>1. Inv => SecondFactorPassable
  BY DEF Inv, SignOutInv, FactorInv, SecondFactorPassable
<1> QED
  BY <1>1, InvHolds, PTL

(* No code is accepted by two logins, although recovery clears the period  *)
(* of the code accepted last.                                              *)
THEOREM CodesPassOnce == ASSUME RacesApart PROVE Spec => CodeUsedOnce
<1>1. ASSUME Inv, [Next]_vars
      PROVE  \A i \in Slot : At(i, "cdCas") /\ s'[i].pc = "prune"
                               => <<s[i].secret, s[i].step>> # spent
  <2> SUFFICES ASSUME NEW i \in Slot, s[i].pc = "cdCas", s'[i].pc = "prune"
               PROVE  <<s[i].secret, s[i].step>> # spent
    BY DEF At
  <2>t. TypeInv
    BY <1>1 DEF Inv, SignOutInv
  <2>u. s \in [Slot -> SlotRec]
    BY <2>t, SlotTyped DEF TypeInv
  <2>s. s \in [Slot -> SlotRec] /\ lastUsed \in Nat /\ spent[2] \in Nat /\ s[i].step \in Nat
    <3>1. TypeOK
      BY <2>t DEF TypeInv
    <3>2. lastUsed \in 0 .. MaxStep /\ spent[2] \in 0 .. MaxStep
      BY <3>1 DEF TypeOK
    <3>3. s[i].step \in 0 .. MaxStep
      BY <2>u DEF SlotRec
    <3> QED
      BY <2>u, <3>2, <3>3, Bounds
  <2>1. CodeCas(i)
    <3>1. CASE Aside \/ UNCHANGED vars
      BY <3>1 DEF Aside, LoginInit, LoginExpire, VerifyAsksCode, VerifyRefuses, Unsuspend,
                  Tick, vars
    <3>2. ASSUME NEW k \in Slot, Begin(k)
          PROVE  FALSE
      <4>1. PICK r \in SlotRec : Started(k, r)
        BY <1>1, <3>2, Begins DEF Inv, SignOutInv
      <4> QED
        BY <2>s, <4>1 DEF Started
    <3>3. ASSUME NEW k \in Slot, Step(k), k # i
          PROVE  FALSE
      <4>1. PICK r \in SlotRec : Advanced(k, r)
        BY <1>1, <3>3, Steps DEF Inv, SignOutInv
      <4> QED
        BY <2>s, <3>3, <4>1 DEF Advanced
    <3>4. Step(i) => CodeCas(i)
      BY DEF Step, Prune, Insert, Reply, ReplyClear, LogoutDelete, RevokeAll, RevokeOthers,
             RevokeOne, SuspendRevoke, ChangeUser, ChangeUpdate, RecoverToken, RecoverUpdate,
             SetupWrite, EnableWrite, DisableWrite, Die, SigningOut, At
    <3> QED
      BY <1>1, <3>1, <3>2, <3>3, <3>4 DEF Next, Aside
  <2>2. CodeFresh(i)
    <3>1. Return(i) => s'[i].pc = "idle"
      BY <2>s DEF Return, Idle
    <3> QED
      BY <2>1, <3>1 DEF CodeCas
  <2>3. spent[2] <= lastUsed \/ s[i].secret # spent[1]
    BY <1>1 DEF Inv, SignOutInv, CodeInv, Retired
  <2> QED
    BY <2>s, <2>2, <2>3 DEF CodeFresh
<1>2. Inv /\ [Next]_vars => [\A i \in Slot : At(i, "cdCas") /\ s'[i].pc = "prune"
                               => <<s[i].secret, s[i].step>> # spent]_vars
  BY <1>1
<1> QED
  BY <1>2, InvHolds, PTL DEF Spec, CodeUsedOnce
=============================================================================
