----------------------------- MODULE FolderKeys -----------------------------
(***************************************************************************)
(* A shared folder, a folder in it and a file: the keys of folders, the    *)
(* claims that seal a child's keys to its parent's, and the rotation of a  *)
(* folder that revokes a collaborator.                                     *)
(*                                                                         *)
(* Access is inherited: who has a file_keys row on a folder opens what is  *)
(* below by unsealing claims on the way down. A rotation mints an era of   *)
(* the folder's keys in the client, which re-seals every direct child's    *)
(* claim, and commits in single statements: the folder's row, the rows of  *)
(* those who stay, each child, the row of who goes.                        *)
(*                                                                         *)
(* Simplifications.                                                        *)
(*  - A request is the client's work (fetching keys, sealing a payload) in *)
(*    one step, then the handler's statements. Its reads before its first  *)
(*    write are one step, except the guards of rotate-folder-commit.       *)
(*  - Who is a viewer is so wherever it has access. The file's own keys,   *)
(*    versions and public links are in FileRotation and FileVersions.      *)
(*  - A browser keeps every folder key it could derive (ring); the client's*)
(*    one retry after a 409, or by hand, is a further request.             *)
(*  - The keys a rotation mints are numbered when its first write puts     *)
(*    them in force.                                                       *)
(*                                                                         *)
(* Nothing keeps payloads apart from a rotation that changes the keys they *)
(* were made from. What they write is kept by history variables (late,     *)
(* strayClaim, strayRow), and it is what the properties except.            *)
(***************************************************************************)
EXTENDS Naturals, FiniteSets

CONSTANTS
  Folder, File,   \* the nodes
  Shared,         \* the folder of Init
  Top,            \* parent of what is in nobody's folder
  Gone,           \* parent of a node that is not created yet
  User, Owner,    \* Owner created Shared
  Member,         \* Owner, and with whom Shared is shared in Init
  Viewer,         \* users with whom folders are shared to read only
  Nobody,
  Slot,           \* slots for requests being handled
  MaxEra,         \* bound: eras of a folder's keys
  Ops,            \* the operations in this instance
  Apart           \* pairs {o, p} of requests that do not overlap

Node  == Folder \cup File
OpTag == {"create", "move", "share", "rotate"}
PC    == {"idle", "crInsert", "crFinal", "mvUpdate", "shGrant",
          "rtGuard", "rtFolder", "rtWraps", "rtChild", "rtRevoke"}

ASSUME NodeAssumption ==
  /\ Folder \cap File = {} /\ Shared \in Folder
  /\ {Top, Gone} \cap Node = {} /\ Top # Gone
ASSUME UserAssumption ==
  /\ Viewer \subseteq User /\ Owner \in Member \ Viewer /\ Member \subseteq User
  /\ Nobody \notin User
ASSUME OptionAssumption ==
  MaxEra \in Nat \ {0} /\ Ops \subseteq OpTag

VARIABLES
  parent,    \* parent[n]
  owner,     \* owner[n]
  complete,  \* nodes whose upload is complete; folders always are
  hier,      \* hier[n]: era of the keys in n's row; a file has one
  wrap,      \* wrap[n][u]: era u's file_keys row wraps, 0 without a row
  claim,     \* claim[n]: n's keys of era "of", sealed to by's keys of "era"
  ring,      \* ring[u]: folder keys u's clients have held
  out,       \* out[f]: who was revoked from f and did not regain access
  strayClaim, \* nodes whose claim a late payload wrote last, or a rotation that
              \* died was to seal again
  strayRow,   \* strayRow[f]: users of whose row of f the same is so
  s          \* s[i]: program counter and payload of the request in slot i

tree  == <<parent, owner, complete>>
stray == <<strayClaim, strayRow>>
vars  == <<tree, hier, wrap, claim, ring, out, stray, s>>

Eras    == 0..MaxEra
NoClaim == [by |-> Top, era |-> 0, of |-> 0]
Claim   == [by: Folder \cup {Top}, era: Eras, of: Eras]

Idle == [pc |-> "idle", op |-> "none", u |-> Nobody, n |-> Gone, to |-> Top,
         claim |-> NoClaim, era |-> 0, kids |-> [n \in Node |-> 0],
         todo |-> {}, who |-> {}, v |-> Nobody, late |-> {}, lateRows |-> FALSE]

TypeOK ==
  /\ parent \in [Node -> Folder \cup {Top, Gone}]
  /\ owner \in [Node -> User \cup {Nobody}]
  /\ complete \subseteq {n \in Node : parent[n] # Gone}
  /\ hier \in [Node -> Eras]
  /\ wrap \in [Node -> [User -> Eras]]
  /\ \A n \in Node, u \in User : wrap[n][u] <= hier[n]
  /\ claim \in [Node -> Claim]
  /\ ring \in [User -> SUBSET (Folder \X Eras)]
  /\ out \in [Folder -> SUBSET User]
  /\ strayClaim \subseteq Node /\ strayRow \in [Folder -> SUBSET User]
  /\ s \in [Slot -> [pc: PC, op: OpTag \cup {"none"}, u: User \cup {Nobody},
                     n: Node \cup {Gone}, to: Folder \cup {Top}, claim: Claim, era: Eras,
                     kids: [Node -> Eras], todo: SUBSET Node, who: SUBSET User,
                     v: User \cup {Nobody}, late: SUBSET Node, lateRows: BOOLEAN]]

Init ==
  /\ parent = [n \in Node |-> IF n = Shared THEN Top ELSE Gone]
  /\ owner = [n \in Node |-> IF n = Shared THEN Owner ELSE Nobody]
  /\ complete = {Shared}
  /\ hier = [n \in Node |-> IF n = Shared THEN 1 ELSE 0]
  /\ wrap = [n \in Node |-> [u \in User |-> IF n = Shared /\ u \in Member THEN 1 ELSE 0]]
  /\ claim = [n \in Node |-> NoClaim]
  /\ ring = [u \in User |-> IF u \in Member THEN {<<Shared, 1>>} ELSE {}]
  /\ out = [f \in Folder |-> {}]
  /\ strayClaim = {} /\ strayRow = [f \in Folder |-> {}]
  /\ s = [i \in Slot |-> Idle]

-----------------------------------------------------------------------------
(* Access and keys.                                                        *)

\* The folders above n.
Above(n) ==
  LET up[k \in 0..Cardinality(Folder)] ==
        IF k = 0 THEN {n} ELSE up[k - 1] \cup ({parent[m] : m \in up[k - 1]} \cap Folder)
  IN up[Cardinality(Folder)] \ {n}

\* getEffectivePermission: a row on n, or on a folder above it.
FromAbove(u, n) == \E m \in Above(n) : wrap[m][u] # 0
Access(u, n)    == wrap[n][u] # 0 \/ FromAbove(u, n)

MayWrite(u, n) == Access(u, n) /\ u \notin Viewer

\* The era of n's private key at the end of the chain of claims that starts at
\* the nearest folder from n up where u has a file_keys row.
Unsealed(u, n) ==
  LET key[m \in Node, k \in 0..Cardinality(Folder)] ==
        IF wrap[m][u] # 0 THEN wrap[m][u]
        ELSE IF k > 0 /\ parent[m] \in Folder
                /\ claim[m].by = parent[m] /\ claim[m].era # 0
                /\ claim[m].era = key[parent[m], k - 1]
             THEN claim[m].of
        ELSE 0
  IN key[n, Cardinality(Folder)]

\* The era of n's private key that u's client derives: from its own file_keys
\* row, else by n's claim. The server hands out claims to who has access.
Derived(u, n) ==
  IF wrap[n][u] # 0 THEN wrap[n][u]
  ELSE IF /\ FromAbove(u, n) /\ parent[n] \in Folder
          /\ claim[n].by = parent[n] /\ claim[n].era # 0
          /\ claim[n].era = Unsealed(u, parent[n])
       THEN claim[n].of
  ELSE 0

Keys(u) == {<<f, Derived(u, f)>> : f \in Folder} \ (Folder \X {0})

\* Whoever can derive a folder's key holds it from then on; the revoked who
\* have access again from above are not revoked any more.
Learn(back) ==
  /\ ring' = [u \in User |-> ring[u] \cup Keys(u)']
  /\ out' = [f \in Folder |->
               {u \in back[f] : ~FromAbove(u, f)'}]

\* The keys of f in the cache of a client of u.
Cached(u, f) == {e \in Eras : <<f, e>> \in ring[u]}

\* The public key of f that u's client seals to: from its cache, or of the row it
\* fetches, which it keeps with the private key it derived.
SealsTo(u, f) == Cached(u, f) \cup (IF Derived(u, f) # 0 THEN {hier[f]} ELSE {})

-----------------------------------------------------------------------------
At(i, pc)  == s[i].pc = pc
Goto(i, p) == s' = [s EXCEPT ![i].pc = p]
Return(i)  == s' = [s EXCEPT ![i] = Idle]

Rotating == {"rtFolder", "rtWraps", "rtChild", "rtRevoke"}

\* What r writes depends on the keys of x: the claims of these nodes, or rows.
ClaimsBy(r, x) ==
  IF r.op = "share" THEN {}
  ELSE ({r.n} \cap (IF x \in {r.n, r.claim.by} THEN Node ELSE {}))
         \cup (r.todo \cap (IF x = r.n THEN Node ELSE {x}))
RowsBy(r, x) == r.op \in {"share", "rotate"} /\ x = r.n

\* A payload is late where it is made of keys that are not those of now when it
\* is sent (from a cache, from what is stray itself, or between two writes of a
\* rotation) or that a rotation is about to change, past its guards.
AboutToChange(i) == {s[k].n : k \in {j \in Slot \ {i} : At(j, "rtFolder")}}

OldClaims(r) ==
  {n \in {r.n} \cap Node : /\ r.op # "share" /\ r.claim.by \in Folder
                          /\ \/ r.claim.era # hier[r.claim.by]
                             \/ r.op = "move" /\ r.claim.of # hier[n]}
    \cup {n \in r.todo : r.kids[n] # hier[n]}
OldRows(r) == r.op = "share" /\ r.era # hier[r.n]

MaySend(o) ==
  o \in Ops /\ \A k \in Slot : s[k].op # "none" => {o, s[k].op} \notin Apart

Send(i, r) ==
  s' = [s EXCEPT ![i] =
         [r EXCEPT !.late = OldClaims(r) \cup UNION {ClaimsBy(r, x) : x \in AboutToChange(i)},
                   !.lateRows = OldRows(r) \/ \E x \in AboutToChange(i) : RowsBy(r, x)]]

\* Request r writes the claim of n; the rows of its node for users U.
Seals(r, n) == strayClaim' = IF n \in r.late THEN strayClaim \cup {n} ELSE strayClaim \ {n}
Grants(r, U) ==
  strayRow' = [strayRow EXCEPT ![r.n] = IF r.lateRows THEN @ \cup U ELSE @ \ U]

-----------------------------------------------------------------------------
(* Creating a folder or uploading a file in folder p.                      *)

StartCreate(i, u, n, p, e) ==
  /\ MaySend("create")
  /\ parent[n] = Gone /\ u \notin Viewer /\ e \in SealsTo(u, p)
  /\ \A k \in Slot : s[k].op = "create" => s[k].n # n
  /\ Send(i, [Idle EXCEPT !.pc = "crInsert", !.op = "create", !.u = u, !.n = n, !.to = p,
                          !.claim = [by |-> p, era |-> e, of |-> 1]])
  /\ UNCHANGED <<tree, hier, wrap, claim, ring, out, stray>>

\* folder, or init: who may write in p gets a row of n and a wrap of its key.
CreateInsert(i) ==
  LET r == s[i] IN
  /\ At(i, "crInsert")
  /\ IF MayWrite(r.u, r.to)
     THEN /\ parent' = [parent EXCEPT ![r.n] = r.to]
          /\ owner' = [owner EXCEPT ![r.n] = r.u]
          /\ hier' = [hier EXCEPT ![r.n] = 1]
          /\ wrap' = [wrap EXCEPT ![r.n][r.u] = 1]
          /\ claim' = [claim EXCEPT ![r.n] = r.claim]
          /\ Seals(r, r.n)
          /\ IF r.n \in Folder
             THEN complete' = complete \cup {r.n} /\ Return(i)
             ELSE Goto(i, "crFinal") /\ UNCHANGED complete
     ELSE Return(i) /\ UNCHANGED <<tree, hier, wrap, claim, strayClaim>>
  /\ UNCHANGED strayRow
  /\ Learn(out)

CreateFinal(i) ==
  /\ At(i, "crFinal")
  /\ complete' = complete \cup {s[i].n}
  /\ Seals(s[i], s[i].n)
  /\ Return(i)
  /\ UNCHANGED <<parent, owner, hier, wrap, claim, ring, out, strayRow>>

-----------------------------------------------------------------------------
(* Moving n into q, whose key the picker has just listed, or to the top.   *)

StartMove(i, u, n, q) ==
  /\ MaySend("move")
  /\ n \in complete /\ parent[n] # q /\ u \notin Viewer /\ Derived(u, n) # 0
  /\ q # Top => q \in complete /\ Access(u, q)
  /\ Send(i, [Idle EXCEPT !.pc = "mvUpdate", !.op = "move", !.u = u, !.n = n, !.to = q,
                          !.claim = IF q = Top THEN NoClaim
                                    ELSE [by |-> q, era |-> hier[q], of |-> Derived(u, n)]])
  /\ UNCHANGED <<tree, hier, wrap, claim, ring, out, stray>>

MayMove(u, n, q) ==
  /\ u = owner[n] \/ MayWrite(u, n)
  /\ q # Top => /\ MayWrite(u, q) /\ q # n /\ n \notin Above(q)
                /\ u = owner[n] \/ owner[q] = owner[n]

MoveUpdate(i) ==
  LET r == s[i] IN
  /\ At(i, "mvUpdate")
  /\ IF MayMove(r.u, r.n, r.to) /\ parent[r.n] # r.to
     THEN /\ parent' = [parent EXCEPT ![r.n] = r.to]
          /\ claim' = [claim EXCEPT ![r.n] = r.claim]
          /\ Seals(r, r.n)
     ELSE UNCHANGED <<parent, claim, strayClaim>>
  /\ Return(i)
  /\ UNCHANGED <<owner, complete, hier, wrap, strayRow>>
  /\ Learn(out)

-----------------------------------------------------------------------------
(* Sharing folder f with v.                                                *)

StartShare(i, u, f, v) ==
  /\ MaySend("share")
  /\ f \in complete /\ v \notin {u, owner[f]}
  /\ u \notin Viewer /\ Derived(u, f) # 0
  /\ Send(i, [Idle EXCEPT !.pc = "shGrant", !.op = "share", !.u = u, !.n = f,
                          !.v = v, !.era = Derived(u, f)])
  /\ UNCHANGED <<tree, hier, wrap, claim, ring, out, stray>>

\* Only the owner writes over a row that is there.
ShareGrant(i) ==
  LET r == s[i] IN
  /\ At(i, "shGrant")
  /\ IF MayWrite(r.u, r.n) /\ (wrap[r.n][r.v] = 0 \/ owner[r.n] = r.u)
     THEN wrap' = [wrap EXCEPT ![r.n][r.v] = r.era] /\ Grants(r, {r.v})
     ELSE UNCHANGED <<wrap, strayRow>>
  /\ Return(i)
  /\ UNCHANGED <<tree, hier, claim, strayClaim>>
  /\ Learn(IF wrap' # wrap THEN [out EXCEPT ![r.n] = @ \ {r.v}] ELSE out)

-----------------------------------------------------------------------------
(* Rotating folder f so that v loses access.                               *)

Children(f)      == {n \in complete : parent[n] = f}
Collaborators(f) == {u \in User : wrap[f][u] # 0}

\* folder-rotate-context, and the client's work on it: the old private key opens
\* the claim of every child, the new one is sealed to the parent of f, if any.
StartRotate(i, u, f, v, old, e) ==
  LET C == Children(f) IN
  /\ MaySend("rotate")
  /\ owner[f] = u /\ v # u /\ wrap[f][v] # 0 /\ hier[f] < MaxEra
  /\ old \in {Derived(u, f)} \cup Cached(u, f)
  /\ \A n \in C : claim[n].by = f /\ claim[n].era = old
  /\ IF parent[f] = Top THEN e = 0 ELSE e \in SealsTo(u, parent[f])
  /\ Send(i, [Idle EXCEPT !.pc = "rtGuard", !.op = "rotate", !.u = u, !.n = f, !.v = v,
                          !.claim = IF parent[f] = Top THEN NoClaim
                                    ELSE [by |-> parent[f], era |-> e, of |-> 0],
                          !.kids = [n \in Node |-> IF n \in C THEN claim[n].of ELSE 0],
                          !.todo = C, !.who = Collaborators(f) \ {v}])
  /\ UNCHANGED <<tree, hier, wrap, claim, ring, out, stray>>

\* Mutant: collaborators who came since do not matter.
SameCollaboratorsAtLeast(r) == r.who \cup {r.v} \subseteq Collaborators(r.n)

\* Guard 1: the collaborators are the ones of the payload and the one to go.
SameCollaborators(r) == Collaborators(r.n) = r.who \cup {r.v}

\* Mutant: each child of the payload is one, others do not matter.
SameChildrenAtLeast(r) == r.todo \subseteq Children(r.n)

\* Guard 2: the direct children are the ones of the payload.
SameChildren(r) == Children(r.n) = r.todo

\* From here on the folder's keys are about to change: what is on its way, made
\* of them, is late.
RotateGuard(i) ==
  LET r == s[i] IN
  /\ At(i, "rtGuard")
  /\ IF owner[r.n] = r.u /\ SameCollaborators(r) /\ SameChildren(r)
     THEN s' = [k \in Slot |->
                 IF k = i THEN [r EXCEPT !.pc = "rtFolder"]
                 ELSE [s[k] EXCEPT !.late = @ \cup ClaimsBy(s[k], r.n),
                                   !.lateRows = @ \/ RowsBy(s[k], r.n)]]
     ELSE Return(i)
  /\ UNCHANGED <<tree, hier, wrap, claim, ring, out, stray>>

\* The claim of the folder for its new keys, and whether it is one for the folder
\* that is its parent now.
NewClaim(r, new) == IF r.claim.by = Top THEN NoClaim ELSE [r.claim EXCEPT !.of = new]
SealsOwn(r) ==
  IF r.claim.by = parent[r.n] THEN Seals(r, r.n) ELSE strayClaim' = strayClaim \cup {r.n}

\* Mutant: the row keeps its public key.
RotateFolderClaim(i) ==
  LET r == s[i]  new == hier[r.n] + 1 IN
  /\ At(i, "rtFolder") /\ new <= MaxEra
  /\ claim' = [claim EXCEPT ![r.n] = NewClaim(r, new)]
  /\ SealsOwn(r)
  /\ s' = [s EXCEPT ![i].pc = "rtWraps", ![i].era = new]
  /\ UNCHANGED <<tree, hier, wrap, strayRow>>
  /\ Learn([out EXCEPT ![r.n] = @ \cup {r.v}])

\* 1. The folder's row. From here on v is to be kept out.
RotateFolder(i) ==
  LET r == s[i]  new == hier[r.n] + 1 IN
  /\ At(i, "rtFolder") /\ new <= MaxEra
  /\ hier' = [hier EXCEPT ![r.n] = new]
  /\ claim' = [claim EXCEPT ![r.n] = NewClaim(r, new)]
  /\ SealsOwn(r)
  /\ s' = [s EXCEPT ![i].pc = "rtWraps", ![i].era = new]
  /\ UNCHANGED <<tree, wrap, strayRow>>
  /\ Learn([out EXCEPT ![r.n] = @ \cup {r.v}])

\* Mutant: everyone who has a row gets the new key.
RotateWrapsAll(i) ==
  LET r == s[i] IN
  /\ At(i, "rtWraps")
  /\ wrap' = [wrap EXCEPT ![r.n] = [u \in User |-> IF @[u] # 0 THEN r.era ELSE 0]]
  /\ Grants(r, r.who)
  /\ Goto(i, IF r.todo = {} THEN "rtRevoke" ELSE "rtChild")
  /\ UNCHANGED <<tree, hier, claim, strayClaim>>
  /\ Learn([out EXCEPT ![r.n] = @ \ r.who])

\* 2. The new key for everyone who stays, back again if another rotation that
\* overlaps has revoked them.
RotateWraps(i) ==
  LET r == s[i] IN
  /\ At(i, "rtWraps")
  /\ wrap' = [wrap EXCEPT ![r.n] = [u \in User |-> IF u \in r.who THEN r.era ELSE @[u]]]
  /\ Grants(r, r.who)
  /\ Goto(i, IF r.todo = {} THEN "rtRevoke" ELSE "rtChild")
  /\ UNCHANGED <<tree, hier, claim, strayClaim>>
  /\ Learn([out EXCEPT ![r.n] = @ \ r.who])

\* The row of a child is written only while it is one.
StillChild(r, n) == parent[n] = r.n

\* 3. One child after the other.
RotateChild(i, n) ==
  LET r == s[i] IN
  /\ At(i, "rtChild") /\ n \in r.todo
  /\ IF StillChild(r, n)
     THEN claim' = [claim EXCEPT ![n] = [by |-> r.n, era |-> r.era, of |-> r.kids[n]]]
          /\ Seals(r, n)
     ELSE UNCHANGED <<claim, strayClaim>>
  /\ s' = [s EXCEPT ![i].todo = @ \ {n}, ![i].pc = IF r.todo = {n} THEN "rtRevoke" ELSE @]
  /\ UNCHANGED <<tree, hier, wrap, strayRow>>
  /\ Learn(out)

\* 4. The row of who goes.
RotateRevoke(i) ==
  /\ At(i, "rtRevoke")
  /\ wrap' = [wrap EXCEPT ![s[i].n][s[i].v] = 0]
  /\ strayRow' = [strayRow EXCEPT ![s[i].n] = @ \ {s[i].v}]
  /\ Return(i)
  /\ UNCHANGED <<tree, hier, claim, strayClaim>>
  /\ Learn(out)

-----------------------------------------------------------------------------
\* The page is closed, or a handler dies. A rotation past its first write leaves
\* the children it has not come to, and rows, of the folder's old keys.
Crash(i) ==
  LET r == s[i] IN
  /\ r.pc # "idle"
  /\ strayClaim' = strayClaim \cup (IF r.pc \in {"rtWraps", "rtChild"} THEN r.todo ELSE {})
  /\ strayRow' =
       IF r.pc \in {"rtWraps", "rtChild", "rtRevoke"}
       THEN [strayRow EXCEPT ![r.n] = @ \cup {r.v} \cup (IF r.pc = "rtWraps" THEN r.who ELSE {})]
       ELSE strayRow
  /\ Return(i)
  /\ UNCHANGED <<tree, hier, wrap, claim, ring, out>>

Begin(i) ==
  At(i, "idle") /\ \E u \in User :
    \/ \E n \in Node, p \in Folder, e \in 1..MaxEra : StartCreate(i, u, n, p, e)
    \/ \E n \in Node, q \in Folder \cup {Top} : StartMove(i, u, n, q)
    \/ \E f \in Folder, v \in User : StartShare(i, u, f, v)
    \/ \E f \in Folder, v \in User, old \in 1..MaxEra, e \in Eras :
         StartRotate(i, u, f, v, old, e)

Step(i) ==
  \/ CreateInsert(i) \/ CreateFinal(i) \/ MoveUpdate(i) \/ ShareGrant(i)
  \/ RotateGuard(i) \/ RotateFolder(i) \/ RotateWraps(i)
  \/ (\E n \in Node : RotateChild(i, n)) \/ RotateRevoke(i)

Next == \E i \in Slot : Begin(i) \/ Step(i) \/ Crash(i)

Spec == Init /\ [][Next]_vars

-----------------------------------------------------------------------------
(* Properties.                                                             *)

Settled(f) == \A i \in Slot : s[i].n = f => s[i].pc \notin Rotating

\* Whoever opens a folder opens what is in it: the claim of every child, while
\* it is rotated too, is sealed to the folder's keys of now and holds the child's
\* keys of now; but for claims that are stray.
ClaimsOpen ==
  \A n \in complete \ strayClaim :
    parent[n] \in Folder /\ Settled(parent[n])
      => claim[n] = [by |-> parent[n], era |-> hier[parent[n]], of |-> hier[n]]

\* Whoever is listed as a collaborator of a folder opens it; but for rows that
\* are stray.
GrantsOpen ==
  \A f \in Folder : \A u \in User \ strayRow[f] :
    Settled(f) /\ wrap[f][u] # 0 => wrap[f][u] = hier[f]

\* Files added after a rotation, and those there before, are sealed to a key
\* that who was revoked by it never held; but for claims that are stray.
NewFilesProtected ==
  \A f \in Folder : Settled(f) =>
    \A u \in out[f], n \in {m \in complete \ strayClaim : parent[m] = f} :
      <<claim[n].by, claim[n].era>> \notin ring[u]
=============================================================================
