--------------------------- MODULE FileTree_proofs ---------------------------
(***************************************************************************)
(* Theorems about FileTree, for any drive and any number of nodes,         *)
(* requests, trash operations and faults.                                  *)
(*                                                                         *)
(* Each theorem names the pairs of operations that must not overlap, the   *)
(* operations and the faults that must be missing. The proofs share the    *)
(* types (TypeInv) and the life of a node (BirthInv), which hold of every  *)
(* behaviour, and add one invariant for each property: UndoInv, TreeInv,   *)
(* FilesInv, HeldInv and GoneInv.                                          *)
(***************************************************************************)
EXTENDS FileTree, TLAPS

-----------------------------------------------------------------------------
(* What lies below a node. The operator takes the parents as a parameter,  *)
(* so that one lemma serves the tree before and after a step.              *)

BelowIn(p, n, Q) ==
  {m \in Q \cup {n} :
     \A S \in SUBSET (Q \cup {n}) :
       n \in S /\ (\A c \in Q : p[c] \in S => c \in S) => m \in S}

LEMMA BelowIs ==
  ASSUME NEW n, NEW Q
  PROVE  Below(n, Q) = BelowIn(parent, n, Q)
BY DEF Below, Closed, BelowIn

LEMMA BelowSelf ==
  ASSUME NEW p, NEW n, NEW Q
  PROVE  n \in BelowIn(p, n, Q) /\ BelowIn(p, n, Q) \subseteq Q \cup {n}
BY DEF BelowIn

LEMMA BelowDown ==
  ASSUME NEW p, NEW n, NEW Q, NEW c \in Q, p[c] \in BelowIn(p, n, Q)
  PROVE  c \in BelowIn(p, n, Q)
BY DEF BelowIn

\* To show that all of it lies in a set it is enough that the set has the node
\* and, with a node that lies below, its children.
LEMMA BelowLeast ==
  ASSUME NEW p, NEW n, NEW Q, NEW S, n \in S,
         \A c \in Q : p[c] \in S /\ p[c] \in BelowIn(p, n, Q) => c \in S
  PROVE  BelowIn(p, n, Q) \subseteq S
<1> DEFINE B == BelowIn(p, n, Q)
           I == S \cap B
<1>1. I \in SUBSET (Q \cup {n}) /\ n \in I
  BY BelowSelf
<1>2. \A c \in Q : p[c] \in I => c \in I
  BY BelowDown
<1>3. \A m \in B : m \in I
  BY <1>1, <1>2 DEF BelowIn
<1> QED
  BY <1>3

LEMMA BelowUp ==
  ASSUME NEW p, NEW n, NEW Q, NEW m \in BelowIn(p, n, Q), m # n
  PROVE  m \in Q /\ p[m] \in BelowIn(p, n, Q)
<1> DEFINE B == BelowIn(p, n, Q)
           S == {n} \cup {c \in Q : p[c] \in B}
<1>1. n \in S /\ \A c \in Q : p[c] \in S /\ p[c] \in B => c \in S
  OBVIOUS
<1> HIDE DEF S
<1>2. BelowIn(p, n, Q) \subseteq S
  BY <1>1, BelowLeast DEF B
<1> QED
  BY <1>2 DEF S

LEMMA BelowMono ==
  ASSUME NEW p, NEW q, NEW n, NEW Q, NEW R, Q \subseteq R, \A c \in Q : p[c] = q[c]
  PROVE  BelowIn(p, n, Q) \subseteq BelowIn(q, n, R)
<1> DEFINE S == BelowIn(q, n, R)
<1>1. n \in S
  BY BelowSelf
<1>2. \A c \in Q : p[c] \in S => c \in S
  BY BelowDown
<1> HIDE DEF S
<1>3. BelowIn(p, n, Q) \subseteq S
  BY <1>1, <1>2, BelowLeast
<1> QED
  BY <1>3 DEF S

LEMMA BelowSame ==
  ASSUME NEW p, NEW q, NEW n, NEW Q, \A c \in Q : p[c] = q[c]
  PROVE  BelowIn(p, n, Q) = BelowIn(q, n, Q)
<1>1. BelowIn(p, n, Q) \subseteq BelowIn(q, n, Q)
  BY BelowMono
<1>2. BelowIn(q, n, Q) \subseteq BelowIn(p, n, Q)
  BY BelowMono
<1> QED
  BY <1>1, <1>2

\* New nodes above which no old one hangs bring no old node below another.
LEMMA BelowGrows ==
  ASSUME NEW p, NEW q, NEW n, NEW Q, NEW R, Q \subseteq R,
         \A c \in Q : p[c] = q[c] /\ p[c] \notin R \ Q
  PROVE  \A m \in Q : m \in BelowIn(q, n, R) => m \in BelowIn(p, n, Q)
<1> DEFINE S == BelowIn(p, n, Q) \cup (R \ Q)
<1>1. n \in S
  BY BelowSelf
<1>2. \A c \in R : q[c] \in S => c \in S
  BY BelowDown
<1> HIDE DEF S
<1>3. BelowIn(q, n, R) \subseteq S
  BY <1>1, <1>2, BelowLeast
<1> QED
  BY <1>3 DEF S

\* What goes goes with all that lies below it; the rest stays below.
LEMMA BelowLoses ==
  ASSUME NEW p, NEW n, NEW Q, NEW T, \A c \in Q : p[c] \in T => c \in T
  PROVE  BelowIn(p, n, Q) \subseteq BelowIn(p, n, Q \ T) \cup T
<1> DEFINE S == BelowIn(p, n, Q \ T) \cup T
<1>1. n \in S
  BY BelowSelf
<1>2. \A c \in Q : p[c] \in S => c \in S
  BY BelowDown
<1> HIDE DEF S
<1>3. BelowIn(p, n, Q) \subseteq S
  BY <1>1, <1>2, BelowLeast
<1> QED
  BY <1>3 DEF S

LEMMA BelowBelow ==
  ASSUME NEW p, NEW n, NEW Q, NEW m \in BelowIn(p, n, Q)
  PROVE  BelowIn(p, m, Q) \subseteq BelowIn(p, n, Q)
<1> DEFINE S == BelowIn(p, n, Q)
<1>1. m \in S /\ \A c \in Q : p[c] \in S => c \in S
  BY BelowDown
<1> HIDE DEF S
<1>2. BelowIn(p, m, Q) \subseteq S
  BY <1>1, BelowLeast
<1> QED
  BY <1>2 DEF S
-----------------------------------------------------------------------------
(* Requests. What a step does to the slot of its request, once for every   *)
(* form the assignments to s have.                                         *)

SlotType == [pc: PC, op: Op, node: Node \cup {Root}, dest: Node \cup {Root},
             ids: SUBSET Node, keys: SUBSET Files]

SlotsTyped == s \in [Slot -> SlotType]

Others(i) == \A j \in Slot \ {i} : s'[j] = s[j]

LEMMA IdleTyped == Idle \in SlotType
BY DEF SlotType, Idle, PC, Op

LEMMA SetSlot ==
  ASSUME SlotsTyped, NEW i \in Slot, NEW x \in SlotType, s' = [s EXCEPT ![i] = x]
  PROVE  SlotsTyped' /\ s'[i] = x /\ Others(i)
BY DEF SlotsTyped, Others

LEMMA GotoSlot ==
  ASSUME SlotsTyped, NEW i \in Slot, NEW p \in PC, Goto(i, p)
  PROVE  /\ SlotsTyped' /\ Others(i) /\ s'[i].pc = p
         /\ s'[i].op = s[i].op /\ s'[i].node = s[i].node /\ s'[i].dest = s[i].dest
         /\ s'[i].ids = s[i].ids /\ s'[i].keys = s[i].keys
<1> DEFINE x == [s[i] EXCEPT !.pc = p]
<1>1. /\ x \in SlotType /\ x.pc = p /\ x.op = s[i].op /\ x.node = s[i].node
      /\ x.dest = s[i].dest /\ x.ids = s[i].ids /\ x.keys = s[i].keys
  BY DEF SlotsTyped, SlotType
<1>2. s' = [s EXCEPT ![i] = x]
  BY DEF Goto
<1> HIDE DEF x
<1> QED
  BY <1>1, <1>2, SetSlot

LEMMA ReturnSlot ==
  ASSUME SlotsTyped, NEW i \in Slot, Return(i)
  PROVE  /\ SlotsTyped' /\ Others(i) /\ s'[i].pc = "idle" /\ s'[i].op = "none"
         /\ s'[i].ids = {} /\ s'[i].keys = {}
<1>1. SlotsTyped' /\ s'[i] = Idle /\ Others(i)
  BY IdleTyped, SetSlot DEF Return
<1> QED
  BY <1>1 DEF Idle

LEMMA StartSlot ==
  ASSUME SlotsTyped, NEW i \in Slot, NEW op \in Op, NEW p \in PC,
         NEW n \in Node \cup {Root}, NEW d \in Node \cup {Root}, Start(i, op, p, n, d)
  PROVE  /\ SlotsTyped' /\ Others(i) /\ s'[i].pc = p /\ s'[i].op = op
         /\ s'[i].node = n /\ s'[i].dest = d /\ s'[i].ids = {} /\ s'[i].keys = {}
         /\ s[i].pc = "idle" /\ MayRun(op)
<1> DEFINE x == [Idle EXCEPT !.pc = p, !.op = op, !.node = n, !.dest = d]
<1>1. /\ x \in SlotType /\ x.pc = p /\ x.op = op /\ x.node = n
      /\ x.dest = d /\ x.ids = {} /\ x.keys = {}
  BY DEF Idle, SlotType
<1>2. s' = [s EXCEPT ![i] = x] /\ s[i].pc = "idle" /\ MayRun(op)
  BY DEF Start, At
<1> HIDE DEF x
<1> QED
  BY <1>1, <1>2, SetSlot

\* A request that reads a list of nodes.
LEMMA ListSlot ==
  ASSUME SlotsTyped, NEW i \in Slot, NEW p \in PC, NEW S \in SUBSET Node,
         s' = [s EXCEPT ![i].pc = p, ![i].ids = S]
  PROVE  /\ SlotsTyped' /\ Others(i) /\ s'[i].pc = p /\ s'[i].ids = S
         /\ s'[i].op = s[i].op /\ s'[i].node = s[i].node /\ s'[i].dest = s[i].dest
         /\ s'[i].keys = s[i].keys
<1> DEFINE x == [s[i] EXCEPT !.pc = p, !.ids = S]
<1>1. /\ x \in SlotType /\ x.pc = p /\ x.op = s[i].op /\ x.node = s[i].node
      /\ x.dest = s[i].dest /\ x.ids = S /\ x.keys = s[i].keys
  BY DEF SlotsTyped, SlotType
<1>2. s' = [s EXCEPT ![i] = x]
  OBVIOUS
<1> HIDE DEF x
<1> QED
  BY <1>1, <1>2, SetSlot

\* A walk that goes up a level.
LEMMA LevelSlot ==
  ASSUME SlotsTyped, NEW i \in Slot, NEW S \in SUBSET Node,
         s' = [s EXCEPT ![i].ids = S]
  PROVE  /\ SlotsTyped' /\ Others(i) /\ s'[i].pc = s[i].pc /\ s'[i].ids = S
         /\ s'[i].op = s[i].op /\ s'[i].node = s[i].node /\ s'[i].dest = s[i].dest
         /\ s'[i].keys = s[i].keys
<1> DEFINE x == [s[i] EXCEPT !.ids = S]
<1>1. /\ x \in SlotType /\ x.pc = s[i].pc /\ x.op = s[i].op /\ x.node = s[i].node
      /\ x.dest = s[i].dest /\ x.ids = S /\ x.keys = s[i].keys
  BY DEF SlotsTyped, SlotType
<1>2. s' = [s EXCEPT ![i] = x]
  OBVIOUS
<1> HIDE DEF x
<1> QED
  BY <1>1, <1>2, SetSlot

\* A request that reads storage keys.
LEMMA KeysSlot ==
  ASSUME SlotsTyped, NEW i \in Slot, NEW p \in PC, NEW K \in SUBSET Files,
         s' = [s EXCEPT ![i].pc = p, ![i].keys = K]
  PROVE  /\ SlotsTyped' /\ Others(i) /\ s'[i].pc = p /\ s'[i].keys = K
         /\ s'[i].op = s[i].op /\ s'[i].node = s[i].node /\ s'[i].dest = s[i].dest
         /\ s'[i].ids = s[i].ids
<1> DEFINE x == [s[i] EXCEPT !.pc = p, !.keys = K]
<1>1. /\ x \in SlotType /\ x.pc = p /\ x.op = s[i].op /\ x.node = s[i].node
      /\ x.dest = s[i].dest /\ x.ids = s[i].ids /\ x.keys = K
  BY DEF SlotsTyped, SlotType
<1>2. s' = [s EXCEPT ![i] = x]
  OBVIOUS
<1> HIDE DEF x
<1> QED
  BY <1>1, <1>2, SetSlot

\* A purge that reads the storage keys below its node.
PurgeKeys(n) == IF n \in rows THEN Below(n, rows) \cap chunk ELSE {}

LEMMA PurgeSlot ==
  ASSUME SlotsTyped, NEW i \in Slot, s[i].node \in Node, chunk \subseteq Files,
         PurgeReadKeys(i)
  PROVE  /\ SlotsTyped' /\ Others(i) /\ s'[i].pc = "puHeld"
         /\ s'[i].ids = {s[i].node} /\ s'[i].keys = PurgeKeys(s[i].node)
         /\ s'[i].op = s[i].op /\ s'[i].node = s[i].node /\ s'[i].dest = s[i].dest
<1> DEFINE K == PurgeKeys(s[i].node)
           S == {s[i].node}
           x == [s[i] EXCEPT !.pc = "puHeld", !.ids = S, !.keys = K]
<1>1. K \subseteq Files /\ S \subseteq Node
  BY DEF PurgeKeys
<1>2. s' = [s EXCEPT ![i] = x]
  BY DEF PurgeReadKeys, PurgeKeys
<1> HIDE DEF K, S
<1>3. /\ x \in SlotType /\ x.pc = "puHeld" /\ x.op = s[i].op /\ x.node = s[i].node
      /\ x.dest = s[i].dest /\ x.ids = S /\ x.keys = K
  BY <1>1 DEF SlotsTyped, SlotType, PC
<1> HIDE DEF x
<1>4. SlotsTyped' /\ s'[i] = x /\ Others(i)
  BY <1>2, <1>3, SetSlot
<1> QED
  BY <1>3, <1>4 DEF S, K

\* A sweep takes the next of its uploads, or is done.
LEMMA SweepSlot ==
  ASSUME SlotsTyped, NEW i \in Slot, NEW S \in SUBSET Node, SweepNext(i, S)
  PROVE  /\ SlotsTyped' /\ Others(i) /\ s'[i].keys = {}
         /\ \/ s'[i].pc = "idle" /\ s'[i].op = "none" /\ s'[i].ids = {}
            \/ /\ s'[i].pc = "keys" /\ s'[i].op = s[i].op /\ s'[i].ids = S
               /\ s'[i].node \in S
<1>1. CASE Return(i)
  BY <1>1, ReturnSlot
<1>2. CASE S # {}
  <2>1. PICK n \in S : s' = [s EXCEPT ![i].pc = "keys", ![i].node = n,
                                      ![i].ids = S, ![i].keys = {}]
    BY <1>2 DEF SweepNext
  <2> DEFINE x == [s[i] EXCEPT !.pc = "keys", !.node = n, !.ids = S, !.keys = {}]
  <2>2. /\ x \in SlotType /\ x.pc = "keys" /\ x.op = s[i].op /\ x.node = n
        /\ x.ids = S /\ x.keys = {}
    BY DEF SlotsTyped, SlotType, PC
  <2>3. s' = [s EXCEPT ![i] = x]
    BY <2>1
  <2> HIDE DEF x
  <2> QED
    BY <2>2, <2>3, SetSlot
<1> QED
  BY <1>1, <1>2 DEF SweepNext
-----------------------------------------------------------------------------
(* Types, and what a request in a slot works on.                           *)

\* Which operation a program counter belongs to.
PcOf(p, o) ==
  /\ p = "idle" <=> o = "none"
  /\ p \in {"crParent", "crInsert"} => o = "create"
  /\ p \in {"fnRow", "fnMeasure", "fnChunks", "fnFlip"} => o = "finalize"
  /\ p \in {"trHold", "trMark"} => o = "trash"
  /\ p \in {"rsRow", "rsMark"} => o = "restore"
  /\ p \in {"puRow", "puKeys", "puHeld"} => o = "purge"
  /\ p \in {"emList", "emHeld"} => o = "empty"
  /\ p = "exList" => o = "expire"
  /\ p = "swList" => o = "sweep"
  /\ p = "keys" => o \in {"empty", "expire", "sweep"}
  /\ p \in {"objects", "delete"} => o \in {"purge", "empty", "expire", "sweep"}
  /\ p \in {"mvRow", "mvDest", "mvWalk", "mvUpdate"} => o = "move"

PcTyped(i) == PcOf(s[i].pc, s[i].op)

SlotTyped(i) ==
  /\ s[i].op \in {"create", "trash", "restore", "purge", "move"} => s[i].node \in Node
  /\ s[i].op = "finalize" => s[i].node \in Files
  /\ s[i].op \in {"create", "move"} => s[i].dest \in Folders \cup {Root}
  /\ s[i].pc \in {"mvDest", "mvWalk"} => s[i].dest \in Folders
  /\ s[i].op = "sweep" => s[i].ids \subseteq Files
  /\ s[i].op = "sweep" /\ s[i].pc # "swList" => s[i].node \in s[i].ids
  /\ s[i].op = "purge" /\ s[i].pc \notin {"puRow", "puKeys"} => s[i].ids = {s[i].node}
  /\ s[i].op # "purge" => s[i].keys \subseteq Targets(i)
  /\ s[i].pc \in {"emList", "exList"} => s[i].keys = {}
  /\ s[i].op \in {"create", "finalize", "trash", "restore", "move"} => s[i].keys = {}

RowsTyped ==
  /\ rows \subseteq Node
  /\ parent \in [Node -> Folders \cup {Root}]
  /\ stamp \in [Node -> 0..clock]
  /\ complete \subseteq rows /\ held \subseteq complete
  /\ Folders \cap rows \subseteq complete
  /\ chunk \subseteq Files \cap rows
  /\ object \subseteq Files
  /\ client \in [Node -> {"none", "open", "gone", "done"}]
  /\ \A n \in Node : client[n] = "open" => n \in Files
  /\ clock \in 0..MaxTrash /\ aged \in 0..clock

TypeInv ==
  /\ RowsTyped /\ faults \in 0..MaxFault
  /\ SlotsTyped /\ \A i \in Slot : PcTyped(i) /\ SlotTyped(i)

LEMMA Tags ==
  /\ \A p \in {"idle", "crParent", "crInsert", "fnRow", "fnMeasure", "fnChunks",
               "fnFlip", "trHold", "trMark", "rsRow", "rsMark", "puRow", "puKeys",
               "puHeld"} : p \in PC
  /\ \A p \in {"emList", "emHeld", "exList", "keys", "objects", "delete", "swList",
               "mvRow", "mvDest", "mvWalk", "mvUpdate"} : p \in PC
  /\ \A o \in {"none", "create", "finalize", "trash", "restore", "purge", "empty",
               "expire", "sweep", "move"} : o \in Op
BY DEF PC, Op

LEMMA FaultsTyped ==
  ASSUME faults \in 0..MaxFault, NEW tag, Ok \/ Errs(tag)
  PROVE  faults' \in 0..MaxFault
BY BoundAssumption DEF Ok, Errs

\* A step of the request in slot i keeps the types when it keeps those of the
\* tables and of its own slot.
LEMMA TypeStep ==
  ASSUME TypeInv, NEW i \in Slot, SlotsTyped', Others(i), RowsTyped',
         faults' \in 0..MaxFault, PcTyped(i)', SlotTyped(i)'
  PROVE  TypeInv'
<1>1. ASSUME NEW j \in Slot, j # i
      PROVE  PcTyped(j)' /\ SlotTyped(j)'
  <2>1. s'[j] = s[j]
    BY <1>1 DEF Others
  <2>2. PcTyped(j)'
    BY <2>1, <1>1 DEF TypeInv, PcTyped
  <2>3. SlotTyped(j)'
    BY <2>1, <1>1 DEF TypeInv, SlotTyped, Targets
  <2> QED
    BY <2>2, <2>3
<1> QED
  BY <1>1 DEF TypeInv

Untouched == UNCHANGED <<rows, parent, stamp, complete, held, chunk, object, client,
                         clock, aged>>

LEMMA RowsSame ==
  ASSUME TypeInv, Untouched
  PROVE  RowsTyped'
BY DEF TypeInv, Untouched, RowsTyped

LEMMA IdleSlotTyped ==
  ASSUME NEW i \in Slot, s'[i].pc = "idle", s'[i].op = "none", s'[i].ids = {},
         s'[i].keys = {}
  PROVE  PcTyped(i)' /\ SlotTyped(i)'
<1>1. PcTyped(i)'
  BY DEF PcTyped, PcOf
<1>2. SlotTyped(i)'
  BY DEF SlotTyped
<1> QED
  BY <1>1, <1>2

LEMMA TypeReturn ==
  ASSUME TypeInv, NEW i \in Slot, Return(i), RowsTyped', faults' \in 0..MaxFault
  PROVE  TypeInv'
<1>1. SlotsTyped
  BY DEF TypeInv
<1> QED
  BY <1>1, ReturnSlot, IdleSlotTyped, TypeStep

\* A step that only goes on to the next await of the same operation.
LEMMA TypeGoto ==
  ASSUME TypeInv, NEW i \in Slot, NEW p \in PC, Goto(i, p), RowsTyped',
         faults' \in 0..MaxFault, p # "idle", s[i].pc # "idle",
         p \notin {"mvDest", "mvWalk", "emList", "exList"},
         s[i].op = "sweep" => s[i].pc # "swList",
         s[i].op = "purge" => p \in {"puKeys"} \/ s[i].pc \notin {"puRow", "puKeys"},
         PcOf(p, s[i].op)
  PROVE  TypeInv'
<1>1. SlotsTyped /\ PcTyped(i) /\ SlotTyped(i) /\ s[i].op \in Op
  BY DEF TypeInv, SlotsTyped, SlotType
<1>2. /\ SlotsTyped' /\ Others(i) /\ s'[i].pc = p
      /\ s'[i].op = s[i].op /\ s'[i].node = s[i].node /\ s'[i].dest = s[i].dest
      /\ s'[i].ids = s[i].ids /\ s'[i].keys = s[i].keys
  BY <1>1, GotoSlot
<1>3. SlotTyped(i)'
  BY <1>1, <1>2 DEF SlotTyped, Targets
<1>4. PcTyped(i)'
  BY <1>2 DEF PcTyped
<1> QED
  BY <1>1, <1>2, <1>3, <1>4, TypeStep

LEMMA TypeInit == Init => TypeInv
<1> SUFFICES ASSUME Init PROVE TypeInv
  OBVIOUS
<1>1. RowsTyped
  BY NodeAssumption, BoundAssumption DEF Init, RowsTyped, Node, Live
<1>2. faults \in 0..MaxFault
  BY BoundAssumption DEF Init
<1>3. SlotsTyped
  BY IdleTyped DEF Init, SlotsTyped
<1>4. \A i \in Slot : PcTyped(i) /\ SlotTyped(i)
  BY DEF Init, Idle, PcTyped, PcOf, SlotTyped
<1> QED
  BY <1>1, <1>2, <1>3, <1>4 DEF TypeInv

LEMMA ShownSets ==
  ASSUME TypeInv
  PROVE  /\ Shown \subseteq {n \in complete : stamp[n] = Live}
         /\ TopOfTrash \subseteq {n \in complete : stamp[n] # Live}
         /\ Place \subseteq Folders \cup {Root}
         /\ \A d \in Place : d # Root => d \in rows /\ stamp[d] = Live
         /\ complete \subseteq rows /\ rows \subseteq Node
<1>1. complete \subseteq rows /\ rows \subseteq Node
  BY DEF TypeInv, RowsTyped
<1>2. Shown \subseteq {n \in complete : stamp[n] = Live}
  BY BelowIs, BelowSelf DEF Shown
<1> QED
  BY <1>1, <1>2 DEF Place, TopOfTrash, Trashed

LEMMA TypeStart ==
  ASSUME TypeInv, NEW i \in Slot, NEW op \in Op, NEW p \in PC,
         NEW n \in Node \cup {Root}, NEW d \in Node \cup {Root},
         Start(i, op, p, n, d), PcOf(p, op), p # "idle", p \notin {"mvDest", "mvWalk"},
         op \in {"create", "trash", "restore", "purge", "move"} => n \in Node,
         op = "finalize" => n \in Files,
         op \in {"create", "move"} => d \in Folders \cup {Root},
         op = "sweep" => p = "swList", op = "purge" => p = "puRow",
         RowsTyped', faults' \in 0..MaxFault
  PROVE  TypeInv'
<1>1. SlotsTyped
  BY DEF TypeInv
<1>2. /\ SlotsTyped' /\ Others(i) /\ s'[i].pc = p /\ s'[i].op = op
      /\ s'[i].node = n /\ s'[i].dest = d /\ s'[i].ids = {} /\ s'[i].keys = {}
  BY <1>1, StartSlot
<1>3. SlotTyped(i)'
  BY <1>2 DEF SlotTyped
<1>4. PcTyped(i)'
  BY <1>2 DEF PcTyped
<1> QED
  BY <1>2, <1>3, <1>4, TypeStep

LEMMA TypeBegin ==
  ASSUME TypeInv, NEW i \in Slot, Begin(i)
  PROVE  TypeInv'
<1>0. /\ faults \in 0..MaxFault /\ RowsTyped /\ Root \in Node \cup {Root}
      /\ \A n \in Node : n \in Node \cup {Root}
  BY DEF TypeInv
<1>1. CASE StartEmpty(i)
  <2>1. RowsTyped' /\ faults' = faults
    BY <1>1, RowsSame DEF StartEmpty, Untouched
  <2>2. PcOf("emList", "empty")
    BY DEF PcOf
  <2> QED
    BY <1>0, <1>1, <2>1, <2>2, Tags, TypeStart DEF StartEmpty
<1>2. CASE StartExpire(i)
  <2>1. RowsTyped' /\ faults' = faults
    BY <1>2, RowsSame DEF StartExpire, Untouched
  <2>2. PcOf("exList", "expire")
    BY DEF PcOf
  <2> QED
    BY <1>0, <1>2, <2>1, <2>2, Tags, TypeStart DEF StartExpire
<1>3. CASE StartSweep(i)
  <2>1. RowsTyped' /\ faults' = faults
    BY <1>3, RowsSame DEF StartSweep, Untouched
  <2>2. PcOf("swList", "sweep")
    BY DEF PcOf
  <2> QED
    BY <1>0, <1>3, <2>1, <2>2, Tags, TypeStart DEF StartSweep
<1>4. CASE \E n \in Files : StartFinalize(i, n)
  <2>1. PICK n \in Files : StartFinalize(i, n)
    BY <1>4
  <2>2. RowsTyped' /\ faults' = faults
    BY <1>0, <2>1 DEF StartFinalize, RowsTyped
  <2>3. PcOf("fnRow", "finalize") /\ n \in Node \cup {Root}
    BY DEF PcOf, Node
  <2> QED
    BY <1>0, <2>1, <2>2, <2>3, Tags, TypeStart DEF StartFinalize
<1>5. CASE \E n \in TopOfTrash : StartRestore(i, n) \/ StartPurge(i, n)
  <2>1. PICK n \in TopOfTrash : StartRestore(i, n) \/ StartPurge(i, n)
    BY <1>5
  <2>2. RowsTyped' /\ faults' = faults
    BY <2>1, RowsSame DEF StartRestore, StartPurge, Untouched
  <2>3. n \in Node /\ PcOf("rsRow", "restore") /\ PcOf("puRow", "purge")
    BY ShownSets DEF PcOf
  <2>4. CASE StartRestore(i, n)
    BY <1>0, <2>4, <2>2, <2>3, Tags, TypeStart DEF StartRestore
  <2>5. CASE StartPurge(i, n)
    BY <1>0, <2>5, <2>2, <2>3, Tags, TypeStart DEF StartPurge
  <2> QED
    BY <2>1, <2>4, <2>5
<1>6. CASE \E n \in Shown : StartTrash(i, n)
  <2>1. PICK n \in Shown : StartTrash(i, n)
    BY <1>6
  <2>2. RowsTyped' /\ faults' = faults
    BY <2>1, RowsSame DEF StartTrash, Untouched
  <2>3. n \in Node /\ PcOf("trHold", "trash")
    BY ShownSets DEF PcOf
  <2> QED
    BY <1>0, <2>1, <2>2, <2>3, Tags, TypeStart DEF StartTrash
<1>7. CASE \E n \in Node, d \in Place : StartCreate(i, n, d)
  <2>1. PICK n \in Node, d \in Place : StartCreate(i, n, d)
    BY <1>7
  <2>2. RowsTyped' /\ faults' = faults
    BY <1>0, <2>1 DEF StartCreate, RowsTyped
  <2>3. d \in Folders \cup {Root} /\ d \in Node \cup {Root}
    BY ShownSets DEF Node
  <2>4. PcOf("crInsert", "create") /\ PcOf("crParent", "create")
    BY DEF PcOf
  <2>5. PICK p \in {"crInsert", "crParent"} : Start(i, "create", p, n, d)
    BY <2>1 DEF StartCreate
  <2> QED
    BY <1>0, <2>2, <2>3, <2>4, <2>5, Tags, TypeStart
<1>8. CASE \E n \in Shown, d \in Place : StartMove(i, n, d)
  <2>1. PICK n \in Shown, d \in Place : StartMove(i, n, d)
    BY <1>8
  <2>2. RowsTyped' /\ faults' = faults
    BY <2>1, RowsSame DEF StartMove, Untouched
  <2>3. /\ n \in Node /\ d \in Folders \cup {Root} /\ d \in Node \cup {Root}
        /\ PcOf("mvRow", "move")
    BY ShownSets DEF PcOf, Node
  <2> QED
    BY <1>0, <2>1, <2>2, <2>3, Tags, TypeStart DEF StartMove
<1> QED
  BY <1>1, <1>2, <1>3, <1>4, <1>5, <1>6, <1>7, <1>8 DEF Begin

LEMMA TypeCreates ==
  ASSUME TypeInv, NEW i \in Slot, CreateCheckParent(i) \/ CreateInsert(i)
  PROVE  TypeInv'
<1> USE DEF At
<1>0. /\ faults \in 0..MaxFault /\ RowsTyped /\ PcTyped(i) /\ SlotTyped(i)
      /\ s[i].op \in Op
  BY DEF TypeInv, SlotsTyped, SlotType
<1>1. CASE CreateCheckParent(i)
  <2>1. RowsTyped' /\ faults' = faults /\ s[i].op = "create"
    BY <1>0, <1>1, RowsSame DEF CreateCheckParent, Untouched, PcTyped, PcOf
  <2>2. PcOf("crInsert", s[i].op)
    BY <2>1 DEF PcOf
  <2> QED
    BY <1>0, <1>1, <2>1, <2>2, Tags, TypeGoto, TypeReturn DEF CreateCheckParent
<1>2. CASE CreateInsert(i)
  <2>1. s[i].node \in Node /\ s[i].dest \in Folders \cup {Root}
    BY <1>0, <1>2 DEF CreateInsert, PcTyped, PcOf, SlotTyped
  <2>2. RowsTyped' /\ faults' = faults
    BY <1>0, <1>2, <2>1 DEF CreateInsert, RowsTyped, Node
  <2> QED
    BY <1>0, <1>2, <2>2, TypeReturn DEF CreateInsert
<1> QED
  BY <1>1, <1>2

LEMMA TypeFinalizes ==
  ASSUME TypeInv, NEW i \in Slot,
         \/ FinalizeReadRow(i) \/ FinalizeMeasure(i) \/ FinalizeInsertChunks(i)
         \/ FinalizeFlip(i)
  PROVE  TypeInv'
<1> USE DEF At
<1>0. /\ faults \in 0..MaxFault /\ RowsTyped /\ s[i].op = "finalize"
      /\ s[i].node \in Files
  BY DEF TypeInv, PcTyped, PcOf, SlotTyped, FinalizeReadRow, FinalizeMeasure,
         FinalizeInsertChunks, FinalizeFlip
<1>1. \A p \in {"fnMeasure", "fnChunks", "fnFlip"} : PcOf(p, s[i].op)
  BY <1>0 DEF PcOf
<1>2. RowsTyped' /\ faults' = faults
  <2>1. CASE FinalizeReadRow(i)
    BY <2>1, RowsSame DEF FinalizeReadRow, Untouched
  <2>2. CASE FinalizeMeasure(i)
    BY <1>0, <2>2 DEF FinalizeMeasure, RowsTyped
  <2>3. CASE FinalizeInsertChunks(i)
    BY <1>0, <2>3 DEF FinalizeInsertChunks, RowsTyped
  <2>4. CASE FinalizeFlip(i)
    BY <1>0, <2>4 DEF FinalizeFlip, RowsTyped
  <2> QED
    BY <2>1, <2>2, <2>3, <2>4
<1>3. \/ Return(i)
      \/ \E p \in {"fnMeasure", "fnChunks", "fnFlip"} : Goto(i, p) /\ s[i].pc # "idle"
  BY DEF FinalizeReadRow, FinalizeMeasure, FinalizeInsertChunks, FinalizeFlip
<1> QED
  BY <1>0, <1>1, <1>2, <1>3, Tags, TypeGoto, TypeReturn

LEMMA TypeTrashes ==
  ASSUME TypeInv, NEW i \in Slot,
         TrashCheckHold(i) \/ TrashMark(i) \/ RestoreReadRow(i) \/ RestoreMark(i)
  PROVE  TypeInv'
<1> USE DEF At
<1>0. faults \in 0..MaxFault /\ RowsTyped /\ PcTyped(i)
  BY DEF TypeInv
<1>1. CASE TrashCheckHold(i)
  <2>1. RowsTyped' /\ faults' \in 0..MaxFault /\ s[i].op = "trash"
    BY <1>0, <1>1, RowsSame, FaultsTyped DEF TrashCheckHold, Untouched, PcTyped, PcOf
  <2>2. PcOf("trMark", s[i].op)
    BY <2>1 DEF PcOf
  <2> QED
    BY <1>1, <2>1, <2>2, Tags, TypeGoto, TypeReturn DEF TrashCheckHold
<1>2. CASE TrashMark(i)
  <2>1. RowsTyped' /\ faults' = faults
    <3>1. clock \in Nat /\ MaxTrash \in Nat
      BY <1>0, BoundAssumption DEF RowsTyped
    <3>2. stamp' \in [Node -> 0..clock'] /\ clock' \in 0..MaxTrash /\ aged' \in 0..clock'
      BY <1>0, <1>2, <3>1 DEF TrashMark, RowsTyped
    <3> QED
      BY <1>0, <1>2, <3>2 DEF TrashMark, RowsTyped
  <2> QED
    BY <1>0, <1>2, <2>1, TypeReturn DEF TrashMark
<1>3. CASE RestoreReadRow(i)
  <2>1. RowsTyped' /\ faults' = faults /\ s[i].op = "restore"
    BY <1>0, <1>3, RowsSame DEF RestoreReadRow, Untouched, PcTyped, PcOf
  <2>2. PcOf("rsMark", s[i].op)
    BY <2>1 DEF PcOf
  <2> QED
    BY <1>0, <1>3, <2>1, <2>2, Tags, TypeGoto, TypeReturn DEF RestoreReadRow
<1>4. CASE RestoreMark(i)
  <2>1. RowsTyped' /\ faults' = faults
    BY <1>0, <1>4 DEF RestoreMark, RowsTyped, Live
  <2> QED
    BY <1>0, <1>4, <2>1, TypeReturn DEF RestoreMark
<1> QED
  BY <1>1, <1>2, <1>3, <1>4

LEMMA TypePurges ==
  ASSUME TypeInv, NEW i \in Slot, PurgeReadRow(i) \/ PurgeReadKeys(i) \/ PurgeCheckHeld(i)
  PROVE  TypeInv'
<1> USE DEF At
<1>0. /\ faults \in 0..MaxFault /\ RowsTyped /\ SlotTyped(i) /\ SlotsTyped
      /\ s[i].op = "purge" /\ s[i].node \in Node
  BY DEF TypeInv, PcTyped, PcOf, SlotTyped, PurgeReadRow, PurgeReadKeys, PurgeCheckHeld
<1>1. \A p \in {"puKeys", "puHeld", "objects"} : PcOf(p, s[i].op)
  BY <1>0 DEF PcOf
<1>2. RowsTyped' /\ faults' = faults
  BY RowsSame DEF PurgeReadRow, PurgeReadKeys, PurgeCheckHeld, Untouched
<1>3. CASE PurgeReadRow(i)
  BY <1>0, <1>1, <1>2, <1>3, Tags, TypeGoto, TypeReturn DEF PurgeReadRow
<1>4. CASE PurgeReadKeys(i)
  <2>2. /\ SlotsTyped' /\ Others(i) /\ s'[i].pc = "puHeld" /\ s'[i].ids = {s[i].node}
        /\ s'[i].op = s[i].op /\ s'[i].node = s[i].node
    BY <1>0, <1>4, PurgeSlot DEF RowsTyped
  <2>3. PcTyped(i)' /\ SlotTyped(i)'
    BY <1>0, <1>1, <2>2 DEF PcTyped, SlotTyped
  <2> QED
    BY <1>0, <1>2, <2>2, <2>3, TypeStep
<1>5. CASE PurgeCheckHeld(i)
  BY <1>0, <1>1, <1>2, <1>5, Tags, TypeGoto, TypeReturn DEF PurgeCheckHeld
<1> QED
  BY <1>3, <1>4, <1>5

\* The lists that empty, expiry and sweep work through.
LEMMA Lists ==
  ASSUME TypeInv
  PROVE  /\ Trashed \subseteq rows /\ Expirable \subseteq Expired
         /\ Expired \subseteq Trashed /\ Stale \subseteq Files \ complete
         /\ Trashed \subseteq Node
BY DEF TypeInv, RowsTyped, Trashed, Expirable, Expired, Stale, Node

LEMMA TypeSweep ==
  ASSUME TypeInv, NEW i \in Slot, NEW S \in SUBSET Files, s[i].op = "sweep",
         SweepNext(i, S), RowsTyped', faults' \in 0..MaxFault
  PROVE  TypeInv'
<1>1. SlotsTyped /\ S \in SUBSET Node /\ PcOf("keys", "sweep")
  BY DEF TypeInv, Node, PcOf
<1>2. /\ SlotsTyped' /\ Others(i) /\ s'[i].keys = {}
      /\ \/ s'[i].pc = "idle" /\ s'[i].op = "none" /\ s'[i].ids = {}
         \/ /\ s'[i].pc = "keys" /\ s'[i].op = "sweep" /\ s'[i].ids = S
            /\ s'[i].node \in S
  BY <1>1, SweepSlot
<1>3. PcTyped(i)' /\ SlotTyped(i)'
  <2>1. CASE s'[i].pc = "idle"
    BY <1>2, <2>1, IdleSlotTyped
  <2>2. CASE s'[i].pc = "keys"
    BY <1>1, <1>2, <2>2 DEF PcTyped, SlotTyped
  <2> QED
    BY <1>2, <2>1, <2>2
<1> QED
  BY <1>2, <1>3, TypeStep

LEMMA TypeLists ==
  ASSUME TypeInv, NEW i \in Slot,
         EmptyList(i) \/ EmptyCheckHeld(i) \/ ExpireList(i) \/ SweepList(i)
  PROVE  TypeInv'
<1> USE DEF At
<1>0. /\ faults \in 0..MaxFault /\ RowsTyped /\ SlotTyped(i) /\ SlotsTyped /\ PcTyped(i)
  BY DEF TypeInv
<1>1. RowsTyped' /\ faults' = faults
  BY RowsSame DEF EmptyList, EmptyCheckHeld, ExpireList, SweepList, Untouched
<1>2. CASE EmptyList(i)
  <2>1. s[i].op = "empty" /\ PcOf("emHeld", s[i].op)
    BY <1>0, <1>2 DEF EmptyList, PcTyped, PcOf
  <2>2. ASSUME s' = [s EXCEPT ![i].pc = "emHeld", ![i].ids = Trashed]
        PROVE  TypeInv'
    <3>1. "emHeld" \in PC /\ Trashed \in SUBSET Node
      BY Tags, Lists
    <3>2. /\ SlotsTyped' /\ Others(i) /\ s'[i].pc = "emHeld" /\ s'[i].ids = Trashed
          /\ s'[i].op = s[i].op /\ s'[i].keys = s[i].keys
      BY <1>0, <2>2, <3>1, ListSlot
    <3>3. PcTyped(i)' /\ SlotTyped(i)'
      BY <1>0, <1>2, <2>1, <3>2 DEF EmptyList, PcTyped, SlotTyped, Targets
    <3> QED
      BY <1>0, <1>1, <3>2, <3>3, TypeStep
  <2> QED
    BY <1>0, <1>1, <1>2, <2>2, TypeReturn DEF EmptyList
<1>3. CASE EmptyCheckHeld(i)
  <2>1. s[i].op = "empty" /\ PcOf("keys", s[i].op)
    BY <1>0, <1>3 DEF EmptyCheckHeld, PcTyped, PcOf
  <2> QED
    BY <1>0, <1>1, <1>3, <2>1, Tags, TypeGoto, TypeReturn DEF EmptyCheckHeld
<1>4. CASE ExpireList(i)
  <2>1. s[i].op = "expire" /\ PcOf("keys", s[i].op)
    BY <1>0, <1>4 DEF ExpireList, PcTyped, PcOf
  <2>2. ASSUME s' = [s EXCEPT ![i].pc = "keys", ![i].ids = Expirable]
        PROVE  TypeInv'
    <3>1. "keys" \in PC /\ Expirable \in SUBSET Node
      BY Tags, Lists
    <3>2. /\ SlotsTyped' /\ Others(i) /\ s'[i].pc = "keys" /\ s'[i].ids = Expirable
          /\ s'[i].op = s[i].op /\ s'[i].keys = s[i].keys
      BY <1>0, <2>2, <3>1, ListSlot
    <3>3. PcTyped(i)' /\ SlotTyped(i)'
      BY <1>0, <1>4, <2>1, <3>2 DEF ExpireList, PcTyped, SlotTyped, Targets
    <3> QED
      BY <1>0, <1>1, <3>2, <3>3, TypeStep
  <2> QED
    BY <1>0, <1>1, <1>4, <2>2, TypeReturn DEF ExpireList
<1>5. CASE SweepList(i)
  <2>1. s[i].op = "sweep" /\ PcOf("keys", s[i].op) /\ Stale \in SUBSET Files
        /\ Stale \in SUBSET Node /\ SweepNext(i, Stale)
    BY <1>0, <1>5, Lists DEF SweepList, PcTyped, PcOf, Node
  <2> QED
    BY <1>0, <1>1, <2>1, TypeSweep
<1> QED
  BY <1>2, <1>3, <1>4, <1>5
\* Rows go with their chunk rows and their holds, or nothing goes.
LEMMA DeleteRowsTyped ==
  ASSUME RowsTyped, NEW T, DeleteRows(T),
         UNCHANGED <<parent, stamp, object, client, clock, aged>>
  PROVE  RowsTyped'
<1>1. CASE UNCHANGED <<rows, complete, held, chunk>>
  BY <1>1 DEF RowsTyped
<1>2. CASE rows' = rows \ T /\ complete' = complete \ T /\ held' = held \ T
           /\ chunk' = chunk \ T
  BY <1>2 DEF RowsTyped
<1> QED
  BY <1>1, <1>2 DEF DeleteRows

LEMMA TypeDeletes ==
  ASSUME TypeInv, NEW i \in Slot, ReadKeys(i) \/ DeleteObjects(i) \/ FinishDelete(i)
  PROVE  TypeInv'
<1> USE DEF At
<1>0. /\ faults \in 0..MaxFault /\ RowsTyped /\ SlotTyped(i) /\ SlotsTyped /\ PcTyped(i)
  BY DEF TypeInv
<1>1. CASE ReadKeys(i)
  <2>1. /\ RowsTyped' /\ faults' \in 0..MaxFault
        /\ s[i].op \in {"empty", "expire", "sweep"} /\ PcOf("objects", s[i].op)
    BY <1>0, <1>1, RowsSame, FaultsTyped DEF ReadKeys, Untouched, PcTyped, PcOf
  <2>2. CASE Goto(i, "objects")
    BY <1>1, <2>1, <2>2, Tags, TypeGoto DEF ReadKeys
  <2>3. CASE s' = [s EXCEPT ![i].pc = "objects", ![i].keys = Targets(i) \cap chunk]
    <3>1. PICK K \in SUBSET Files :
            /\ K = Targets(i) \cap chunk
            /\ s' = [s EXCEPT ![i].pc = "objects", ![i].keys = K]
      BY <1>0, <2>3 DEF RowsTyped
    <3>2. /\ SlotsTyped' /\ Others(i) /\ s'[i].pc = "objects" /\ s'[i].keys = K
          /\ s'[i].op = s[i].op /\ s'[i].node = s[i].node /\ s'[i].dest = s[i].dest
          /\ s'[i].ids = s[i].ids
      <4> DEFINE p == "objects"
      <4>1. SlotsTyped /\ p \in PC
        BY <1>0, Tags
      <4>2. s' = [s EXCEPT ![i].pc = p, ![i].keys = K]
        BY <3>1
      <4> HIDE DEF p
      <4>3. /\ SlotsTyped' /\ Others(i) /\ s'[i].pc = p /\ s'[i].keys = K
            /\ s'[i].op = s[i].op /\ s'[i].node = s[i].node /\ s'[i].dest = s[i].dest
            /\ s'[i].ids = s[i].ids
        BY <4>1, <4>2, KeysSlot
      <4> QED
        BY <4>3 DEF p
    <3>3. PcTyped(i)' /\ SlotTyped(i)'
      BY <1>0, <1>1, <2>1, <3>1, <3>2 DEF PcTyped, SlotTyped, Targets, ReadKeys
    <3> QED
      BY <2>1, <3>2, <3>3, TypeStep
  <2> QED
    BY <1>1, <2>2, <2>3 DEF ReadKeys
<1>2. CASE DeleteObjects(i)
  <2>1. RowsTyped' /\ faults' \in 0..MaxFault /\ PcOf("delete", s[i].op)
    BY <1>0, <1>2, FaultsTyped DEF DeleteObjects, RowsTyped, PcTyped, PcOf
  <2> QED
    BY <1>2, <2>1, Tags, TypeGoto DEF DeleteObjects
<1>3. CASE FinishDelete(i)
  <2>1. RowsTyped' /\ faults' = faults
    BY <1>0, <1>3, DeleteRowsTyped DEF FinishDelete
  <2>2. CASE Return(i)
    BY <1>0, <2>1, <2>2, TypeReturn
  <2>3. CASE s[i].op = "sweep" /\ SweepNext(i, s[i].ids \ {s[i].node})
    <3>1. s[i].ids \ {s[i].node} \in SUBSET Files
      BY <1>0, <2>3 DEF SlotTyped
    <3> QED
      BY <1>0, <2>1, <2>3, <3>1, TypeSweep
  <2> QED
    BY <1>3, <2>2, <2>3 DEF FinishDelete
<1> QED
  BY <1>1, <1>2, <1>3

LEMMA TypeMoves ==
  ASSUME TypeInv, NEW i \in Slot,
         MoveReadRow(i) \/ MoveReadDest(i) \/ MoveWalk(i) \/ MoveUpdate(i)
  PROVE  TypeInv'
<1> USE DEF At
<1>0. /\ faults \in 0..MaxFault /\ RowsTyped /\ SlotTyped(i) /\ SlotsTyped
      /\ s[i].op = "move" /\ s[i].dest \in Folders \cup {Root}
  BY DEF TypeInv, PcTyped, PcOf, SlotTyped, MoveReadRow, MoveReadDest, MoveWalk,
         MoveUpdate
<1>1. \A p \in {"mvDest", "mvWalk", "mvUpdate"} : PcOf(p, s[i].op)
  BY <1>0 DEF PcOf
<1>2. RowsTyped' /\ faults' = faults
  <2>1. CASE MoveUpdate(i)
    BY <1>0, <2>1 DEF MoveUpdate, RowsTyped
  <2> QED
    BY <2>1, RowsSame DEF MoveReadRow, MoveReadDest, MoveWalk, Untouched
<1>3. CASE MoveReadRow(i)
  <2>1. CASE Goto(i, "mvDest") /\ s[i].dest # Root
    <3>1. /\ SlotsTyped' /\ Others(i) /\ s'[i].pc = "mvDest"
          /\ s'[i].op = s[i].op /\ s'[i].node = s[i].node /\ s'[i].dest = s[i].dest
          /\ s'[i].ids = s[i].ids /\ s'[i].keys = s[i].keys
      BY <1>0, <2>1, Tags, GotoSlot
    <3>2. PcTyped(i)' /\ SlotTyped(i)'
      BY <1>0, <1>1, <2>1, <3>1 DEF PcTyped, SlotTyped, Targets
    <3> QED
      BY <1>0, <1>2, <3>1, <3>2, TypeStep
  <2> QED
    BY <1>0, <1>1, <1>2, <1>3, <2>1, Tags, TypeGoto, TypeReturn DEF MoveReadRow
<1>4. CASE MoveReadDest(i)
  <2>1. CASE Return(i)
    BY <1>0, <1>2, <2>1, TypeReturn
  <2>2. CASE ~Return(i)
    <3>1. PICK p \in {"mvWalk", "mvUpdate"}, S \in SUBSET Node :
            s' = [s EXCEPT ![i].pc = p, ![i].ids = S]
      <4>1. s[i].dest \in Folders /\ {s[i].dest} \in SUBSET Node
        BY <1>0, <1>4 DEF MoveReadDest, SlotTyped, Node
      <4> QED
        BY <1>4, <2>2, <4>1 DEF MoveReadDest
    <3>2. /\ SlotsTyped' /\ Others(i) /\ s'[i].pc = p
          /\ s'[i].op = s[i].op /\ s'[i].node = s[i].node /\ s'[i].dest = s[i].dest
          /\ s'[i].keys = s[i].keys /\ s'[i].ids = S
      <4>1. p \in PC
        BY Tags
      <4> QED
        BY <1>0, <3>1, <4>1, ListSlot
    <3>3. PcTyped(i)' /\ SlotTyped(i)'
      <4>1. s[i].keys = {} /\ s[i].dest \in Folders /\ s[i].node \in Node
        BY <1>0, <1>4 DEF MoveReadDest, SlotTyped
      <4>2. PcTyped(i)'
        BY <1>1, <3>2 DEF PcTyped
      <4> QED
        BY <1>0, <3>2, <4>1, <4>2 DEF SlotTyped
    <3> QED
      BY <1>0, <1>2, <3>2, <3>3, TypeStep
  <2> QED
    BY <2>1, <2>2
<1>5. CASE MoveWalk(i)
  <2>1. CASE Return(i)
    BY <1>0, <1>2, <2>1, TypeReturn
  <2>2. CASE ~Return(i)
    <3>1. \/ s' = [s EXCEPT ![i].pc = "mvUpdate", ![i].ids = {}]
          \/ \E S \in SUBSET Node : s' = [s EXCEPT ![i].ids = S]
      <4>1. PICK m \in s[i].ids :
              IF m \notin rows \/ parent[m] = Root
                THEN s' = [s EXCEPT ![i].pc = "mvUpdate", ![i].ids = {}]
                ELSE s' = [s EXCEPT ![i].ids = {parent[m]}]
        BY <1>5, <2>2 DEF MoveWalk
      <4>2. m \in rows /\ parent[m] # Root => {parent[m]} \in SUBSET Node
        BY <1>0 DEF RowsTyped, Node
      <4> QED
        BY <4>1, <4>2
    <3>2. /\ SlotsTyped' /\ Others(i) /\ s'[i].pc \in {"mvUpdate", "mvWalk"}
          /\ s'[i].op = s[i].op /\ s'[i].node = s[i].node /\ s'[i].dest = s[i].dest
          /\ s'[i].keys = s[i].keys
      <4>1. "mvUpdate" \in PC /\ {} \in SUBSET Node /\ s[i].pc = "mvWalk"
        BY <1>5, Tags DEF MoveWalk
      <4>2. CASE s' = [s EXCEPT ![i].pc = "mvUpdate", ![i].ids = {}]
        BY <1>0, <4>1, <4>2, ListSlot
      <4>3. CASE \E S \in SUBSET Node : s' = [s EXCEPT ![i].ids = S]
        BY <1>0, <4>1, <4>3, LevelSlot
      <4> QED
        BY <3>1, <4>2, <4>3
    <3>3. PcTyped(i)' /\ SlotTyped(i)'
      <4>1. s[i].keys = {} /\ s[i].dest \in Folders /\ s[i].node \in Node
        BY <1>0, <1>5 DEF MoveWalk, SlotTyped
      <4>2. PcTyped(i)'
        BY <1>1, <3>2 DEF PcTyped
      <4> QED
        BY <1>0, <3>2, <4>1, <4>2 DEF SlotTyped
    <3> QED
      BY <1>0, <1>2, <3>2, <3>3, TypeStep
  <2> QED
    BY <2>1, <2>2
<1>6. CASE MoveUpdate(i)
  BY <1>0, <1>2, <1>6, TypeReturn DEF MoveUpdate
<1> QED
  BY <1>3, <1>4, <1>5, <1>6

LEMMA TypeHandler ==
  ASSUME TypeInv, NEW i \in Slot, Handler(i)
  PROVE  TypeInv'
BY TypeCreates, TypeFinalizes, TypeTrashes, TypePurges, TypeLists, TypeDeletes,
   TypeMoves DEF Handler

\* The client, trust and safety, and time.
Outside ==
  \/ \E n \in Node : PutObject(n) \/ Abandon(n) \/ SetHold(n)
  \/ Age

LEMMA TypeOutside ==
  ASSUME TypeInv, Outside
  PROVE  TypeInv'
<1>1. s' = s /\ faults' = faults
  BY DEF Outside, PutObject, Abandon, SetHold, Age
<1>2. RowsTyped'
  <2>1. ASSUME NEW n \in Node, PutObject(n)
        PROVE  RowsTyped'
    BY <2>1 DEF PutObject, TypeInv, RowsTyped
  <2>2. ASSUME NEW n \in Node, Abandon(n)
        PROVE  RowsTyped'
    BY <2>2 DEF Abandon, TypeInv, RowsTyped
  <2>3. ASSUME NEW n \in Node, SetHold(n)
        PROVE  RowsTyped'
    BY <2>3 DEF SetHold, TypeInv, RowsTyped
  <2>4. CASE Age
    <3>1. clock \in Nat
      BY BoundAssumption DEF TypeInv, RowsTyped
    <3> QED
      BY <2>4, <3>1 DEF Age, TypeInv, RowsTyped
  <2> QED
    BY <2>1, <2>2, <2>3, <2>4 DEF Outside
<1> QED
  BY <1>1, <1>2 DEF TypeInv, SlotsTyped, PcTyped, SlotTyped, Targets

LEMMA TypeCrash ==
  ASSUME TypeInv, NEW i \in Slot, Crash(i)
  PROVE  TypeInv'
<1>1. RowsTyped' /\ faults' \in 0..MaxFault
  BY RowsSame, FaultsTyped DEF TypeInv, Crash, Untouched
<1> QED
  BY <1>1, TypeReturn DEF Crash

\* What a step is.
LEMMA StepCases ==
  ASSUME [Next]_vars
  PROVE  \/ \E i \in Slot : Handler(i) \/ Crash(i) \/ (At(i, "idle") /\ Begin(i))
         \/ Outside \/ UNCHANGED vars
BY DEF Next, Outside

LEMMA TypeNext == TypeInv /\ [Next]_vars => TypeInv'
<1> SUFFICES ASSUME TypeInv, [Next]_vars PROVE TypeInv'
  OBVIOUS
<1>1. CASE UNCHANGED vars
  BY <1>1 DEF vars, TypeInv, RowsTyped, SlotsTyped, PcTyped, SlotTyped, Targets
<1> QED
  BY <1>1, StepCases, TypeHandler, TypeCrash, TypeBegin, TypeOutside

LEMMA TypeHolds == Spec => []TypeInv
<1>1. Init => TypeInv
  BY TypeInit
<1>2. TypeInv /\ [Next]_vars => TypeInv'
  BY TypeNext
<1> QED
  BY <1>1, <1>2, PTL DEF Spec

\* The state keeps its types: a hold is on a row that is complete, a chunk row is of
\* a file with a row, and no time stamp lies in the future.
THEOREM TypeCorrect == Spec => []TypeOK
<1>1. TypeInv => TypeOK
  <2> SUFFICES ASSUME TypeInv PROVE TypeOK
    OBVIOUS
  <2>1. clock \in 0..MaxTrash /\ MaxTrash \in Nat /\ stamp \in [Node -> 0..clock]
    BY BoundAssumption DEF TypeInv, RowsTyped
  <2>2. stamp \in [Node -> 0..MaxTrash] /\ parent \in [Node -> Node \cup {Root}]
    BY <2>1 DEF TypeInv, RowsTyped, Node
  <2> QED
    BY <2>2 DEF TypeInv, RowsTyped, SlotsTyped, SlotType, TypeOK
<1> QED
  BY <1>1, TypeHolds, PTL
-----------------------------------------------------------------------------
(* The life of a node: it gets one row, from one request, once. And what   *)
(* MayRun promises: two requests that are kept apart do not overlap.       *)

Fresh(n) == n \notin rows /\ stamp[n] = Live

Building(i) == s[i].op \in {"create", "finalize"}

\* A node nobody will create from now on.
Born(n) == client[n] # "none" /\ \A j \in Slot : s[j].op = "create" => s[j].node # n

BirthData ==
  /\ \A n \in Node : client[n] = "none" => Fresh(n)
  /\ \A n \in Node : client[n] = "open" => n \notin complete \cup chunk
  /\ \A n \in rows : parent[n] \in rows \cup {Root}

BirthSlot(i) ==
  /\ Building(i) => client[s[i].node] = "done"
  /\ s[i].op = "create" => Fresh(s[i].node)
  /\ s[i].op = "finalize" => s[i].node \notin complete
  /\ s[i].op = "purge" => /\ Born(s[i].node)
                          /\ s[i].node \in rows => s[i].node \in complete

OneBuilds ==
  \A i, j \in Slot : i # j /\ Building(i) /\ Building(j) => s[i].node # s[j].node

KeptApart ==
  \A i, j \in Slot :
    i # j => s[i].op = "none" \/ s[j].op = "none" \/ {s[i].op, s[j].op} \notin Apart

BirthInv ==
  /\ BirthData /\ OneBuilds /\ KeptApart
  /\ \A i \in Slot : BirthSlot(i)

LEMMA BirthInit == Init => BirthInv
<1> SUFFICES ASSUME Init PROVE BirthInv
  OBVIOUS
<1>1. \A i \in Slot : s[i].op = "none"
  BY DEF Init, Idle
<1>2. BirthData
  BY NodeAssumption DEF Init, BirthData, Fresh
<1> QED
  BY <1>1, <1>2 DEF BirthInv, OneBuilds, KeptApart, BirthSlot, Building

\* What a step of the request in slot i leaves as it is of every node but the one
\* it builds, if it is done with that.
KeepsLives(i) ==
  /\ \A n \in Node : client'[n] = "none" => client[n] = "none"
  /\ \A n \in Node :
       (Building(i) /\ s'[i].op = "none" => n # s[i].node)
         => /\ client[n] = "done" => client'[n] = "done"
            /\ Fresh(n) => Fresh(n)'
            /\ n \notin complete => n \notin complete'
  /\ \A n \in rows' : n \in rows \/ (s[i].op = "create" /\ n = s[i].node)
  /\ complete \cap rows' \subseteq complete'

LEMMA BirthStep ==
  ASSUME TypeInv, BirthInv, NEW i \in Slot, Others(i), BirthData', KeepsLives(i),
         \/ s'[i].op = "none"
         \/ /\ s'[i].op = s[i].op
            /\ s'[i].node = s[i].node \/ s[i].op \in {"sweep", "empty", "expire"}
  PROVE  BirthInv'
<1>1. OneBuilds'
  <2> SUFFICES ASSUME NEW a \in Slot, NEW b \in Slot, a # b, Building(a)', Building(b)'
               PROVE  s'[a].node # s'[b].node
    BY DEF OneBuilds
  <2>1. \A j \in {a, b} : Building(j) /\ s'[j].node = s[j].node
    BY DEF Building, Others
  <2> QED
    BY <2>1 DEF BirthInv, OneBuilds
<1>2. KeptApart'
  <2> SUFFICES ASSUME NEW a \in Slot, NEW b \in Slot, a # b
               PROVE  \/ s'[a].op = "none" \/ s'[b].op = "none"
                      \/ {s'[a].op, s'[b].op} \notin Apart
    BY DEF KeptApart
  <2>1. \A j \in {a, b} : s'[j].op = "none" \/ s'[j].op = s[j].op
    BY DEF Others
  <2> QED
    BY <2>1 DEF BirthInv, KeptApart
<1>3. ASSUME NEW j \in Slot
      PROVE  BirthSlot(j)'
  <2>1. /\ s'[j].op = "none" \/ s'[j].op = s[j].op
        /\ s'[j].op \in {"create", "finalize", "purge"} => s'[j].node = s[j].node
    BY DEF Others
  <2>2. BirthSlot(j) /\ SlotTyped(j)
    BY DEF BirthInv, TypeInv
  <2>3. Files \subseteq Node
    BY DEF Node
  <2>4. PICK n : n = s[j].node
    OBVIOUS
  <2>5. ASSUME Building(j)'
        PROVE  /\ s'[j].node = n /\ client'[n] = "done"
               /\ s[j].op = "create" => Fresh(n)'
               /\ s[j].op = "finalize" => n \notin complete'
    <3>1. Building(j) /\ n \in Node /\ client[n] = "done" /\ s'[j].node = n
      BY <2>1, <2>2, <2>3, <2>4, <2>5 DEF Building, SlotTyped, BirthSlot
    <3>2. Building(i) /\ s'[i].op = "none" => n # s[i].node
      BY <2>4, <2>5, <3>1 DEF Building, BirthInv, OneBuilds
    <3>3. (s[j].op = "create" => Fresh(n)) /\ (s[j].op = "finalize" => n \notin complete)
      BY <2>2, <2>4 DEF BirthSlot
    <3> QED
      BY <3>1, <3>2, <3>3 DEF KeepsLives
  <2>6. ASSUME s'[j].op = "purge"
        PROVE  /\ s'[j].node = n /\ Born(n)'
               /\ n \in rows' => n \in complete'
    <3>1. /\ s[j].op = "purge" /\ n \in Node /\ Born(n) /\ s'[j].node = n
          /\ n \in rows => n \in complete
      BY <2>1, <2>2, <2>4, <2>6 DEF SlotTyped, BirthSlot
    <3>2. client'[n] # "none"
      BY <3>1 DEF KeepsLives, Born
    <3>3. \A k \in Slot : s'[k].op = "create" => s[k].op = "create" /\ s'[k].node = s[k].node
      BY DEF Others
    <3>4. Born(n)'
      BY <3>1, <3>2, <3>3 DEF Born
    <3>5. n \in rows' => n \in rows
      BY <3>1 DEF KeepsLives, Born
    <3> QED
      BY <3>1, <3>4, <3>5 DEF KeepsLives
  <2>7. s'[j].node = n => (Fresh(s[j].node)' <=> Fresh(n)') /\ (Born(s[j].node)' <=> Born(n)')
    BY DEF Fresh, Born
  <2> QED
    BY <2>1, <2>5, <2>6, <2>7 DEF BirthSlot, Building
<1> QED
  BY <1>1, <1>2, <1>3 DEF BirthInv
\* A row, complete or not, was created by a request that is done with it.
LEMMA RowsAreBorn ==
  ASSUME BirthInv, NEW n \in Node, n \in rows \/ stamp[n] # Live
  PROVE  Born(n)
BY DEF BirthInv, BirthData, BirthSlot, Fresh, Born

LEMMA BirthStart ==
  ASSUME TypeInv, BirthInv, NEW i \in Slot, NEW op \in Op \ {"none"}, NEW p \in PC,
         NEW n \in Node \cup {Root}, NEW d \in Node \cup {Root},
         Start(i, op, p, n, d), UNCHANGED <<rows, parent, stamp, complete, chunk>>,
         IF op \in {"create", "finalize"}
           THEN /\ n \in Node /\ client' = [client EXCEPT ![n] = "done"]
                /\ client[n] = IF op = "create" THEN "none" ELSE "open"
           ELSE client' = client,
         op = "purge" => n \in complete
  PROVE  BirthInv'
<1>1. /\ Others(i) /\ s'[i].op = op /\ s'[i].node = n /\ MayRun(op)
      /\ s[i].op = "none"
  <2>1. SlotsTyped /\ PcTyped(i)
    BY DEF TypeInv
  <2>2. Others(i) /\ s'[i].op = op /\ s'[i].node = n /\ MayRun(op) /\ s[i].pc = "idle"
    BY <2>1, StartSlot
  <2> QED
    BY <2>1, <2>2 DEF PcTyped, PcOf
<1>2. \A m \in Node : client'[m] = client[m] \/ (m = n /\ client'[m] = "done")
  BY DEF TypeInv, RowsTyped
<1>3. \A m \in Node : Fresh(m)' <=> Fresh(m)
  BY DEF Fresh
<1>4. BirthData'
  <2>1. rows \subseteq Node
    BY DEF TypeInv, RowsTyped
  <2> QED
    BY <1>2, <1>3, <2>1 DEF BirthInv, BirthData
<1>5. OneBuilds'
  <2> SUFFICES ASSUME NEW a \in Slot, NEW b \in Slot, a # b, Building(a)', Building(b)'
               PROVE  s'[a].node # s'[b].node
    BY DEF OneBuilds
  <2>1. \A j \in Slot \ {i} : s'[j] = s[j]
    BY <1>1 DEF Others
  <2>2. \A j \in Slot \ {i} : Building(j)' => Building(j) /\ client[s[j].node] = "done"
    BY <2>1 DEF BirthInv, BirthSlot, Building
  <2>3. Building(i)' => client[n] # "done"
    BY <1>1 DEF Building
  <2>4. CASE a = i \/ b = i
    BY <1>1, <2>1, <2>2, <2>3, <2>4
  <2>5. CASE a # i /\ b # i
    BY <2>1, <2>2, <2>5 DEF BirthInv, OneBuilds
  <2> QED
    BY <2>4, <2>5
<1>6. KeptApart'
  <2> SUFFICES ASSUME NEW a \in Slot, NEW b \in Slot, a # b
               PROVE  \/ s'[a].op = "none" \/ s'[b].op = "none"
                      \/ {s'[a].op, s'[b].op} \notin Apart
    BY DEF KeptApart
  <2>1. \A j \in Slot \ {i} : s'[j] = s[j] /\ (s[j].op = "none" \/ {op, s[j].op} \notin Apart)
    BY <1>1 DEF Others, MayRun
  <2>2. \A x : {op, x} = {x, op}
    OBVIOUS
  <2>3. CASE a = i
    BY <1>1, <2>1, <2>3
  <2>4. CASE b = i
    BY <1>1, <2>1, <2>2, <2>4
  <2>5. CASE a # i /\ b # i
    <3>1. s[a].op = "none" \/ s[b].op = "none" \/ {s[a].op, s[b].op} \notin Apart
      BY DEF BirthInv, KeptApart
    <3>2. s'[a] = s[a] /\ s'[b] = s[b]
      BY <2>1, <2>5
    <3> QED
      BY <3>1, <3>2
  <2> QED
    BY <2>3, <2>4, <2>5
<1>7. ASSUME NEW j \in Slot
      PROVE  BirthSlot(j)'
  <2>1. CASE j = i
    <3>1. op = "create" => Fresh(n)' /\ client'[n] = "done"
      BY <1>3 DEF BirthInv, BirthData, TypeInv, RowsTyped
    <3>2. op = "finalize" => n \notin complete' /\ client'[n] = "done"
      BY DEF BirthInv, BirthData, TypeInv, RowsTyped
    <3>3. op = "purge" => n \in complete' /\ Born(n)'
      <4> SUFFICES ASSUME op = "purge" PROVE n \in complete' /\ Born(n)'
        OBVIOUS
      <4>1. n \in rows /\ n \in Node
        BY DEF TypeInv, RowsTyped
      <4>2. Born(n) /\ client' = client
        BY <4>1, RowsAreBorn
      <4> QED
        BY <1>1, <4>2 DEF Born, Others
    <3>4. /\ Fresh(s[i].node)' <=> Fresh(n)'
          /\ Born(s[i].node)' <=> Born(n)'
      BY <1>1 DEF Fresh, Born
    <3> QED
      BY <1>1, <2>1, <3>1, <3>2, <3>3, <3>4 DEF BirthSlot, Building
  <2>2. CASE j # i
    <3>1. s'[j] = s[j] /\ BirthSlot(j) /\ SlotTyped(j)
      BY <1>1, <2>2 DEF Others, BirthInv, TypeInv
    <3>2. PICK m : m = s[j].node
      OBVIOUS
    <3>3. s[j].op \in {"create", "finalize", "purge"} => m \in Node
      BY <3>1, <3>2 DEF SlotTyped, Node
    <3>4. ASSUME s[j].op = "purge"
          PROVE  Born(m)'
      <4>1. Born(m) /\ m \in Node
        BY <3>1, <3>2, <3>3, <3>4 DEF BirthSlot
      <4>2. op = "create" => m # n
        BY <4>1 DEF Born
      <4>3. client'[m] # "none"
        BY <1>2, <4>1 DEF Born
      <4> QED
        BY <1>1, <4>1, <4>2, <4>3 DEF Born, Others
    <3>5. Building(j) => client'[m] = "done"
      BY <1>2, <3>1, <3>2, <3>3 DEF BirthSlot, Building
    <3>6. s[j].op = "create" => Fresh(m)'
      BY <1>3, <3>1, <3>2, <3>3 DEF BirthSlot
    <3>7. /\ Fresh(s[j].node)' <=> Fresh(m)'
          /\ Born(s[j].node)' <=> Born(m)'
      BY <3>1, <3>2 DEF Fresh, Born
    <3> QED
      BY <3>1, <3>2, <3>4, <3>5, <3>6, <3>7 DEF BirthSlot, Building
  <2> QED
    BY <2>1, <2>2
<1> QED
  BY <1>4, <1>5, <1>6, <1>7 DEF BirthInv

LEMMA BirthBegin ==
  ASSUME TypeInv, BirthInv, NEW i \in Slot, Begin(i)
  PROVE  BirthInv'
<1>0. /\ \A n \in Node : n \in Node \cup {Root}
      /\ Root \in Node \cup {Root} /\ Files \subseteq Node
  BY DEF Node
<1>1. CASE StartEmpty(i)
  BY <1>0, <1>1, Tags, BirthStart DEF StartEmpty
<1>2. CASE StartExpire(i)
  BY <1>0, <1>2, Tags, BirthStart DEF StartExpire
<1>3. CASE StartSweep(i)
  BY <1>0, <1>3, Tags, BirthStart DEF StartSweep
<1>4. CASE \E n \in Files : StartFinalize(i, n)
  BY <1>0, <1>4, Tags, BirthStart DEF StartFinalize
<1>5. CASE \E n \in TopOfTrash : StartRestore(i, n) \/ StartPurge(i, n)
  <2>1. PICK n \in TopOfTrash : StartRestore(i, n) \/ StartPurge(i, n)
    BY <1>5
  <2>2. n \in Node /\ n \in complete
    BY ShownSets
  <2>3. CASE StartRestore(i, n)
    BY <1>0, <2>2, <2>3, Tags, BirthStart DEF StartRestore
  <2>4. CASE StartPurge(i, n)
    BY <1>0, <2>2, <2>4, Tags, BirthStart DEF StartPurge
  <2> QED
    BY <2>1, <2>3, <2>4
<1>6. CASE \E n \in Shown : StartTrash(i, n)
  BY <1>0, <1>6, ShownSets, Tags, BirthStart DEF StartTrash
<1>7. CASE \E n \in Node, d \in Place : StartCreate(i, n, d)
  <2>1. PICK n \in Node, d \in Place : StartCreate(i, n, d)
    BY <1>7
  <2>2. d \in Node \cup {Root}
    BY ShownSets DEF Node
  <2>3. PICK p \in {"crInsert", "crParent"} : Start(i, "create", p, n, d)
    BY <2>1 DEF StartCreate
  <2> QED
    BY <1>0, <2>1, <2>2, <2>3, Tags, BirthStart DEF StartCreate
<1>8. CASE \E n \in Shown, d \in Place : StartMove(i, n, d)
  <2>1. PICK n \in Shown, d \in Place : StartMove(i, n, d)
    BY <1>8
  <2>2. n \in Node /\ d \in Node \cup {Root}
    BY ShownSets DEF Node
  <2> QED
    BY <1>0, <2>1, <2>2, Tags, BirthStart DEF StartMove
<1> QED
  BY <1>1, <1>2, <1>3, <1>4, <1>5, <1>6, <1>7, <1>8 DEF Begin

\* How a handler leaves its slot: it answered, or it goes on, with the node it works
\* on unless that is a list.
Proceeds(i) ==
  /\ SlotsTyped' /\ Others(i)
  /\ \/ s'[i].pc = "idle" /\ s'[i].op = "none" /\ s'[i].ids = {} /\ s'[i].keys = {}
     \/ /\ s'[i].op = s[i].op
        /\ \/ s'[i].node = s[i].node /\ s'[i].dest = s[i].dest
           \/ s[i].op \in {"sweep", "empty", "expire"}

LEMMA ProceedsGoto ==
  ASSUME SlotsTyped, NEW i \in Slot, NEW p \in PC, Goto(i, p)
  PROVE  Proceeds(i)
BY GotoSlot DEF Proceeds

LEMMA ProceedsReturn ==
  ASSUME SlotsTyped, NEW i \in Slot, Return(i)
  PROVE  Proceeds(i)
BY ReturnSlot DEF Proceeds

LEMMA HandlerBusy ==
  ASSUME TypeInv, NEW i \in Slot, Handler(i) \/ Crash(i)
  PROVE  s[i].op # "none"
<1>1. PcTyped(i)
  BY DEF TypeInv
<1> QED
  BY <1>1 DEF At, Handler, Crash, PcTyped, PcOf, CreateCheckParent, CreateInsert,
     FinalizeReadRow, FinalizeMeasure, FinalizeInsertChunks, FinalizeFlip,
     TrashCheckHold, TrashMark, RestoreReadRow, RestoreMark, PurgeReadRow,
     PurgeReadKeys, PurgeCheckHeld, EmptyList, EmptyCheckHeld, ExpireList, SweepList,
     ReadKeys, DeleteObjects, FinishDelete, MoveReadRow, MoveReadDest, MoveWalk,
     MoveUpdate

LEMMA HandlerProceeds ==
  ASSUME TypeInv, NEW i \in Slot, Handler(i) \/ Crash(i)
  PROVE  Proceeds(i)
<1> USE DEF At
<1>0. SlotsTyped /\ SlotTyped(i) /\ PcTyped(i) /\ RowsTyped
  BY DEF TypeInv
<1>2. ASSUME \/ Return(i)
             \/ \E p \in {"crInsert", "fnMeasure", "fnChunks", "fnFlip", "trMark",
                          "rsMark", "puKeys", "objects", "keys", "delete", "mvDest",
                          "mvUpdate"} : Goto(i, p)
      PROVE  Proceeds(i)
  BY <1>0, <1>2, Tags, ProceedsGoto, ProceedsReturn
<1>3. ASSUME \/ CreateCheckParent(i) \/ CreateInsert(i)
             \/ FinalizeReadRow(i) \/ FinalizeMeasure(i) \/ FinalizeInsertChunks(i)
             \/ FinalizeFlip(i) \/ TrashCheckHold(i) \/ TrashMark(i)
             \/ RestoreReadRow(i) \/ RestoreMark(i)
             \/ PurgeReadRow(i) \/ PurgeCheckHeld(i) \/ EmptyCheckHeld(i)
             \/ DeleteObjects(i) \/ MoveReadRow(i) \/ MoveUpdate(i) \/ Crash(i)
      PROVE  Proceeds(i)
  BY <1>2, <1>3 DEF CreateCheckParent, CreateInsert,
     FinalizeReadRow, FinalizeMeasure, FinalizeInsertChunks, FinalizeFlip,
     TrashCheckHold, TrashMark, RestoreReadRow, RestoreMark, PurgeReadRow,
     PurgeCheckHeld, EmptyCheckHeld, DeleteObjects, MoveReadRow, MoveUpdate, Crash
<1>4. CASE PurgeReadKeys(i)
  <2>1. s[i].node \in Node /\ chunk \subseteq Files
    BY <1>0, <1>4 DEF PurgeReadKeys, PcTyped, PcOf, SlotTyped, RowsTyped
  <2> QED
    BY <1>0, <1>4, <2>1, PurgeSlot DEF Proceeds
<1>5. ASSUME NEW p \in PC, NEW S \in SUBSET Node, s' = [s EXCEPT ![i].pc = p, ![i].ids = S]
      PROVE  Proceeds(i)
  BY <1>0, <1>5, ListSlot DEF Proceeds
<1>6. CASE EmptyList(i) \/ ExpireList(i)
  <2>1. "emHeld" \in PC /\ "keys" \in PC
    BY Tags
  <2>2. Trashed \in SUBSET Node /\ Expirable \in SUBSET Node
    BY Lists
  <2>3. CASE Return(i)
    BY <1>2, <2>3
  <2>4. CASE s' = [s EXCEPT ![i].pc = "emHeld", ![i].ids = Trashed]
    BY <1>5, <2>1, <2>2, <2>4
  <2>5. CASE s' = [s EXCEPT ![i].pc = "keys", ![i].ids = Expirable]
    BY <1>5, <2>1, <2>2, <2>5
  <2> QED
    BY <1>6, <2>3, <2>4, <2>5 DEF EmptyList, ExpireList
<1>7. ASSUME NEW S \in SUBSET Node, SweepNext(i, S), s[i].op = "sweep"
      PROVE  Proceeds(i)
  BY <1>0, <1>7, SweepSlot DEF Proceeds
<1>8. CASE SweepList(i)
  <2>1. Stale \in SUBSET Node /\ s[i].op = "sweep" /\ SweepNext(i, Stale)
    BY <1>0, <1>8, Lists DEF SweepList, PcTyped, PcOf, Node
  <2> QED
    BY <1>7, <2>1
<1>9. CASE FinishDelete(i)
  <2>1. s[i].ids \ {s[i].node} \in SUBSET Node
    BY <1>0 DEF SlotsTyped, SlotType
  <2> QED
    BY <1>2, <1>7, <1>9, <2>1 DEF FinishDelete
<1>10. CASE ReadKeys(i)
  <2>1. CASE Goto(i, "objects")
    BY <1>2, <2>1
  <2>2. CASE s' = [s EXCEPT ![i].pc = "objects", ![i].keys = Targets(i) \cap chunk]
    <3>1. "objects" \in PC
      BY Tags
    <3>2. PICK K : K = Targets(i) \cap chunk
      OBVIOUS
    <3>3. K \in SUBSET Files /\ s' = [s EXCEPT ![i].pc = "objects", ![i].keys = K]
      BY <1>0, <2>2, <3>2 DEF RowsTyped
    <3> QED
      BY <1>0, <3>1, <3>3, KeysSlot DEF Proceeds
  <2> QED
    BY <1>10, <2>1, <2>2 DEF ReadKeys
<1>11. CASE MoveReadDest(i)
  <2>1. CASE Return(i)
    BY <1>2, <2>1
  <2>2. CASE ~Return(i)
    <3>1. s[i].dest \in Folders /\ {s[i].dest} \in SUBSET Node
      BY <1>0, <1>11 DEF MoveReadDest, SlotTyped, Node
    <3>2. PICK p \in {"mvWalk", "mvUpdate"} :
            s' = [s EXCEPT ![i].pc = p, ![i].ids = {s[i].dest}]
      BY <1>11, <2>2 DEF MoveReadDest
    <3>3. p \in PC
      BY Tags
    <3> QED
      BY <1>5, <3>1, <3>2, <3>3
  <2> QED
    BY <2>1, <2>2
<1>12. CASE MoveWalk(i)
  <2>1. CASE Return(i)
    BY <1>2, <2>1
  <2>2. CASE ~Return(i)
    <3>1. PICK m \in s[i].ids :
            IF m \notin rows \/ parent[m] = Root
              THEN s' = [s EXCEPT ![i].pc = "mvUpdate", ![i].ids = {}]
              ELSE s' = [s EXCEPT ![i].ids = {parent[m]}]
      BY <1>12, <2>2 DEF MoveWalk
    <3>2. CASE s' = [s EXCEPT ![i].pc = "mvUpdate", ![i].ids = {}]
      <4>1. "mvUpdate" \in PC /\ {} \in SUBSET Node
        BY Tags
      <4> QED
        BY <1>5, <3>2, <4>1
    <3>3. CASE m \in rows /\ parent[m] # Root /\ s' = [s EXCEPT ![i].ids = {parent[m]}]
      <4>1. {parent[m]} \in SUBSET Node
        BY <1>0, <3>3 DEF RowsTyped, Node
      <4> QED
        BY <1>0, <3>3, <4>1, LevelSlot DEF Proceeds
    <3> QED
      BY <3>1, <3>2, <3>3
  <2> QED
    BY <2>1, <2>2
<1> QED
  BY <1>3, <1>4, <1>6, <1>8, <1>9, <1>10, <1>11, <1>12 DEF Handler
\* The steps that change a table other than that of the objects.
TablesSame == UNCHANGED <<rows, parent, stamp, complete, held, chunk, client, clock, aged>>

LEMMA HandlerEffects ==
  ASSUME NEW i \in Slot, Handler(i) \/ Crash(i)
  PROVE  \/ TablesSame
         \/ CreateInsert(i) \/ FinalizeInsertChunks(i) \/ FinalizeFlip(i)
         \/ TrashMark(i) \/ RestoreMark(i) \/ FinishDelete(i) \/ MoveUpdate(i)
BY DEF TablesSame, Handler, Crash, CreateCheckParent, FinalizeReadRow, FinalizeMeasure,
   TrashCheckHold, RestoreReadRow, PurgeReadRow, PurgeReadKeys, PurgeCheckHeld,
   EmptyList, EmptyCheckHeld, ExpireList, SweepList, ReadKeys, DeleteObjects,
   MoveReadRow, MoveReadDest, MoveWalk

LEMMA MarkedSets ==
  ASSUME NEW n
  PROVE  /\ TrashSet(n) \subseteq {m \in rows : stamp[m] = Live}
         /\ RestoreSet(n) \subseteq {m \in rows : stamp[m] # Live /\ stamp[m] = stamp[n]}
<1>1. TrashSet(n) \subseteq rows \ Trashed
  BY BelowIs, BelowSelf DEF TrashSet
<1>2. RestoreSet(n) \subseteq {m \in Trashed : stamp[m] = stamp[n]}
  BY BelowIs, BelowSelf DEF RestoreSet
<1> QED
  BY <1>1, <1>2 DEF Trashed

LEMMA BirthTables ==
  ASSUME TypeInv, BirthInv, NEW i \in Slot, Handler(i) \/ Crash(i)
  PROVE  BirthData' /\ KeepsLives(i)
<1> USE DEF At
<1>0. SlotTyped(i) /\ PcTyped(i) /\ RowsTyped /\ BirthData /\ BirthSlot(i)
  BY DEF TypeInv, BirthInv
<1>1. CASE TablesSame
  BY <1>0, <1>1 DEF TablesSame, BirthData, Fresh, KeepsLives, RowsTyped
<1>2. CASE CreateInsert(i)
  <2>1. PICK n : n = s[i].node
    OBVIOUS
  <2>2. /\ s[i].op = "create" /\ n \in Node /\ Fresh(n) /\ client[n] = "done"
        /\ s[i].dest \in Folders \cup {Root} /\ s'[i].op = "none"
    BY <1>0, <1>2, <2>1, ReturnSlot DEF CreateInsert, PcTyped, PcOf, SlotTyped, BirthSlot,
       Building, TypeInv
  <2>3. CASE UNCHANGED <<rows, parent, complete, client>>
    BY <1>0, <1>2, <2>3 DEF CreateInsert, BirthData, Fresh, KeepsLives, RowsTyped
  <2>4. CASE ~UNCHANGED <<rows, parent, complete, client>>
    <3>1. /\ s[i].dest \in rows \cup {Root} /\ rows' = rows \cup {n}
          /\ parent' = [parent EXCEPT ![n] = s[i].dest]
          /\ complete' = IF n \in Folders THEN complete \cup {n} ELSE complete
          /\ client' = IF n \in Files THEN [client EXCEPT ![n] = "open"] ELSE client
          /\ stamp' = stamp /\ chunk' = chunk
      BY <1>2, <2>1, <2>4 DEF CreateInsert
    <3>2. n \in Files => n \notin complete' \cup chunk'
      BY <1>0, <2>2, <3>1, NodeAssumption DEF RowsTyped, Fresh
    <3>3. \A m \in Node : m # n => client'[m] = client[m]
      BY <1>0, <3>1 DEF RowsTyped
    <3>4. client'[n] \in {"open", "done"} /\ (n \notin Files => client'[n] = "done")
      BY <1>0, <2>2, <3>1 DEF RowsTyped
    <3>5. \A m \in Node : m # n => (Fresh(m)' <=> Fresh(m)) /\ (m \in complete' <=> m \in complete)
      BY <3>1 DEF Fresh
    <3>6. BirthData'
      <4>1. \A m \in Node : client'[m] = "none" => Fresh(m)'
        BY <1>0, <3>3, <3>4, <3>5 DEF BirthData
      <4>2. \A m \in Node : client'[m] = "open" => m \notin complete' \cup chunk'
        BY <1>0, <3>1, <3>2, <3>3, <3>4, <3>5 DEF BirthData
      <4>3. \A m \in rows' : parent'[m] \in rows' \cup {Root}
        BY <1>0, <2>2, <3>1 DEF BirthData, RowsTyped
      <4> QED
        BY <4>1, <4>2, <4>3 DEF BirthData
    <3>7. KeepsLives(i)
      <4>1. Building(i)
        BY <2>2 DEF Building
      <4> QED
        BY <1>0, <2>1, <2>2, <3>1, <3>3, <3>4, <3>5, <4>1 DEF KeepsLives, RowsTyped
    <3> QED
      BY <3>6, <3>7
  <2> QED
    BY <2>3, <2>4
<1>3. CASE FinalizeInsertChunks(i)
  <2>1. client[s[i].node] = "done"
    BY <1>0, <1>3 DEF FinalizeInsertChunks, PcTyped, PcOf, BirthSlot, Building
  <2> QED
    BY <1>0, <1>3, <2>1 DEF FinalizeInsertChunks, BirthData, Fresh, KeepsLives, RowsTyped
<1>4. CASE FinalizeFlip(i)
  <2>1. client[s[i].node] = "done" /\ s'[i].op = "none" /\ Building(i)
    BY <1>0, <1>4, ReturnSlot DEF FinalizeFlip, PcTyped, PcOf, BirthSlot, Building, TypeInv
  <2>2. complete' = complete \cup ({s[i].node} \cap rows) /\ UNCHANGED <<rows, parent, stamp, chunk, client>>
    BY <1>4 DEF FinalizeFlip
  <2>3. BirthData'
    BY <1>0, <2>1, <2>2 DEF BirthData, Fresh, RowsTyped
  <2> QED
    BY <1>0, <2>1, <2>2, <2>3 DEF KeepsLives, Fresh
<1>5. CASE TrashMark(i) \/ RestoreMark(i)
  <2>1. /\ UNCHANGED <<rows, parent, complete, client, chunk>>
        /\ \A n \in Node \ rows : stamp[n] = Live => stamp'[n] = Live
    BY <1>5, MarkedSets DEF TrashMark, RestoreMark
  <2> QED
    BY <1>0, <2>1 DEF BirthData, Fresh, KeepsLives, RowsTyped
<1>6. CASE FinishDelete(i)
  <2>1. UNCHANGED <<parent, stamp, client>> /\ DeleteRows(Doomed(i) \cap rows)
    BY <1>6 DEF FinishDelete
  <2>2. CASE UNCHANGED <<rows, complete, chunk>>
    BY <1>0, <2>1, <2>2 DEF BirthData, Fresh, KeepsLives, RowsTyped
  <2>3. CASE ~UNCHANGED <<rows, complete, chunk>>
    <3>1. PICK T : /\ rows' = rows \ T /\ complete' = complete \ T /\ chunk' = chunk \ T
                   /\ \A n \in rows \ T : parent[n] \notin T
      BY <2>1, <2>3 DEF DeleteRows
    <3> QED
      BY <1>0, <2>1, <3>1 DEF BirthData, Fresh, KeepsLives, RowsTyped
  <2> QED
    BY <2>2, <2>3
<1>7. CASE MoveUpdate(i)
  <2>1. UNCHANGED <<rows, stamp, complete, client, chunk>>
    BY <1>7 DEF MoveUpdate
  <2>2. \A n \in rows : parent'[n] \in rows \cup {Root}
    BY <1>0, <1>7 DEF MoveUpdate, BirthData, RowsTyped
  <2> QED
    BY <1>0, <2>1, <2>2 DEF BirthData, Fresh, KeepsLives, RowsTyped
<1> QED
  BY <1>1, <1>2, <1>3, <1>4, <1>5, <1>6, <1>7, HandlerEffects

LEMMA BirthHandler ==
  ASSUME TypeInv, BirthInv, NEW i \in Slot, Handler(i) \/ Crash(i)
  PROVE  BirthInv'
BY HandlerProceeds, BirthTables, BirthStep DEF Proceeds

LEMMA BirthOutside ==
  ASSUME TypeInv, BirthInv, Outside
  PROVE  BirthInv'
<1>1. /\ UNCHANGED <<rows, parent, stamp, complete, chunk, s>>
      /\ \A n \in Node : \/ client'[n] = client[n]
                         \/ client[n] = "open" /\ client'[n] = "gone"
  BY DEF Outside, PutObject, Abandon, SetHold, Age, TypeInv, RowsTyped
<1>2. \A n \in Node : Fresh(n)' <=> Fresh(n)
  BY <1>1 DEF Fresh
<1>3. BirthData'
  BY <1>1, <1>2 DEF BirthInv, BirthData, TypeInv, RowsTyped
<1>4. OneBuilds' /\ KeptApart'
  BY <1>1 DEF BirthInv, OneBuilds, KeptApart, Building
<1>5. ASSUME NEW j \in Slot
      PROVE  BirthSlot(j)'
  <2>1. PICK n : n = s[j].node
    OBVIOUS
  <2>2. BirthSlot(j) /\ (s[j].op \in {"create", "finalize", "purge"} => n \in Node)
    BY <2>1 DEF BirthInv, TypeInv, SlotTyped, Node
  <2>3. s[j].op = "purge" => Born(n)'
    BY <1>1, <2>1, <2>2 DEF BirthSlot, Born
  <2>4. (Fresh(s[j].node)' <=> Fresh(n)') /\ (Born(s[j].node)' <=> Born(n)')
    BY <1>1, <2>1 DEF Fresh, Born
  <2> QED
    BY <1>1, <1>2, <2>1, <2>2, <2>3, <2>4 DEF BirthSlot, Building
<1> QED
  BY <1>3, <1>4, <1>5 DEF BirthInv

LEMMA BirthNext == TypeInv /\ BirthInv /\ [Next]_vars => BirthInv'
<1> SUFFICES ASSUME TypeInv, BirthInv, [Next]_vars PROVE BirthInv'
  OBVIOUS
<1>1. CASE UNCHANGED vars
  BY <1>1 DEF vars, BirthInv, BirthData, OneBuilds, KeptApart, BirthSlot, Building,
     Fresh, Born
<1> QED
  BY <1>1, StepCases, BirthHandler, BirthBegin, BirthOutside

\* What is true of every behaviour.
Base == TypeInv /\ BirthInv

LEMMA BaseHolds == Spec => []Base
<1>1. Init => Base
  BY TypeInit, BirthInit DEF Base
<1>2. Base /\ [Next]_vars => Base'
  BY TypeNext, BirthNext DEF Base
<1> QED
  BY <1>1, <1>2, PTL DEF Spec
\* A request that starts, and the world outside, leave the tree alone.
LEMMA TreeAlone ==
  ASSUME \/ \E i \in Slot : Begin(i)
         \/ Outside \/ UNCHANGED vars
  PROVE  UNCHANGED <<rows, parent, stamp, complete, chunk, clock>>
BY DEF Begin, Outside, vars, StartEmpty, StartExpire, StartSweep, StartFinalize,
   StartRestore, StartPurge, StartTrash, StartCreate, StartMove, PutObject, Abandon,
   SetHold, Age

-----------------------------------------------------------------------------
(* Restore undoes a trash operation, when no move and no restore overlaps  *)
(* with a trash. The nodes that one operation trashed form, for as long as *)
(* they are in the trash, one tree with one top.                           *)

Group(k) == {n \in rows : stamp[n] = k}

Whole(p, G) == \A t \in G : p[t] \notin G => G \subseteq BelowIn(p, t, G)

GroupsWhole == \A k \in 1..MaxTrash : Whole(parent, Group(k))

UndoSlot(i) ==
  /\ s[i].op = "restore" /\ stamp[s[i].node] # Live =>
       parent[s[i].node] \notin Group(stamp[s[i].node])
  /\ s[i].op = "move" /\ s[i].pc # "mvRow" => stamp[s[i].node] = Live

UndoInv == GroupsWhole /\ \A i \in Slot : UndoSlot(i)

UndoApart == {{"trash", "move"}, {"trash", "restore"}} \subseteq Apart

LEMMA WholeSame ==
  ASSUME NEW p, NEW q, NEW G, Whole(p, G), \A c \in G : p[c] = q[c]
  PROVE  Whole(q, G)
BY BelowSame DEF Whole

LEMMA WholeLoses ==
  ASSUME NEW p, NEW G, NEW T, Whole(p, G), \A c \in G : p[c] \in T => c \in T
  PROVE  Whole(p, G \ T)
<1> SUFFICES ASSUME NEW t \in G \ T, p[t] \notin G \ T
             PROVE  G \ T \subseteq BelowIn(p, t, G \ T)
  BY DEF Whole
<1>1. G \subseteq BelowIn(p, t, G)
  BY DEF Whole
<1> QED
  BY <1>1, BelowLoses

LEMMA WholeBelow ==
  ASSUME NEW p, NEW Q, NEW n \in Q
  PROVE  Whole(p, BelowIn(p, n, Q))
<1> DEFINE B == BelowIn(p, n, Q)
           S == BelowIn(p, n, B)
<1>1. n \in S
  BY BelowSelf
<1>2. \A c \in Q : p[c] \in S /\ p[c] \in B => c \in S
  BY BelowDown
<1> HIDE DEF S
<1>3. B \subseteq S
  BY <1>1, <1>2, BelowLeast
<1> HIDE DEF B
<1>4. \A t \in B : p[t] \notin B => t = n
  BY BelowUp DEF B
<1>5. Whole(p, B)
  BY <1>3, <1>4 DEF Whole, S
<1> QED
  BY <1>5 DEF B

LEMMA WholeAll ==
  ASSUME NEW p, NEW G, NEW n \in G, Whole(p, G), p[n] \notin G
  PROVE  BelowIn(p, n, G) = G
BY BelowSelf DEF Whole

LEMMA UndoInit == Init => UndoInv
<1> SUFFICES ASSUME Init PROVE UndoInv
  OBVIOUS
<1>1. \A k \in 1..MaxTrash : Group(k) = {}
  BY NodeAssumption, BoundAssumption DEF Init, Group, Live
<1>2. \A k \in 1..MaxTrash : Whole(parent, Group(k))
  BY <1>1 DEF Whole
<1> QED
  BY <1>2 DEF Init, Idle, UndoInv, GroupsWhole, UndoSlot

\* What a restore takes is what one operation trashed.
LEMMA RestoreWhole ==
  ASSUME TypeInv, UndoInv, NEW i \in Slot, s[i].op = "restore", s[i].node \in Trashed
  PROVE  RestoreSet(s[i].node) = Group(stamp[s[i].node])
<1>1. PICK n : n = s[i].node
  OBVIOUS
<1>2. PICK k : k = stamp[n]
  OBVIOUS
<1>3. n \in rows /\ n \in Node /\ k # Live /\ k \in 0..MaxTrash
  <2>1. n \in rows /\ n \in Node /\ k # Live /\ k \in 0..clock /\ clock \in 0..MaxTrash
    BY <1>1, <1>2 DEF Trashed, TypeInv, RowsTyped
  <2> QED
    BY <2>1, BoundAssumption
<1>4. k \in 1..MaxTrash /\ n \in Group(k) /\ parent[n] \notin Group(k)
  BY <1>1, <1>2, <1>3, BoundAssumption DEF Live, Group, UndoInv, UndoSlot
<1>5. Whole(parent, Group(k))
  BY <1>4 DEF UndoInv, GroupsWhole
<1>6. {m \in Trashed : stamp[m] = stamp[n]} = Group(k)
  BY <1>2, <1>3 DEF Trashed, Group
<1>7. RestoreSet(n) = BelowIn(parent, n, Group(k))
  BY <1>1, <1>6, BelowIs DEF RestoreSet
<1> QED
  BY <1>1, <1>2, <1>4, <1>5, <1>7, WholeAll

\* What the steps that trash nothing do to what is in the trash.
TrashShrinks ==
  /\ \A n \in Node : stamp'[n] = stamp[n] \/ stamp'[n] = Live
  /\ \A n \in Node : parent'[n] = parent[n] \/ (stamp[n] = Live /\ stamp'[n] = Live)
  /\ \A n \in rows' \ rows : stamp'[n] = Live

LEMMA ShrinksUnlessTrash ==
  ASSUME Base, UndoInv, NEW i \in Slot, Handler(i) \/ Crash(i), ~TrashMark(i)
  PROVE  TrashShrinks
<1> USE DEF At
<1>0. SlotTyped(i) /\ PcTyped(i) /\ RowsTyped /\ BirthSlot(i) /\ UndoSlot(i)
  BY DEF Base, TypeInv, BirthInv, UndoInv
<1>1. CASE TablesSame \/ FinalizeInsertChunks(i) \/ FinalizeFlip(i)
  BY <1>1 DEF TrashShrinks, TablesSame, FinalizeInsertChunks, FinalizeFlip
<1>2. CASE CreateInsert(i)
  <2>1. s[i].op = "create" /\ s[i].node \in Node /\ stamp[s[i].node] = Live
    BY <1>0, <1>2 DEF CreateInsert, PcTyped, PcOf, SlotTyped, BirthSlot, Fresh
  <2> QED
    BY <1>0, <1>2, <2>1 DEF CreateInsert, TrashShrinks, RowsTyped
<1>3. CASE RestoreMark(i)
  BY <1>3 DEF RestoreMark, TrashShrinks
<1>4. CASE FinishDelete(i)
  BY <1>4 DEF FinishDelete, DeleteRows, TrashShrinks
<1>5. CASE MoveUpdate(i)
  <2>1. stamp[s[i].node] = Live
    BY <1>0, <1>5 DEF MoveUpdate, PcTyped, PcOf, UndoSlot
  <2> QED
    BY <1>0, <1>5, <2>1 DEF MoveUpdate, TrashShrinks, RowsTyped
<1> QED
  BY <1>1, <1>2, <1>3, <1>4, <1>5, HandlerEffects

\* A slot that was what it was, or went on with its operation.
LEMMA UndoSlotKeeps ==
  ASSUME TypeInv, TrashShrinks, rows' \subseteq Node, NEW j \in Slot, UndoSlot(j),
         s'[j].op \in {"restore", "move"} =>
           /\ s'[j].op = s[j].op /\ s'[j].node = s[j].node
           /\ s'[j].pc # "mvRow" /\ s[j].pc = "mvRow" => stamp[s[j].node] = Live
  PROVE  UndoSlot(j)'
<1>1. PICK n : n = s[j].node
  OBVIOUS
<1>2. s'[j].op \in {"restore", "move"} => s'[j].node = n /\ n \in Node
  BY <1>1 DEF TypeInv, SlotTyped
<1>3. ASSUME s'[j].op = "restore", stamp'[n] # Live
      PROVE  parent'[n] \notin {m \in rows' : stamp'[m] = stamp'[n]}
  <2>1. stamp'[n] = stamp[n] /\ parent'[n] = parent[n] /\ parent[n] \notin Group(stamp[n])
    BY <1>1, <1>2, <1>3 DEF TrashShrinks, UndoSlot
  <2> QED
    BY <1>3, <2>1 DEF TrashShrinks, Group
<1>4. s'[j].op = "move" /\ s'[j].pc # "mvRow" => stamp'[n] = Live
  BY <1>1, <1>2 DEF UndoSlot, TrashShrinks
<1> QED
  BY <1>2, <1>3, <1>4 DEF UndoSlot, Group
\* How a move goes on.
MoveChecksRow(i) ==
  /\ s[i].pc = "mvRow" /\ s[i].node \in rows \ Trashed
  /\ s'[i].pc = "mvDest" \/ (s'[i].pc = "mvUpdate" /\ s[i].dest = Root)

MoveChecksDest(i) ==
  /\ s[i].pc = "mvDest" /\ s[i].dest \in rows \ Trashed /\ s[i].node # s[i].dest
  /\ s'[i].pc = IF s[i].node \in Folders THEN "mvWalk" ELSE "mvUpdate"
  /\ s'[i].ids = {s[i].dest}

MoveEndsWalk(i) ==
  /\ s[i].pc = "mvWalk" /\ s'[i].pc = "mvUpdate"
  /\ \E m \in s[i].ids : m \notin rows \/ parent[m] = Root

MoveClimbs(i) ==
  /\ s[i].pc = "mvWalk" /\ s'[i].pc = "mvWalk"
  /\ \E m \in s[i].ids : /\ m \in rows /\ parent[m] # s[i].node /\ parent[m] # Root
                         /\ s'[i].ids = {parent[m]}

LEMMA MoveGoes ==
  ASSUME TypeInv, NEW i \in Slot, Handler(i) \/ Crash(i), s'[i].op = "move"
  PROVE  /\ s[i].op = "move" /\ s'[i].node = s[i].node /\ s'[i].dest = s[i].dest
         /\ UNCHANGED <<rows, parent, stamp>>
         /\ MoveChecksRow(i) \/ MoveChecksDest(i) \/ MoveEndsWalk(i) \/ MoveClimbs(i)
<1>1. Proceeds(i) /\ PcTyped(i) /\ SlotsTyped /\ SlotTyped(i)
  BY HandlerProceeds DEF TypeInv
<1>2. s[i].op = "move" /\ s'[i].node = s[i].node /\ s'[i].dest = s[i].dest
  BY <1>1 DEF Proceeds
<1>3. ~Return(i)
  BY <1>1, ReturnSlot
<1>4. MoveReadRow(i) \/ MoveReadDest(i) \/ MoveWalk(i)
  BY <1>1, <1>2, <1>3 DEF At, Handler, Crash, PcTyped, PcOf, CreateCheckParent,
     CreateInsert, FinalizeReadRow, FinalizeMeasure, FinalizeInsertChunks, FinalizeFlip,
     TrashCheckHold, TrashMark, RestoreReadRow, RestoreMark, PurgeReadRow,
     PurgeReadKeys, PurgeCheckHeld, EmptyList, EmptyCheckHeld, ExpireList, SweepList,
     ReadKeys, DeleteObjects, FinishDelete, MoveUpdate
<1>5. UNCHANGED <<rows, parent, stamp>>
  BY <1>4 DEF MoveReadRow, MoveReadDest, MoveWalk
<1>6. CASE MoveReadRow(i)
  <2>1. /\ s[i].pc = "mvRow" /\ s[i].node \in rows \ Trashed
        /\ Goto(i, "mvDest") \/ (Goto(i, "mvUpdate") /\ s[i].dest = Root)
    BY <1>3, <1>6 DEF MoveReadRow, At
  <2>2. MoveChecksRow(i)
    BY <1>1, <2>1, Tags, GotoSlot DEF MoveChecksRow
  <2> QED
    BY <1>2, <1>5, <2>2
<1>7. CASE MoveReadDest(i)
  <2>1. /\ s[i].pc = "mvDest" /\ s[i].dest \in Folders
        /\ s[i].dest \in rows \ Trashed /\ s[i].node # s[i].dest
    BY <1>1, <1>3, <1>7 DEF At, MoveReadDest, SlotTyped
  <2>2. PICK p \in {"mvWalk", "mvUpdate"} :
          /\ p = IF s[i].node \in Folders THEN "mvWalk" ELSE "mvUpdate"
          /\ s' = [s EXCEPT ![i].pc = p, ![i].ids = {s[i].dest}]
    BY <1>3, <1>7 DEF MoveReadDest
  <2>3. p \in PC /\ {s[i].dest} \in SUBSET Node
    BY <2>1, Tags DEF Node
  <2>4. s'[i].pc = p /\ s'[i].ids = {s[i].dest}
    <3>1. PICK S : S = {s[i].dest}
      OBVIOUS
    <3>2. s' = [s EXCEPT ![i].pc = p, ![i].ids = S] /\ S \in SUBSET Node
      BY <2>2, <2>3, <3>1
    <3>3. s'[i].pc = p /\ s'[i].ids = S
      BY <1>1, <2>3, <3>2, ListSlot
    <3> QED
      BY <3>1, <3>3
  <2>5. MoveChecksDest(i)
    BY <2>1, <2>2, <2>4 DEF MoveChecksDest
  <2> QED
    BY <1>2, <1>5, <2>5
<1>8. CASE MoveWalk(i)
  <2>1. PICK m \in s[i].ids :
          IF m \in rows /\ parent[m] = s[i].node THEN Return(i)
          ELSE IF m \notin rows \/ parent[m] = Root
            THEN s' = [s EXCEPT ![i].pc = "mvUpdate", ![i].ids = {}]
            ELSE s' = [s EXCEPT ![i].ids = {parent[m]}]
    BY <1>8 DEF MoveWalk
  <2>2. s[i].pc = "mvWalk"
    BY <1>8 DEF At, MoveWalk
  <2>3. CASE m \notin rows \/ parent[m] = Root
    <3>1. "mvUpdate" \in PC /\ {} \in SUBSET Node
      BY Tags
    <3>2. s'[i].pc = "mvUpdate"
      BY <1>1, <1>3, <2>1, <2>3, <3>1, ListSlot
    <3>3. MoveEndsWalk(i)
      BY <2>2, <2>3, <3>2 DEF MoveEndsWalk
    <3> QED
      BY <1>2, <1>5, <3>3
  <2>4. CASE m \in rows /\ parent[m] # Root
    <3>1. parent[m] # s[i].node /\ s' = [s EXCEPT ![i].ids = {parent[m]}]
      BY <1>3, <2>1, <2>4
    <3>2. {parent[m]} \in SUBSET Node
      BY <2>4 DEF TypeInv, RowsTyped, Node
    <3>3. s'[i].pc = s[i].pc /\ s'[i].ids = {parent[m]}
      BY <1>1, <3>1, <3>2, LevelSlot
    <3>4. MoveClimbs(i)
      BY <2>2, <2>4, <3>1, <3>3 DEF MoveClimbs
    <3> QED
      BY <1>2, <1>5, <3>4
  <2> QED
    BY <2>3, <2>4
<1> QED
  BY <1>4, <1>6, <1>7, <1>8

LEMMA UndoSlots ==
  ASSUME Base, UndoInv, UndoApart, NEW i \in Slot, Handler(i) \/ Crash(i)
  PROVE  \A j \in Slot : UndoSlot(j)'
<1>0. TypeInv /\ Proceeds(i) /\ TypeInv'
  BY HandlerProceeds, TypeHandler, TypeCrash DEF Base
<1>1. CASE ~TrashMark(i)
  <2>1. TrashShrinks /\ rows' \subseteq Node
    BY <1>0, <1>1, ShrinksUnlessTrash DEF TypeInv, RowsTyped
  <2>2. ASSUME NEW j \in Slot
        PROVE  UndoSlot(j)'
    <3>1. CASE j # i
      BY <1>0, <2>1, <3>1, UndoSlotKeeps DEF Proceeds, Others, UndoInv
    <3>2. CASE j = i
      <4>1. s'[i].op \in {"restore", "move"} => s'[i].op = s[i].op /\ s'[i].node = s[i].node
        BY <1>0 DEF Proceeds
      <4>2. s'[i].op = "move" /\ s[i].pc = "mvRow" => stamp[s[i].node] = Live
        BY <1>0, MoveGoes DEF MoveChecksRow, MoveChecksDest, MoveEndsWalk, MoveClimbs,
           Trashed
      <4>3. s'[i].op = "restore" => s[i].pc # "mvRow"
        BY <1>0, <4>1 DEF TypeInv, PcTyped, PcOf
      <4> QED
        BY <1>0, <2>1, <3>2, <4>1, <4>2, <4>3, UndoSlotKeeps DEF UndoInv
    <3> QED
      BY <3>1, <3>2
  <2> QED
    BY <2>2
<1>2. CASE TrashMark(i)
  <2>1. s[i].op = "trash" /\ s'[i].op = "none"
    BY <1>0, <1>2, ReturnSlot DEF TrashMark, At, TypeInv, PcTyped, PcOf
  <2>2. ASSUME NEW j \in Slot
        PROVE  s'[j].op \notin {"restore", "move"}
    <3>1. CASE j # i
      <4>1. s'[j].op = "none" \/ {"trash", s'[j].op} \notin Apart
        BY <1>0, <2>1, <3>1 DEF Proceeds, Others, Base, BirthInv, KeptApart
      <4> QED
        BY <4>1 DEF UndoApart
    <3> QED
      BY <2>1, <3>1
  <2> QED
    BY <2>2 DEF UndoSlot
<1> QED
  BY <1>1, <1>2

LEMMA UndoGroups ==
  ASSUME Base, UndoInv, NEW i \in Slot, Handler(i) \/ Crash(i)
  PROVE  GroupsWhole'
<1>0. TypeInv /\ RowsTyped /\ TypeInv' /\ PcTyped(i) /\ MaxTrash \in Nat /\ clock \in Nat
  BY TypeHandler, TypeCrash, BoundAssumption DEF Base, TypeInv, RowsTyped
<1> SUFFICES ASSUME NEW k \in 1..MaxTrash
             PROVE  Whole(parent', {n \in rows' : stamp'[n] = k})
  BY DEF GroupsWhole, Group
<1> DEFINE G == {n \in rows : stamp[n] = k}
           H == {n \in rows' : stamp'[n] = k}
<1>1. Whole(parent, G) /\ k # Live /\ G \subseteq Node /\ H \subseteq Node
  BY <1>0 DEF UndoInv, GroupsWhole, Group, Live, TypeInv, RowsTyped
<1>2. CASE FinishDelete(i)
  <2>1. parent' = parent /\ stamp' = stamp /\ DeleteRows(Doomed(i) \cap rows)
    BY <1>2 DEF FinishDelete
  <2>2. CASE rows' = rows
    <3>1. H = G
      BY <2>1, <2>2
    <3> QED
      BY <1>1, <2>1, <3>1
  <2>3. CASE rows' # rows
    <3>1. PICK T : rows' = rows \ T /\ \A n \in rows \ T : parent[n] \notin T
      BY <2>1, <2>3 DEF DeleteRows
    <3>2. H = G \ T
      BY <2>1, <3>1
    <3>3. Whole(parent, G \ T)
      <4>1. \A c \in G : parent[c] \in T => c \in T
        BY <3>1
      <4> HIDE DEF G
      <4> QED
        BY <1>1, <4>1, WholeLoses
    <3> QED
      BY <2>1, <3>2, <3>3
  <2> QED
    BY <2>2, <2>3
<1>3. CASE TrashMark(i)
  <2> DEFINE T == TrashSet(s[i].node)
  <2>1. parent' = parent /\ rows' = rows
    BY <1>3 DEF TrashMark
  <2>2. CASE stamp' = stamp
    BY <1>1, <2>1, <2>2
  <2>3. CASE stamp' # stamp
    <3>1. /\ T # {} /\ clock < MaxTrash
          /\ stamp' = [n \in Node |-> IF n \in T THEN clock + 1 ELSE stamp[n]]
      BY <1>3, <2>3 DEF TrashMark
    <3>2. T \subseteq {m \in rows : stamp[m] = Live}
      BY MarkedSets
    <3>3. CASE k = clock + 1
      <4>1. G = {}
        <5>1. \A n \in rows : stamp[n] \in 0..clock
          BY <1>0 DEF RowsTyped
        <5> QED
          BY <1>0, <3>3, <5>1
      <4>2. H = T
        BY <1>0, <2>1, <3>1, <3>2, <3>3, <4>1 DEF RowsTyped
      <4>3. Whole(parent, T)
        <5>1. s[i].node \in rows \ Trashed /\ T = BelowIn(parent, s[i].node, rows \ Trashed)
          BY <3>1, BelowIs DEF TrashSet
        <5> QED
          BY <5>1, WholeBelow
      <4> QED
        BY <2>1, <4>2, <4>3
    <3>4. CASE k # clock + 1
      <4>1. H = G
        BY <1>0, <1>1, <2>1, <3>1, <3>2, <3>4 DEF RowsTyped
      <4> QED
        BY <1>1, <2>1, <4>1
    <3> QED
      BY <3>3, <3>4
  <2> QED
    BY <2>2, <2>3
<1>4. CASE RestoreMark(i)
  <2> DEFINE R == RestoreSet(s[i].node)
  <2>1. /\ parent' = parent /\ rows' = rows /\ s[i].op = "restore"
        /\ stamp' = [n \in Node |-> IF n \in R THEN Live ELSE stamp[n]]
    BY <1>0, <1>4 DEF RestoreMark, At, PcTyped, PcOf
  <2>2. CASE R = {}
    <3>1. H = G
      BY <1>0, <2>1, <2>2 DEF RowsTyped
    <3> QED
      BY <1>1, <2>1, <3>1
  <2>3. CASE R # {}
    <3>1. s[i].node \in Trashed
      BY <2>3 DEF RestoreSet
    <3>2. R = Group(stamp[s[i].node])
      BY <1>0, <2>1, <3>1, RestoreWhole
    <3>3. CASE k = stamp[s[i].node]
      <4>1. H = {}
        BY <1>1, <2>1, <3>2, <3>3 DEF Group
      <4> QED
        BY <4>1 DEF Whole
    <3>4. CASE k # stamp[s[i].node]
      <4>1. H = G
        BY <1>1, <2>1, <3>2, <3>4 DEF Group
      <4> QED
        BY <1>1, <2>1, <4>1
    <3> QED
      BY <3>3, <3>4
  <2> QED
    BY <2>2, <2>3
<1>5. CASE ~FinishDelete(i) /\ ~TrashMark(i) /\ ~RestoreMark(i)
  <2>1. stamp' = stamp /\ rows \subseteq rows'
    BY <1>5, HandlerEffects DEF TablesSame, FinalizeInsertChunks, FinalizeFlip,
       CreateInsert, MoveUpdate
  <2>2. TrashShrinks
    BY <1>5, ShrinksUnlessTrash
  <2>3. H = G /\ \A c \in G : parent[c] = parent'[c]
    BY <1>1, <2>1, <2>2 DEF TrashShrinks
  <2> HIDE DEF G
  <2> QED
    BY <1>1, <2>3, WholeSame
<1> QED
  BY <1>2, <1>3, <1>4, <1>5

\* What a request that starts has in its slot.
Started(i) ==
  \/ s'[i].op = "empty" /\ s'[i].pc = "emList"
  \/ s'[i].op = "expire" /\ s'[i].pc = "exList"
  \/ s'[i].op = "sweep" /\ s'[i].pc = "swList"
  \/ /\ s'[i].op = "finalize" /\ s'[i].pc = "fnRow"
     /\ s'[i].node \in Files \cap object /\ client[s'[i].node] = "open"
  \/ /\ s'[i].op = "restore" /\ s'[i].pc = "rsRow" /\ s'[i].node \in TopOfTrash
     /\ parent[s'[i].node] \notin Trashed \/ "nested" \in Ops
  \/ /\ s'[i].op = "purge" /\ s'[i].pc = "puRow" /\ s'[i].node \in TopOfTrash
     /\ "folders" \in Ops \/ \A m \in rows : parent[m] # s'[i].node
  \/ s'[i].op = "trash" /\ s'[i].pc = "trHold" /\ s'[i].node \in Shown
  \/ /\ s'[i].op = "create" /\ s'[i].pc \in {"crInsert", "crParent"}
     /\ s'[i].node \in Node /\ s'[i].dest \in Place /\ client[s'[i].node] = "none"
  \/ /\ s'[i].op = "move" /\ s'[i].pc = "mvRow"
     /\ s'[i].node \in Shown /\ s'[i].dest \in Place

LEMMA BeginStarts ==
  ASSUME TypeInv, NEW i \in Slot, Begin(i)
  PROVE  /\ Others(i) /\ MayRun(s'[i].op) /\ s[i].op = "none"
         /\ s'[i].ids = {} /\ s'[i].keys = {} /\ Started(i)
<1> DEFINE Good(op, p, n, d) ==
             Others(i) /\ MayRun(s'[i].op) /\ s[i].op = "none"
             /\ s'[i].ids = {} /\ s'[i].keys = {}
             /\ s'[i].op = op /\ s'[i].pc = p /\ s'[i].node = n /\ s'[i].dest = d
<1>0. ASSUME NEW op \in Op, NEW p \in PC, NEW n \in Node \cup {Root},
             NEW d \in Node \cup {Root}, Start(i, op, p, n, d)
      PROVE  Good(op, p, n, d)
  <2>1. SlotsTyped /\ PcTyped(i)
    BY DEF TypeInv
  <2> QED
    BY <1>0, <2>1, StartSlot DEF PcTyped, PcOf
<1> HIDE DEF Good
<1>10. /\ \A n \in Node : n \in Node \cup {Root}
       /\ Root \in Node \cup {Root} /\ Files \subseteq Node
  BY DEF Node
<1>1. CASE StartEmpty(i)
  <2>1. Good("empty", "emList", Root, Root)
    BY <1>0, <1>1, <1>10, Tags DEF StartEmpty
  <2> QED
    BY <2>1 DEF Good, Started
<1>2. CASE StartExpire(i)
  <2>1. Good("expire", "exList", Root, Root)
    BY <1>0, <1>2, <1>10, Tags DEF StartExpire
  <2> QED
    BY <2>1 DEF Good, Started
<1>3. CASE StartSweep(i)
  <2>1. Good("sweep", "swList", Root, Root)
    BY <1>0, <1>3, <1>10, Tags DEF StartSweep
  <2> QED
    BY <2>1 DEF Good, Started
<1>4. CASE \E n \in Files : StartFinalize(i, n)
  <2>1. PICK n \in Files : StartFinalize(i, n)
    BY <1>4
  <2>2. Good("finalize", "fnRow", n, Root)
    BY <1>0, <1>10, <2>1, Tags DEF StartFinalize
  <2> QED
    BY <2>1, <2>2 DEF Good, Started, StartFinalize
<1>5. CASE \E n \in TopOfTrash : StartRestore(i, n) \/ StartPurge(i, n)
  <2>1. PICK n \in TopOfTrash : StartRestore(i, n) \/ StartPurge(i, n)
    BY <1>5
  <2>2. n \in Node
    BY ShownSets
  <2>3. CASE StartRestore(i, n)
    <3>1. Good("restore", "rsRow", n, Root)
      BY <1>0, <1>10, <2>2, <2>3, Tags DEF StartRestore
    <3> QED
      BY <2>1, <2>3, <3>1 DEF Good, Started, StartRestore
  <2>4. CASE StartPurge(i, n)
    <3>1. Good("purge", "puRow", n, Root)
      BY <1>0, <1>10, <2>2, <2>4, Tags DEF StartPurge
    <3> QED
      BY <2>1, <2>4, <3>1 DEF Good, Started, StartPurge
  <2> QED
    BY <2>1, <2>3, <2>4
<1>6. CASE \E n \in Shown : StartTrash(i, n)
  <2>1. PICK n \in Shown : StartTrash(i, n)
    BY <1>6
  <2>2. n \in Node
    BY ShownSets
  <2>3. Good("trash", "trHold", n, Root)
    BY <1>0, <1>10, <2>1, <2>2, Tags DEF StartTrash
  <2> QED
    BY <2>3 DEF Good, Started
<1>7. CASE \E n \in Node, d \in Place : StartCreate(i, n, d)
  <2>1. PICK n \in Node, d \in Place : StartCreate(i, n, d)
    BY <1>7
  <2>2. d \in Node \cup {Root}
    BY ShownSets DEF Node
  <2>3. PICK p \in {"crInsert", "crParent"} : Start(i, "create", p, n, d)
    BY <2>1 DEF StartCreate
  <2>4. Good("create", p, n, d)
    BY <1>0, <1>10, <2>2, <2>3, Tags
  <2> QED
    BY <2>1, <2>4 DEF Good, Started, StartCreate
<1>8. CASE \E n \in Shown, d \in Place : StartMove(i, n, d)
  <2>1. PICK n \in Shown, d \in Place : StartMove(i, n, d)
    BY <1>8
  <2>2. n \in Node /\ d \in Node \cup {Root}
    BY ShownSets DEF Node
  <2>3. Good("move", "mvRow", n, d)
    BY <1>0, <1>10, <2>1, <2>2, Tags DEF StartMove
  <2> QED
    BY <2>3 DEF Good, Started
<1> QED
  BY <1>1, <1>2, <1>3, <1>4, <1>5, <1>6, <1>7, <1>8 DEF Begin

LEMMA UndoBegin ==
  ASSUME Base, UndoInv, NEW i \in Slot, Begin(i)
  PROVE  UndoInv'
<1>0. /\ TypeInv /\ UNCHANGED <<rows, parent, stamp>>
      /\ Others(i) /\ Started(i)
  BY TreeAlone, BeginStarts DEF Base
<1>1. GroupsWhole'
  BY <1>0 DEF UndoInv, GroupsWhole, Group, Whole
<1>2. ASSUME NEW j \in Slot
      PROVE  UndoSlot(j)'
  <2>1. CASE j # i
    BY <1>0, <2>1 DEF UndoInv, UndoSlot, Group, Others
  <2>2. CASE j = i
    <3>1. PICK n : n = s'[i].node
      OBVIOUS
    <3>2. s'[i].op = "restore" => n \in TopOfTrash
      BY <1>0, <3>1 DEF Started
    <3>3. n \in TopOfTrash => parent[n] \notin {m \in rows : stamp[m] = stamp[n]}
      <4> SUFFICES ASSUME n \in TopOfTrash, parent[n] \in rows, stamp[parent[n]] = stamp[n]
                   PROVE  FALSE
        OBVIOUS
      <4>1. n \in Node /\ stamp[n] # Live
        BY <1>0, ShownSets
      <4>2. parent[n] \in Folders \cap rows
        BY <1>0, <4>1, NodeAssumption DEF TypeInv, RowsTyped
      <4>3. parent[n] \in Trashed \cap complete
        BY <1>0, <4>1, <4>2 DEF TypeInv, RowsTyped, Trashed
      <4> QED
        BY <4>3 DEF TopOfTrash
    <3>4. s'[i].op = "move" => s'[i].pc = "mvRow"
      BY <1>0 DEF Started
    <3> QED
      BY <1>0, <2>2, <3>1, <3>2, <3>3, <3>4 DEF UndoSlot, Group
  <2> QED
    BY <2>1, <2>2
<1> QED
  BY <1>1, <1>2 DEF UndoInv

LEMMA UndoNext ==
  ASSUME UndoApart
  PROVE  Base /\ UndoInv /\ [Next]_vars => UndoInv'
<1> SUFFICES ASSUME Base, UndoInv, [Next]_vars PROVE UndoInv'
  OBVIOUS
<1>1. ASSUME NEW i \in Slot, Handler(i) \/ Crash(i)
      PROVE  UndoInv'
  BY <1>1, UndoSlots, UndoGroups DEF UndoInv
<1>2. CASE Outside \/ UNCHANGED vars
  <2>1. UNCHANGED <<rows, parent, stamp, s>>
    BY <1>2, TreeAlone DEF Outside, vars, PutObject, Abandon, SetHold, Age
  <2> QED
    BY <2>1 DEF UndoInv, GroupsWhole, Group, Whole, UndoSlot
<1> QED
  BY <1>1, <1>2, UndoBegin, StepCases

LEMMA UndoHolds ==
  ASSUME UndoApart
  PROVE  Spec => []UndoInv
<1>1. Init => UndoInv
  BY UndoInit
<1>2. Base /\ UndoInv /\ [Next]_vars => UndoInv'
  BY UndoNext
<1> QED
  BY <1>1, <1>2, BaseHolds, PTL DEF Spec

\* Restoring a node brings back all that went with it into the trash and nothing
\* that the user trashed at another time, unless a move or a restore overlaps with
\* a trash.
THEOREM RestoreUndoes ==
  ASSUME UndoApart
  PROVE  Spec => RestoreUndoesTrash
<1>1. Base /\ UndoInv /\ [Next]_vars =>
        \A n \in Trashed : n \in rows' /\ stamp'[n] = Live =>
          \A m \in rows : IF stamp[m] = stamp[n] THEN stamp'[m] = Live
                                                 ELSE stamp'[m] = stamp[m]
  <2> SUFFICES ASSUME Base, UndoInv, [Next]_vars,
                      NEW n \in Trashed, stamp'[n] = Live, NEW m \in rows
               PROVE  IF stamp[m] = stamp[n] THEN stamp'[m] = Live
                                             ELSE stamp'[m] = stamp[m]
    OBVIOUS
  <2>1. n \in rows /\ rows \subseteq Node /\ stamp[n] # Live /\ TypeInv
    BY DEF Trashed, Base, TypeInv, RowsTyped
  <2>2. PICK i \in Slot : Handler(i) \/ Crash(i)
    BY <2>1, StepCases, TreeAlone
  <2>3. stamp'[n] # stamp[n]
    BY <2>1
  <2>4. CASE TrashMark(i)
    BY <2>1, <2>3, <2>4, MarkedSets DEF TrashMark
  <2>5. CASE RestoreMark(i)
    <3> DEFINE R == RestoreSet(s[i].node)
    <3>1. /\ s[i].op = "restore"
          /\ stamp' = [x \in Node |-> IF x \in R THEN Live ELSE stamp[x]]
      BY <2>1, <2>5 DEF RestoreMark, At, TypeInv, PcTyped, PcOf
    <3>2. n \in R
      BY <2>1, <2>3, <3>1
    <3>3. R = Group(stamp[s[i].node])
      BY <2>1, <3>1, <3>2, RestoreWhole DEF RestoreSet
    <3> QED
      BY <2>1, <3>1, <3>2, <3>3 DEF Group
  <2>6. CASE ~TrashMark(i) /\ ~RestoreMark(i)
    BY <2>2, <2>3, <2>6, HandlerEffects DEF TablesSame, CreateInsert,
       FinalizeInsertChunks, FinalizeFlip, FinishDelete, MoveUpdate
  <2> QED
    BY <2>4, <2>5, <2>6
<1> QED
  BY <1>1, BaseHolds, UndoHolds, PTL DEF Spec, RestoreUndoesTrash
-----------------------------------------------------------------------------
(* Every live node can be navigated to, when moves are kept apart from one *)
(* another and from trash, and trash from restore and create. The folders  *)
(* that are live hang together below the top of the drive; a move walks up *)
(* from its destination, and the destination lies below whatever it has    *)
(* come to.                                                                *)

LiveRows == {n \in rows : stamp[n] = Live}
LiveFolders == LiveRows \cap Folders

Placed == \A n \in LiveRows : parent[n] \in LiveRows \cup {Root}
Rooted == LiveFolders \subseteq BelowIn(parent, Root, LiveFolders)

LiveOrRoot(d) == d = Root \/ stamp[d] = Live

PlaceSlot(i) ==
  /\ s[i].op = "create" => LiveOrRoot(s[i].dest)
  /\ s[i].op = "restore" => LiveOrRoot(parent[s[i].node])
  /\ s[i].op = "move" => s[i].dest = Root \/ Born(s[i].dest)
  /\ s[i].op = "move" /\ s[i].pc \notin {"mvRow", "mvDest"} => LiveOrRoot(s[i].dest)

\* The move of n into d has come to m.
Walking(n, d, m) ==
  /\ m # n
  /\ d \in rows =>
       /\ m \in LiveFolders /\ d \in BelowIn(parent, m, LiveFolders)
       /\ d \in BelowIn(parent, n, LiveFolders) => m \in BelowIn(parent, n, LiveFolders)

WalkSlot(i) ==
  /\ s[i].pc = "mvWalk" =>
       \E m \in Node : s[i].ids = {m} /\ Walking(s[i].node, s[i].dest, m)
  /\ s[i].pc = "mvUpdate" /\ s[i].dest \in rows =>
       s[i].dest \notin BelowIn(parent, s[i].node, LiveFolders)

TreeInv ==
  /\ Placed /\ Rooted
  /\ \A i \in Slot : PlaceSlot(i) /\ WalkSlot(i)

TreeApart ==
  /\ UndoApart /\ {{"create", "trash"}, {"move"}} \subseteq Apart
  /\ "nested" \notin Ops

\* What holds of the drive here: folders are complete, and have the children.
LEMMA FolderFacts ==
  ASSUME Base
  PROVE  /\ LiveRows \subseteq rows /\ LiveFolders \subseteq LiveRows
         /\ rows \subseteq Node /\ Root \notin Node
         /\ \A n \in Node : parent[n] \in Folders \cup {Root}
         /\ \A n \in Node : parent[n] \in LiveRows => parent[n] \in LiveFolders
         /\ \A n \in rows : parent[n] \in rows \cup {Root}
BY NodeAssumption DEF Base, TypeInv, RowsTyped, BirthInv, BirthData, LiveRows,
   LiveFolders, Node

LEMMA TreeInit == Init => TreeInv
<1> SUFFICES ASSUME Init PROVE TreeInv
  OBVIOUS
<1> DEFINE B == BelowIn(parent, Root, LiveFolders)
           S == {x \in Node \cup {Root} : x \notin Files => x \in B}
<1>1. /\ LiveRows = Old /\ LiveFolders = Old \cap Folders /\ Old \subseteq Node
      /\ \A n \in Node : parent[n] \in Folders \cup {Root}
      /\ \A n \in Old : parent[n] \in Old \cup {Root}
      /\ Old \subseteq BelowIn(parent, Root, Old)
  BY NodeAssumption, BelowIs DEF Init, LiveRows, LiveFolders
<1>2. Placed
  BY <1>1 DEF Placed
<1>3. Rooted
  <2>1. Root \in S
    BY BelowSelf
  <2>2. \A c \in Old : parent[c] \in S => c \in S
    BY <1>1, BelowDown, NodeAssumption DEF Node
  <2> HIDE DEF S
  <2>3. Old \subseteq S
    BY <1>1, <2>1, <2>2, BelowLeast
  <2> QED
    BY <1>1, <2>3, NodeAssumption DEF S, Rooted
<1> QED
  BY <1>2, <1>3 DEF Init, Idle, TreeInv, PlaceSlot, WalkSlot

\* A node that was created is not created again.
LEMMA BornStays ==
  ASSUME Base, [Next]_vars, NEW n \in Node, Born(n)
  PROVE  Born(n)' /\ (n \in rows' => n \in rows)
<1>0. TypeInv /\ BirthInv
  BY DEF Base
<1>1. ASSUME NEW i \in Slot, Handler(i) \/ Crash(i)
      PROVE  Born(n)' /\ (n \in rows' => n \in rows)
  <2>1. Proceeds(i) /\ KeepsLives(i)
    BY <1>0, <1>1, HandlerProceeds, BirthTables
  <2>2. client'[n] # "none" /\ (n \in rows' => n \in rows)
    BY <2>1 DEF KeepsLives, Born
  <2>3. \A k \in Slot : s'[k].op = "create" => s[k].op = "create" /\ s'[k].node = s[k].node
    BY <2>1 DEF Proceeds, Others
  <2> QED
    BY <2>2, <2>3 DEF Born
<1>2. ASSUME NEW i \in Slot, Begin(i)
      PROVE  Born(n)' /\ (n \in rows' => n \in rows)
  <2>1. Others(i) /\ Started(i) /\ rows' = rows
    BY <1>0, <1>2, BeginStarts, TreeAlone
  <2>2. client'[n] # "none"
    BY <1>0, <1>2 DEF Begin, StartEmpty, StartExpire, StartSweep, StartFinalize,
       StartRestore, StartPurge, StartTrash, StartCreate, StartMove, Born, TypeInv,
       RowsTyped
  <2>3. s'[i].op = "create" => s'[i].node # n
    BY <2>1 DEF Started, Born
  <2> QED
    BY <2>1, <2>2, <2>3 DEF Born, Others
<1>3. CASE Outside \/ UNCHANGED vars
  <2>1. rows' = rows /\ s' = s /\ client'[n] # "none"
    BY <1>0, <1>3 DEF Outside, vars, PutObject, Abandon, SetHold, Age, Born, TypeInv,
       RowsTyped
  <2> QED
    BY <2>1 DEF Born
<1> QED
  BY <1>1, <1>2, <1>3, StepCases

\* No request overlaps with one it is kept apart from.
LEMMA AloneWith ==
  ASSUME Base, NEW i \in Slot, s[i].op # "none", Others(i), s'[i].op = "none",
         NEW o, {s[i].op, o} \in Apart, o # "none"
  PROVE  \A j \in Slot : s'[j].op # o
BY DEF Base, BirthInv, KeptApart, Others

\* What a handler other than trash does to the destinations of requests.
LEMMA PlacesKeep ==
  ASSUME Base, UndoInv, TreeInv, NEW i \in Slot, Handler(i) \/ Crash(i), ~TrashMark(i)
  PROVE  /\ \A n \in Node : stamp'[n] = stamp[n] \/ stamp'[n] = Live
         /\ \A n \in Node : \/ parent'[n] = parent[n]
                            \/ parent'[n] = Root
                            \/ parent'[n] \in Node /\ stamp'[parent'[n]] = Live
<1>0. PcTyped(i) /\ SlotTyped(i) /\ PlaceSlot(i) /\ RowsTyped
  BY DEF Base, TypeInv, TreeInv
<1>1. TrashShrinks
  BY ShrinksUnlessTrash
<1>2. CASE CreateInsert(i)
  <2>1. s[i].op = "create" /\ LiveOrRoot(s[i].dest) /\ s[i].dest \in Folders \cup {Root}
    BY <1>0, <1>2 DEF CreateInsert, At, PcTyped, PcOf, PlaceSlot, SlotTyped
  <2> QED
    BY <1>0, <1>1, <1>2, <2>1 DEF CreateInsert, LiveOrRoot, RowsTyped, TrashShrinks, Node
<1>3. CASE MoveUpdate(i)
  <2>1. s[i].op = "move" /\ LiveOrRoot(s[i].dest) /\ s[i].dest \in Folders \cup {Root}
    BY <1>0, <1>3 DEF MoveUpdate, At, PcTyped, PcOf, PlaceSlot, SlotTyped
  <2> QED
    BY <1>0, <1>1, <1>3, <2>1 DEF MoveUpdate, LiveOrRoot, RowsTyped, TrashShrinks, Node
<1>4. CASE ~CreateInsert(i) /\ ~MoveUpdate(i)
  <2>1. parent' = parent
    BY <1>4, HandlerEffects DEF TablesSame, FinalizeInsertChunks, FinalizeFlip,
       TrashMark, RestoreMark, FinishDelete
  <2> QED
    BY <1>1, <2>1 DEF TrashShrinks
<1> QED
  BY <1>2, <1>3, <1>4

LEMMA PlaceSlots ==
  ASSUME Base, UndoInv, TreeInv, TreeApart, NEW i \in Slot, Handler(i) \/ Crash(i),
         [Next]_vars
  PROVE  \A j \in Slot : PlaceSlot(j)'
<1>0. TypeInv /\ Proceeds(i) /\ s[i].op # "none"
  BY HandlerProceeds, HandlerBusy DEF Base
<1>1. CASE TrashMark(i)
  <2>1. s[i].op = "trash" /\ s'[i].op = "none" /\ Others(i)
    BY <1>0, <1>1, ReturnSlot DEF TrashMark, At, TypeInv, PcTyped, PcOf
  <2>2. {"trash", "create"} \in Apart /\ {"trash", "restore"} \in Apart /\ {"trash", "move"} \in Apart
    <3>1. {"trash", "create"} = {"create", "trash"}
      OBVIOUS
    <3> QED
      BY <3>1 DEF TreeApart, UndoApart
  <2>3. \A j \in Slot : s'[j].op \notin {"create", "restore", "move"}
    BY <1>0, <2>1, <2>2, AloneWith
  <2> QED
    BY <2>3 DEF PlaceSlot
<1>2. CASE ~TrashMark(i)
  <2>1. /\ \A n \in Node : stamp'[n] = stamp[n] \/ stamp'[n] = Live
        /\ \A n \in Node : \/ parent'[n] = parent[n]
                           \/ parent'[n] = Root
                           \/ parent'[n] \in Node /\ stamp'[parent'[n]] = Live
    BY <1>2, PlacesKeep
  <2>2. ASSUME NEW j \in Slot
        PROVE  PlaceSlot(j)'
    <3>1. PICK n, d : n = s[j].node /\ d = s[j].dest
      OBVIOUS
    <3>2. PlaceSlot(j) /\ SlotTyped(j)
      BY <1>0 DEF TreeInv, TypeInv
    <3>3. s'[j].op \in {"create", "restore", "move"} =>
            /\ s'[j].op = s[j].op /\ s'[j].node = n /\ s'[j].dest = d
            /\ n \in Node
      BY <1>0, <3>1, <3>2 DEF Proceeds, Others, SlotTyped
    <3>4. ASSUME s'[j].op \in {"create", "move"}
          PROVE  /\ d \in Node \cup {Root}
                 /\ LiveOrRoot(d) => d = Root \/ stamp'[d] = Live
      BY <2>1, <3>1, <3>2, <3>3, <3>4 DEF SlotTyped, LiveOrRoot, Node
    <3>5. ASSUME s'[j].op = "restore"
          PROVE  parent'[n] = Root \/ stamp'[parent'[n]] = Live
      <4>1. LiveOrRoot(parent[n]) /\ parent[n] \in Node \cup {Root}
        BY <1>0, <3>1, <3>2, <3>3, <3>5 DEF PlaceSlot, TypeInv, RowsTyped, Node
      <4> QED
        BY <2>1, <3>3, <3>5, <4>1 DEF LiveOrRoot
    <3>6. ASSUME s'[j].op = "move"
          PROVE  d = Root \/ Born(d)'
      <4>1. d \in Node \cup {Root} /\ (d = Root \/ Born(d))
        BY <3>1, <3>2, <3>3, <3>4, <3>6 DEF PlaceSlot
      <4> QED
        BY <4>1, BornStays
    <3>7. ASSUME s'[j].op = "move", s'[j].pc \notin {"mvRow", "mvDest"}
          PROVE  LiveOrRoot(d)
      <4>1. CASE s[j].pc \notin {"mvRow", "mvDest"}
        BY <3>1, <3>2, <3>3, <3>7, <4>1 DEF PlaceSlot
      <4>2. CASE s[j].pc \in {"mvRow", "mvDest"}
        <5>1. j = i
          BY <1>0, <3>7, <4>2 DEF Proceeds, Others
        <5>2. MoveChecksRow(i) \/ MoveChecksDest(i)
          BY <1>0, <3>7, <4>2, <5>1, MoveGoes DEF MoveEndsWalk, MoveClimbs
        <5> QED
          BY <3>1, <3>7, <5>1, <5>2 DEF MoveChecksRow, MoveChecksDest, LiveOrRoot, Trashed
      <4> QED
        BY <4>1, <4>2
    <3>8. (s[j].op = "create" => LiveOrRoot(s[j].dest))'
      BY <3>1, <3>2, <3>3, <3>4 DEF PlaceSlot, LiveOrRoot
    <3>9. (s[j].op = "restore" => LiveOrRoot(parent[s[j].node]))'
      BY <3>3, <3>5 DEF LiveOrRoot
    <3>10. (s[j].op = "move" => s[j].dest = Root \/ Born(s[j].dest))'
      BY <3>3, <3>6 DEF Born
    <3>11. (s[j].op = "move" /\ s[j].pc \notin {"mvRow", "mvDest"} => LiveOrRoot(s[j].dest))'
      BY <3>3, <3>4, <3>7 DEF LiveOrRoot
    <3> QED
      BY <3>8, <3>9, <3>10, <3>11 DEF PlaceSlot
  <2> QED
    BY <2>2
<1> QED
  BY <1>1, <1>2

LEMMA WalkingGrows ==
  ASSUME NEW p, NEW q, NEW L, NEW M, L \subseteq M,
         \A c \in L : p[c] = q[c] /\ p[c] \notin M \ L, NEW n, NEW d \in L
  PROVE  /\ \A m \in L :
              /\ d \in BelowIn(p, m, L)
              /\ d \in BelowIn(p, n, L) => m \in BelowIn(p, n, L)
              => /\ d \in BelowIn(q, m, M)
                 /\ d \in BelowIn(q, n, M) => m \in BelowIn(q, n, M)
         /\ d \notin BelowIn(p, n, L) => d \notin BelowIn(q, n, M)
<1>1. \A m : BelowIn(p, m, L) \subseteq BelowIn(q, m, M)
  BY BelowMono
<1>2. d \in BelowIn(q, n, M) => d \in BelowIn(p, n, L)
  BY BelowGrows
<1> QED
  BY <1>1, <1>2

LEMMA WalkingLoses ==
  ASSUME NEW p, NEW L, NEW T, \A c \in L : p[c] \in T => c \in T, NEW n, NEW d \in L \ T
  PROVE  /\ \A m \in L :
              /\ d \in BelowIn(p, m, L)
              /\ d \in BelowIn(p, n, L) => m \in BelowIn(p, n, L)
              => /\ m \notin T /\ d \in BelowIn(p, m, L \ T)
                 /\ d \in BelowIn(p, n, L \ T) => m \in BelowIn(p, n, L \ T)
         /\ d \notin BelowIn(p, n, L) => d \notin BelowIn(p, n, L \ T)
<1>1. \A m : BelowIn(p, m, L) \subseteq BelowIn(p, m, L \ T) \cup T
  BY BelowLoses
<1>2. BelowIn(p, n, L \ T) \subseteq BelowIn(p, n, L)
  BY BelowMono
<1>3. \A m \in T : BelowIn(p, m, L) \subseteq T
  BY BelowLeast
<1> QED
  BY <1>1, <1>2, <1>3

\* A move that some other request's step leaves where it is.
LEMMA WalkStays ==
  ASSUME Base, TreeInv, TypeInv', NEW j \in Slot, s'[j] = s[j],
         s[j].pc \in {"mvWalk", "mvUpdate"}, s[j].dest \in rows' => s[j].dest \in rows,
         \A n \in Node, d \in LiveFolders : d \in rows' =>
           /\ \A m \in LiveFolders :
                /\ d \in BelowIn(parent, m, LiveFolders)
                /\ d \in BelowIn(parent, n, LiveFolders) => m \in BelowIn(parent, n, LiveFolders)
                => /\ m \in LiveFolders' /\ d \in BelowIn(parent', m, LiveFolders')
                   /\ d \in BelowIn(parent', n, LiveFolders') => m \in BelowIn(parent', n, LiveFolders')
           /\ d \notin BelowIn(parent, n, LiveFolders) => d \notin BelowIn(parent', n, LiveFolders')
  PROVE  WalkSlot(j)'
<1>1. PICK n, d : n = s[j].node /\ d = s[j].dest
  OBVIOUS
<1>2. /\ s[j].op = "move" /\ n \in Node /\ d \in Folders \cup {Root}
      /\ PlaceSlot(j) /\ WalkSlot(j)
  BY <1>1 DEF Base, TypeInv, PcTyped, PcOf, SlotTyped, TreeInv
<1>3. d \in rows' => d \in rows /\ d \in LiveFolders
  <2>1. Root \notin rows
    BY FolderFacts
  <2> QED
    BY <1>1, <1>2, <2>1 DEF PlaceSlot, LiveOrRoot, LiveFolders, LiveRows
<1>4. CASE s[j].pc = "mvWalk"
  <2>1. PICK m \in Node : s[j].ids = {m} /\ Walking(n, d, m)
    BY <1>1, <1>2, <1>4 DEF WalkSlot
  <2>2. Walking(n, d, m)'
    BY <1>2, <1>3, <2>1 DEF Walking
  <2> QED
    BY <1>1, <1>4, <2>1, <2>2 DEF WalkSlot, Walking
<1>5. CASE s[j].pc = "mvUpdate"
  <2>1. d \in rows' => d \notin BelowIn(parent', n, LiveFolders')
    BY <1>1, <1>2, <1>3, <1>5 DEF WalkSlot
  <2> QED
    BY <1>1, <1>5, <2>1 DEF WalkSlot
<1> QED
  BY <1>4, <1>5

\* How the live part of the tree changes: it grows by nodes above which no live one
\* lies, or loses nodes with all that is live below them.
TreeGrows ==
  /\ LiveRows \subseteq LiveRows'
  /\ \A c \in LiveRows : parent'[c] = parent[c] /\ parent[c] \notin LiveRows' \ LiveRows
  /\ \A c \in LiveRows' \ LiveRows : parent'[c] \in LiveRows' \cup {Root}
  /\ LiveFolders' \subseteq BelowIn(parent', Root, LiveFolders')

TreeLoses(T) ==
  /\ parent' = parent /\ LiveRows' = LiveRows \ T
  /\ \A c \in LiveRows : parent[c] \in T => c \in T

LEMMA GrowsPlaced ==
  ASSUME Base, TreeInv, TreeGrows
  PROVE  Placed' /\ Rooted'
BY DEF TreeInv, TreeGrows, Placed, Rooted

LEMMA LosesPlaced ==
  ASSUME Base, TreeInv, NEW T, TreeLoses(T)
  PROVE  Placed' /\ Rooted'
<1>1. Placed'
  BY DEF TreeInv, TreeLoses, Placed
<1>2. LiveFolders' = LiveFolders \ T /\ \A c \in LiveFolders : parent[c] \in T => c \in T
  BY DEF TreeLoses, LiveFolders
<1>3. LiveFolders \subseteq BelowIn(parent, Root, LiveFolders \ T) \cup T
  BY <1>2, BelowLoses DEF TreeInv, Rooted
<1> QED
  BY <1>1, <1>2, <1>3 DEF TreeLoses, Rooted

\* A new node goes below a live one.
LEMMA CreateGrows ==
  ASSUME Base, TreeInv, NEW i \in Slot, CreateInsert(i), rows' # rows
  PROVE  TreeGrows
<1>0. PcTyped(i) /\ SlotTyped(i) /\ BirthSlot(i) /\ PlaceSlot(i) /\ RowsTyped
  BY DEF Base, TypeInv, BirthInv, TreeInv
<1>1. PICK n, d : n = s[i].node /\ d = s[i].dest
  OBVIOUS
<1>2. /\ s[i].op = "create" /\ n \in Node /\ n \notin rows /\ stamp[n] = Live
      /\ d \in Folders \cup {Root} /\ LiveOrRoot(d)
  BY <1>0, <1>1 DEF CreateInsert, At, PcTyped, PcOf, SlotTyped, BirthSlot, PlaceSlot, Fresh
<1>3. /\ d \in rows \cup {Root} /\ rows' = rows \cup {n} /\ stamp' = stamp
      /\ parent' = [parent EXCEPT ![n] = d]
  BY <1>1 DEF CreateInsert
<1>4. LiveRows' = LiveRows \cup {n} /\ n \notin LiveRows
  BY <1>2, <1>3 DEF LiveRows
<1>5. parent'[n] = d /\ \A c \in LiveRows : parent'[c] = parent[c]
  BY <1>0, <1>2, <1>3, <1>4, FolderFacts DEF RowsTyped
<1>6. d \in LiveFolders \cup {Root}
  BY <1>2, <1>3, FolderFacts DEF LiveOrRoot, LiveRows, LiveFolders
<1>7. \A c \in LiveRows : parent[c] # n
  BY <1>2, FolderFacts
<1>8. LiveFolders' \subseteq BelowIn(parent', Root, LiveFolders')
  <2> DEFINE B == BelowIn(parent', Root, LiveFolders')
  <2>1. LiveFolders \subseteq LiveFolders' /\ LiveFolders' \subseteq LiveFolders \cup {n}
    BY <1>4 DEF LiveFolders
  <2>2. BelowIn(parent, Root, LiveFolders) \subseteq B
    BY <1>5, <2>1, FolderFacts, BelowMono
  <2>3. LiveFolders \subseteq B /\ Root \in B
    BY <2>2, BelowSelf DEF TreeInv, Rooted
  <2>4. n \in LiveFolders' => n \in B
    BY <1>5, <1>6, <2>3, BelowDown
  <2> QED
    BY <2>1, <2>3, <2>4
<1> QED
  BY <1>4, <1>5, <1>6, <1>7, <1>8 DEF TreeGrows, LiveFolders

\* What comes out of the trash hangs on its top, and that on a live folder.
LEMMA RestoreGrows ==
  ASSUME Base, UndoInv, TreeInv, NEW i \in Slot, RestoreMark(i)
  PROVE  TreeGrows
<1> DEFINE R == RestoreSet(s[i].node)
<1>0. PcTyped(i) /\ SlotTyped(i) /\ PlaceSlot(i) /\ RowsTyped /\ TypeInv
  BY DEF Base, TypeInv, TreeInv
<1>1. PICK n : n = s[i].node
  OBVIOUS
<1>2. PICK k : k = stamp[n]
  OBVIOUS
<1>3. /\ s[i].op = "restore" /\ n \in Node /\ LiveOrRoot(parent[n])
      /\ rows' = rows /\ parent' = parent
      /\ stamp' = [m \in Node |-> IF m \in R THEN Live ELSE stamp[m]]
  BY <1>0, <1>1 DEF RestoreMark, At, PcTyped, PcOf, SlotTyped, PlaceSlot
<1>4. R \subseteq {m \in rows : stamp[m] # Live}
  BY MarkedSets
<1>5. LiveRows' = LiveRows \cup R /\ LiveRows \cap R = {}
  BY <1>0, <1>3, <1>4 DEF LiveRows, RowsTyped
<1>6. \A c \in LiveRows : parent[c] \notin LiveRows' \ LiveRows
  BY <1>4, <1>5, FolderFacts DEF TreeInv, Placed
<1>7. CASE R = {}
  <2>1. LiveRows' = LiveRows /\ LiveFolders' = LiveFolders
    BY <1>5, <1>7 DEF LiveFolders
  <2> QED
    BY <1>3, <2>1 DEF TreeGrows, TreeInv, Rooted, Placed
<1>8. CASE R # {}
  <2> DEFINE G == Group(k)
             B == BelowIn(parent, Root, LiveFolders')
             S == {m \in R : m \in Folders => m \in B}
  <2>1. n \in Trashed
    BY <1>1, <1>8 DEF RestoreSet
  <2>2. R = G
    BY <1>0, <1>1, <1>2, <1>3, <2>1, RestoreWhole
  <2>3. R = BelowIn(parent, n, G)
    <3>1. {m \in Trashed : stamp[m] = stamp[n]} = G
      BY <1>2, <2>1 DEF Trashed, Group
    <3> QED
      BY <1>1, <2>1, <3>1, BelowIs DEF RestoreSet
  <2>4. n \in R /\ parent[n] \in LiveFolders \cup {Root}
    <3>1. n \in rows
      BY <2>1 DEF Trashed
    <3> QED
      BY <1>3, <2>3, <3>1, BelowSelf, FolderFacts DEF LiveOrRoot, LiveRows
  <2>5. LiveFolders \subseteq LiveFolders' /\ LiveFolders' = LiveFolders \cup (R \cap Folders)
    BY <1>5 DEF LiveFolders
  <2>6. LiveFolders \subseteq B /\ Root \in B
    <3>1. BelowIn(parent, Root, LiveFolders) \subseteq B
      BY <2>5, BelowMono
    <3> QED
      BY <3>1, BelowSelf DEF TreeInv, Rooted
  <2>7. \A c \in LiveFolders' : parent[c] \in B => c \in B
    BY BelowDown
  <2>8. n \in S
    BY <2>4, <2>5, <2>6, <2>7
  <2>9. \A c \in G : parent[c] \in S => c \in S
    <3> SUFFICES ASSUME NEW c \in G, parent[c] \in S PROVE c \in S
      OBVIOUS
    <3>1. c \in R /\ c \in Node /\ parent[c] \in Folders
      BY <2>2, <1>4, FolderFacts
    <3> QED
      BY <2>5, <2>7, <3>1
  <2>10. \A c \in R : parent[c] \in LiveRows' \cup {Root}
    <3> SUFFICES ASSUME NEW c \in R PROVE parent[c] \in LiveRows' \cup {Root}
      OBVIOUS
    <3>1. CASE c = n
      BY <1>5, <2>4, <3>1, FolderFacts
    <3>2. CASE c # n
      <4>1. parent[c] \in BelowIn(parent, n, G)
        BY <2>3, <3>2, BelowUp
      <4> QED
        BY <1>5, <2>3, <4>1
    <3> QED
      BY <3>1, <3>2
  <2> HIDE DEF S, G, B
  <2>11. R \subseteq S
    BY <2>3, <2>8, <2>9, BelowLeast
  <2>12. LiveFolders' \subseteq B
    BY <2>5, <2>6, <2>11 DEF S
  <2> QED
    BY <1>3, <1>5, <1>6, <2>10, <2>12 DEF TreeGrows, B
<1> QED
  BY <1>7, <1>8

\* What is trashed goes with all that is live below it.
LEMMA TrashLoses ==
  ASSUME Base, NEW i \in Slot, TrashMark(i)
  PROVE  \E T : TreeLoses(T)
<1> DEFINE T == TrashSet(s[i].node)
<1>0. RowsTyped /\ clock \in Nat
  BY BoundAssumption DEF Base, TypeInv, RowsTyped
<1>1. rows' = rows /\ parent' = parent
  BY DEF TrashMark
<1>2. CASE stamp' = stamp
  <2>1. TreeLoses({})
    BY <1>1, <1>2 DEF TreeLoses, LiveRows
  <2> QED
    BY <2>1
<1>3. CASE stamp' # stamp
  <2>1. T # {} /\ stamp' = [n \in Node |-> IF n \in T THEN clock + 1 ELSE stamp[n]]
    BY <1>3 DEF TrashMark
  <2>2. T \subseteq Node
    BY MarkedSets, FolderFacts
  <2>3. LiveRows' = LiveRows \ T
    BY <1>0, <1>1, <2>1, <2>2 DEF LiveRows, RowsTyped, Live
  <2>4. s[i].node \in rows \ Trashed /\ T = BelowIn(parent, s[i].node, rows \ Trashed)
    BY <2>1, BelowIs DEF TrashSet
  <2>5. \A c \in rows \ Trashed : parent[c] \in T => c \in T
    BY <2>4, BelowDown
  <2>6. LiveRows = rows \ Trashed
    BY DEF LiveRows, Trashed
  <2> QED
    BY <1>1, <2>3, <2>5, <2>6 DEF TreeLoses
<1> QED
  BY <1>2, <1>3

LEMMA DeleteLoses ==
  ASSUME Base, NEW i \in Slot, FinishDelete(i)
  PROVE  rows' \subseteq rows /\ \E T : TreeLoses(T)
<1>1. parent' = parent /\ stamp' = stamp /\ DeleteRows(Doomed(i) \cap rows)
  BY DEF FinishDelete
<1>2. CASE rows' = rows
  <2>1. TreeLoses({})
    BY <1>1, <1>2 DEF TreeLoses, LiveRows
  <2> QED
    BY <1>2, <2>1
<1>3. CASE rows' # rows
  <2>1. PICK T : rows' = rows \ T /\ \A n \in rows \ T : parent[n] \notin T
    BY <1>1, <1>3 DEF DeleteRows
  <2>2. LiveRows' = LiveRows \ T /\ LiveRows \subseteq rows
    BY <1>1, <2>1 DEF LiveRows
  <2>3. TreeLoses(T)
    BY <1>1, <2>1, <2>2 DEF TreeLoses
  <2> QED
    BY <2>1, <2>3
<1> QED
  BY <1>2, <1>3
\* A move hangs its node, with all that is live below it, on a live node that is
\* not below it.
LEMMA MoveRoots ==
  ASSUME Base, UndoInv, TreeInv, NEW i \in Slot, MoveUpdate(i)
  PROVE  Placed' /\ Rooted'
<1>0. PcTyped(i) /\ SlotTyped(i) /\ PlaceSlot(i) /\ WalkSlot(i) /\ UndoSlot(i) /\ RowsTyped
  BY DEF Base, TypeInv, TreeInv, UndoInv
<1>1. PICK n, d : n = s[i].node /\ d = s[i].dest
  OBVIOUS
<1>2. /\ s[i].op = "move" /\ s[i].pc = "mvUpdate" /\ n \in Node /\ stamp[n] = Live
      /\ d \in Folders \cup {Root} /\ LiveOrRoot(d)
      /\ d \in rows => d \notin BelowIn(parent, n, LiveFolders)
      /\ rows' = rows /\ stamp' = stamp
  BY <1>0, <1>1 DEF MoveUpdate, At, PcTyped, PcOf, SlotTyped, PlaceSlot, UndoSlot, WalkSlot
<1>3. LiveRows' = LiveRows /\ LiveFolders' = LiveFolders
  BY <1>2 DEF LiveRows, LiveFolders
<1>4. CASE parent' = parent
  BY <1>3, <1>4 DEF TreeInv, Placed, Rooted
<1>5. CASE parent' # parent
  <2> DEFINE L == LiveFolders
             A == BelowIn(parent, n, L)
             B == BelowIn(parent', Root, L)
             S == A \cup B
             V == {m \in A : m \in L => m \in B}
  <2>1. n \in rows /\ d \in rows \cup {Root} /\ parent' = [parent EXCEPT ![n] = d]
    BY <1>1, <1>5 DEF MoveUpdate
  <2>2. n \in LiveRows /\ d \in L \cup {Root}
    BY <1>2, <2>1, FolderFacts DEF LiveOrRoot, LiveRows, LiveFolders
  <2>3. parent'[n] = d /\ \A c \in Node : c # n => parent'[c] = parent[c]
    BY <1>0, <1>2, <2>1 DEF RowsTyped
  <2>4. L \subseteq Node
    BY FolderFacts
  <2>5. Placed'
    BY <1>3, <2>2, <2>3, FolderFacts DEF TreeInv, Placed
  <2>6. n \in A /\ A \subseteq L \cup {n} /\ Root \in B
    BY BelowSelf
  <2>7. \A c \in L : (parent[c] \in A => c \in A) /\ (parent'[c] \in B => c \in B)
    BY BelowDown
  <2>8. d \notin A
    BY <1>2, <2>2, <2>4, <2>6, FolderFacts
  <2> HIDE DEF A, B
  <2>9. L \subseteq S
    <3>1. Root \in S /\ \A c \in L : parent[c] \in S => c \in S
      BY <2>3, <2>4, <2>6, <2>7
    <3> HIDE DEF S
    <3>2. BelowIn(parent, Root, L) \subseteq S
      BY <3>1, BelowLeast
    <3> QED
      BY <3>2 DEF TreeInv, Rooted
  <2>10. d \in B
    BY <2>2, <2>6, <2>8, <2>9
  <2>11. A \subseteq V
    <3>1. n \in V
      BY <2>3, <2>6, <2>7, <2>10
    <3>2. \A c \in L : parent[c] \in V => c \in V
      <4> SUFFICES ASSUME NEW c \in L, parent[c] \in V PROVE c \in V
        OBVIOUS
      <4>1. c \in A
        BY <2>7
      <4>2. parent[c] \in L
        <5>1. parent[c] \in Node /\ parent[c] \in Folders
          BY <1>2, <2>4, <2>6, FolderFacts
        <5> QED
          BY <2>2, <2>6, <5>1 DEF LiveFolders
      <4>3. c \in B
        BY <2>3, <2>4, <2>7, <2>10, <4>2
      <4> QED
        BY <4>1, <4>3
    <3> HIDE DEF V
    <3> QED
      BY <3>1, <3>2, BelowLeast DEF A
  <2>12. L \subseteq B
    BY <2>9, <2>11
  <2> QED
    BY <1>3, <2>5, <2>12 DEF Rooted, B
<1> QED
  BY <1>4, <1>5

LEMMA TreePlaces ==
  ASSUME Base, UndoInv, TreeInv, NEW i \in Slot, Handler(i) \/ Crash(i)
  PROVE  Placed' /\ Rooted'
<1>1. CASE UNCHANGED <<rows, parent, stamp>>
  BY <1>1 DEF TreeInv, Placed, Rooted, LiveRows, LiveFolders
<1>2. CASE CreateInsert(i) /\ rows' # rows
  BY <1>2, CreateGrows, GrowsPlaced
<1>3. CASE RestoreMark(i)
  BY <1>3, RestoreGrows, GrowsPlaced
<1>4. CASE TrashMark(i)
  BY <1>4, TrashLoses, LosesPlaced
<1>5. CASE FinishDelete(i)
  BY <1>5, DeleteLoses, LosesPlaced
<1>6. CASE MoveUpdate(i)
  BY <1>6, MoveRoots
<1>7. CASE ~UNCHANGED <<rows, parent, stamp>> /\ ~(CreateInsert(i) /\ rows' # rows)
  <2>1. \/ RestoreMark(i) \/ TrashMark(i) \/ FinishDelete(i) \/ MoveUpdate(i)
        \/ CreateInsert(i)
    BY <1>7, HandlerEffects DEF TablesSame, FinalizeInsertChunks, FinalizeFlip
  <2>2. CASE CreateInsert(i)
    <3>1. s[i].node \notin rows
      BY <2>2 DEF CreateInsert, At, Base, TypeInv, PcTyped, PcOf, BirthInv, BirthSlot, Fresh
    <3> QED
      BY <1>7, <2>2, <3>1 DEF CreateInsert
  <2> QED
    BY <1>3, <1>4, <1>5, <1>6, <2>1, <2>2
<1> QED
  BY <1>1, <1>2, <1>7

\* A move that goes on keeps what its walk has established.
LEMMA WalkGoes ==
  ASSUME Base, UndoInv, TreeInv, NEW i \in Slot, Handler(i) \/ Crash(i), s'[i].op = "move"
  PROVE  WalkSlot(i)'
<1>1. PICK n, d : n = s[i].node /\ d = s[i].dest
  OBVIOUS
<1>2. /\ s'[i].node = n /\ s'[i].dest = d /\ UNCHANGED <<rows, parent, stamp>>
      /\ MoveChecksRow(i) \/ MoveChecksDest(i) \/ MoveEndsWalk(i) \/ MoveClimbs(i)
      /\ n \in Node /\ d \in Folders \cup {Root} /\ PlaceSlot(i) /\ WalkSlot(i)
      /\ s[i].op = "move"
  BY <1>1, MoveGoes DEF Base, TypeInv, SlotTyped, TreeInv
<1> DEFINE L == LiveFolders
           A == BelowIn(parent, n, L)
<1>3. LiveFolders' = L /\ LiveRows' = LiveRows
  BY <1>2 DEF LiveFolders, LiveRows
<1>4. L \subseteq Node /\ L \subseteq rows /\ Root \notin Node
  BY FolderFacts
<1>5. CASE MoveChecksRow(i)
  BY <1>1, <1>2, <1>4, <1>5, FolderFacts DEF MoveChecksRow, WalkSlot
<1>6. CASE MoveChecksDest(i)
  <2>1. d \in L /\ n # d
    BY <1>1, <1>2, <1>4, <1>6, FolderFacts DEF MoveChecksDest, Trashed, LiveFolders, LiveRows
  <2>2. CASE n \in Folders
    <3>1. s'[i].pc = "mvWalk" /\ s'[i].ids = {d}
      BY <1>1, <1>6, <2>2 DEF MoveChecksDest
    <3>2. Walking(n, d, d)'
      BY <1>3, <2>1, BelowSelf DEF Walking
    <3> QED
      BY <1>2, <1>4, <2>1, <3>1, <3>2 DEF WalkSlot, Walking
  <2>3. CASE n \notin Folders
    <3>1. s'[i].pc = "mvUpdate"
      BY <1>1, <1>6, <2>3 DEF MoveChecksDest
    <3>2. \A c \in L : parent[c] # n
      BY <1>2, <1>4, <2>3, FolderFacts
    <3>3. A \subseteq {n}
      BY <3>2, BelowLeast
    <3> QED
      BY <1>2, <1>3, <2>1, <3>1, <3>3 DEF WalkSlot
  <2> QED
    BY <2>2, <2>3
<1>7. CASE MoveEndsWalk(i)
  <2>1. PICK m \in Node : s[i].ids = {m} /\ Walking(n, d, m)
    BY <1>1, <1>2, <1>7 DEF WalkSlot, MoveEndsWalk
  <2>2. s'[i].pc = "mvUpdate" /\ (m \notin rows \/ parent[m] = Root)
    BY <1>7, <2>1 DEF MoveEndsWalk
  <2>3. ASSUME d \in rows, d \in A PROVE FALSE
    <3>1. m \in L /\ m \in A /\ m # n
      BY <2>1, <2>3 DEF Walking
    <3>2. parent[m] \in A
      BY <3>1, BelowUp
    <3> QED
      BY <1>2, <1>4, <2>2, <3>1, <3>2, BelowSelf
  <2> QED
    BY <1>2, <1>3, <2>2, <2>3 DEF WalkSlot
<1>8. CASE MoveClimbs(i)
  <2>1. PICK m \in Node : s[i].ids = {m} /\ Walking(n, d, m)
    BY <1>1, <1>2, <1>8 DEF WalkSlot, MoveClimbs
  <2>2. /\ s'[i].pc = "mvWalk" /\ s'[i].ids = {parent[m]}
        /\ m \in rows /\ parent[m] # n /\ parent[m] # Root
    BY <1>1, <1>8, <2>1 DEF MoveClimbs
  <2>3. PICK u : u = parent[m]
    OBVIOUS
  <2>4. u \in Node /\ u # n
    BY <2>2, <2>3, FolderFacts DEF Node
  <2>5. ASSUME d \in rows
        PROVE  u \in L /\ d \in BelowIn(parent, u, L) /\ (d \in A => u \in A)
    <3>1. m \in L /\ d \in BelowIn(parent, m, L) /\ (d \in A => m \in A)
      BY <2>1, <2>5 DEF Walking
    <3>2. u \in L
      BY <2>2, <2>3, <3>1, FolderFacts DEF TreeInv, Placed
    <3>3. m \in BelowIn(parent, u, L)
      BY <2>3, <3>1, BelowSelf, BelowDown
    <3>4. m \in A => u \in A
      BY <2>1, <2>3, BelowUp DEF Walking
    <3> QED
      BY <3>1, <3>2, <3>3, <3>4, BelowBelow
  <2>6. Walking(n, d, u)'
    BY <1>2, <1>3, <2>4, <2>5 DEF Walking
  <2> QED
    BY <1>2, <2>2, <2>3, <2>4, <2>6 DEF WalkSlot, Walking
<1> QED
  BY <1>2, <1>5, <1>6, <1>7, <1>8

LEMMA WalkSlots ==
  ASSUME Base, UndoInv, TreeInv, TreeApart, NEW i \in Slot, Handler(i) \/ Crash(i),
         [Next]_vars
  PROVE  \A j \in Slot : WalkSlot(j)'
<1>0. /\ TypeInv /\ TypeInv' /\ Proceeds(i) /\ s[i].op # "none" /\ PcTyped(i)
  BY HandlerProceeds, HandlerBusy, TypeHandler, TypeCrash DEF Base, TypeInv
<1>1. ASSUME NEW j \in Slot, s'[j].op # "move"
      PROVE  WalkSlot(j)'
  BY <1>0, <1>1 DEF TypeInv, PcTyped, PcOf, WalkSlot
<1>2. WalkSlot(i)'
  BY <1>1, WalkGoes
<1>3. ASSUME NEW j \in Slot, j # i
      PROVE  WalkSlot(j)'
  <2> SUFFICES ASSUME s'[j].op = "move" PROVE WalkSlot(j)'
    BY <1>1
  <2>0. s'[j] = s[j] /\ PlaceSlot(j) /\ SlotTyped(j)
    BY <1>0, <1>3 DEF Proceeds, Others, TreeInv, TypeInv
  <2>1. CASE s[j].pc \notin {"mvWalk", "mvUpdate"}
    BY <2>0, <2>1 DEF WalkSlot
  <2>2. CASE s[j].pc \in {"mvWalk", "mvUpdate"}
    <3>1. s[j].dest \in rows' => s[j].dest \in rows
      <4>1. s[j].dest = Root \/ (s[j].dest \in Node /\ Born(s[j].dest))
        BY <2>0 DEF PlaceSlot, SlotTyped, Node
      <4>2. Root \notin rows'
        BY <1>0, NodeAssumption DEF TypeInv, RowsTyped
      <4>3. PICK d : d = s[j].dest
        OBVIOUS
      <4>4. d \in Node /\ Born(d) => (d \in rows' => d \in rows)
        BY BornStays
      <4> QED
        BY <4>1, <4>2, <4>3, <4>4
    <3>2. CASE UNCHANGED <<rows, parent, stamp>>
      BY <2>0, <3>2 DEF TreeInv, WalkSlot, Walking, LiveFolders, LiveRows
    <3>3. CASE TreeGrows
      <4>1. /\ LiveFolders \subseteq LiveFolders'
            /\ \A c \in LiveFolders : parent[c] = parent'[c] /\ parent[c] \notin LiveFolders' \ LiveFolders
        BY <3>3 DEF TreeGrows, LiveFolders
      <4>2. \A n \in Node, d \in LiveFolders : d \in rows' =>
           /\ \A m \in LiveFolders :
                /\ d \in BelowIn(parent, m, LiveFolders)
                /\ d \in BelowIn(parent, n, LiveFolders) => m \in BelowIn(parent, n, LiveFolders)
                => /\ m \in LiveFolders' /\ d \in BelowIn(parent', m, LiveFolders')
                   /\ d \in BelowIn(parent', n, LiveFolders') => m \in BelowIn(parent', n, LiveFolders')
           /\ d \notin BelowIn(parent, n, LiveFolders) => d \notin BelowIn(parent', n, LiveFolders')
        <5>1. PICK p, q, L, M : p = parent /\ q = parent' /\ L = LiveFolders /\ M = LiveFolders'
          OBVIOUS
        <5>2. L \subseteq M /\ \A c \in L : p[c] = q[c] /\ p[c] \notin M \ L
          BY <4>1, <5>1
        <5>3. \A n : \A d \in L :
                /\ \A m \in L :
                     /\ d \in BelowIn(p, m, L)
                     /\ d \in BelowIn(p, n, L) => m \in BelowIn(p, n, L)
                     => /\ d \in BelowIn(q, m, M)
                        /\ d \in BelowIn(q, n, M) => m \in BelowIn(q, n, M)
                /\ d \notin BelowIn(p, n, L) => d \notin BelowIn(q, n, M)
          BY <5>2, WalkingGrows
        <5> QED
          BY <5>1, <5>2, <5>3
      <4> QED
        BY <1>0, <2>0, <2>2, <3>1, <4>2, WalkStays
    <3>4. ASSUME NEW T, TreeLoses(T), stamp' = stamp
          PROVE  WalkSlot(j)'
      <4>1. /\ LiveFolders' = LiveFolders \ T /\ parent' = parent
            /\ \A c \in LiveFolders : parent[c] \in T => c \in T
        BY <3>4 DEF TreeLoses, LiveFolders
      <4>2. \A d \in LiveFolders : d \in rows' => d \notin T
        BY <3>4 DEF TreeLoses, LiveRows, LiveFolders
      <4>3. \A n \in Node, d \in LiveFolders : d \in rows' =>
           /\ \A m \in LiveFolders :
                /\ d \in BelowIn(parent, m, LiveFolders)
                /\ d \in BelowIn(parent, n, LiveFolders) => m \in BelowIn(parent, n, LiveFolders)
                => /\ m \in LiveFolders' /\ d \in BelowIn(parent', m, LiveFolders')
                   /\ d \in BelowIn(parent', n, LiveFolders') => m \in BelowIn(parent', n, LiveFolders')
           /\ d \notin BelowIn(parent, n, LiveFolders) => d \notin BelowIn(parent', n, LiveFolders')
        BY <4>1, <4>2, WalkingLoses
      <4> QED
        BY <1>0, <2>0, <2>2, <3>1, <4>3, WalkStays
    <3>5. CASE TrashMark(i) \/ MoveUpdate(i)
      <4>1. s[i].op \in {"trash", "move"} /\ s'[i].op = "none" /\ Others(i)
        BY <1>0, <3>5, ReturnSlot DEF TrashMark, MoveUpdate, At, TypeInv, PcTyped, PcOf
      <4>2. {s[i].op, "move"} \in Apart
        BY <4>1 DEF TreeApart, UndoApart
      <4>3. \A k \in Slot : s'[k].op # "move"
        BY <1>0, <4>1, <4>2, AloneWith
      <4> QED
        BY <4>3
    <3>6. CASE FinishDelete(i)
      <4>1. stamp' = stamp /\ \E T : TreeLoses(T)
        BY <3>6, DeleteLoses DEF FinishDelete
      <4> QED
        BY <3>4, <4>1
    <3>7. CASE CreateInsert(i) /\ rows' = rows
      <4>1. s[i].node \notin rows
        BY <1>0, <3>7 DEF CreateInsert, At, Base, PcTyped, PcOf, BirthInv, BirthSlot, Fresh
      <4> QED
        BY <3>2, <3>7, <4>1 DEF CreateInsert
    <3>8. CASE TablesSame \/ FinalizeInsertChunks(i) \/ FinalizeFlip(i)
      BY <3>2, <3>8 DEF TablesSame, FinalizeInsertChunks, FinalizeFlip
    <3> QED
      BY <3>3, <3>5, <3>6, <3>7, <3>8, CreateGrows, RestoreGrows, HandlerEffects
  <2> QED
    BY <2>1, <2>2
<1> QED
  BY <1>2, <1>3

LEMMA TreeBegin ==
  ASSUME Base, TreeInv, TreeApart, NEW i \in Slot, Begin(i), [Next]_vars
  PROVE  TreeInv'
<1>0. TypeInv /\ Others(i) /\ Started(i) /\ UNCHANGED <<rows, parent, stamp>>
  BY BeginStarts, TreeAlone DEF Base
<1>1. LiveRows' = LiveRows /\ LiveFolders' = LiveFolders /\ Placed' /\ Rooted'
  BY <1>0 DEF TreeInv, Placed, Rooted, LiveRows, LiveFolders
<1>2. ASSUME NEW j \in Slot, j # i
      PROVE  PlaceSlot(j)' /\ WalkSlot(j)'
  <2>1. s'[j] = s[j] /\ PlaceSlot(j) /\ WalkSlot(j) /\ SlotTyped(j)
    BY <1>0, <1>2 DEF Others, TreeInv, TypeInv
  <2>2. WalkSlot(j)'
    BY <1>0, <1>1, <2>1 DEF WalkSlot, Walking
  <2>3. PICK d : d = s[j].dest
    OBVIOUS
  <2>4. s[j].op = "move" => d = Root \/ Born(d)'
    <3>1. s[j].op = "move" => d = Root \/ (d \in Node /\ Born(d))
      BY <2>1, <2>3 DEF PlaceSlot, SlotTyped, Node
    <3> QED
      BY <3>1, BornStays
  <2>5. (s[j].op = "move" => s[j].dest = Root \/ Born(s[j].dest))'
    BY <2>1, <2>3, <2>4 DEF Born
  <2> QED
    BY <1>0, <2>1, <2>2, <2>5 DEF PlaceSlot, LiveOrRoot
<1>3. PlaceSlot(i)' /\ WalkSlot(i)'
  <2>1. PICK n, d : n = s'[i].node /\ d = s'[i].dest
    OBVIOUS
  <2>2. s'[i].op = "create" => d = Root \/ stamp[d] = Live
    BY <1>0, <2>1, ShownSets DEF Started
  <2>3. s'[i].op = "restore" => parent[n] = Root \/ stamp[parent[n]] = Live
    <3>1. ASSUME s'[i].op = "restore"
          PROVE  n \in rows /\ parent[n] \notin Trashed
      BY <1>0, <2>1, <3>1, ShownSets DEF Started, TreeApart
    <3> QED
      BY <3>1, FolderFacts DEF Trashed
  <2>4. s'[i].op = "move" => d = Root \/ Born(d)'
    <3>1. s'[i].op = "move" => d = Root \/ (d \in Node /\ d \in rows)
      BY <1>0, <2>1, ShownSets DEF Started
    <3> QED
      BY <3>1, RowsAreBorn, BornStays DEF Base
  <2>5. s'[i].pc \notin {"mvWalk", "mvUpdate"} /\ (s'[i].op = "move" => s'[i].pc = "mvRow")
    BY <1>0 DEF Started
  <2>6. (s[i].op = "create" => LiveOrRoot(s[i].dest))'
    BY <1>0, <2>1, <2>2 DEF LiveOrRoot
  <2>7. (s[i].op = "restore" => LiveOrRoot(parent[s[i].node]))'
    BY <1>0, <2>1, <2>3 DEF LiveOrRoot
  <2>8. (s[i].op = "move" => s[i].dest = Root \/ Born(s[i].dest))'
    BY <2>1, <2>4 DEF Born
  <2> QED
    BY <2>5, <2>6, <2>7, <2>8 DEF PlaceSlot, WalkSlot
<1> QED
  BY <1>1, <1>2, <1>3 DEF TreeInv

LEMMA TreeOutside ==
  ASSUME Base, TreeInv, Outside \/ UNCHANGED vars, [Next]_vars
  PROVE  TreeInv'
<1>1. UNCHANGED <<rows, parent, stamp, s>>
  BY TreeAlone DEF Outside, vars, PutObject, Abandon, SetHold, Age
<1>2. LiveRows' = LiveRows /\ LiveFolders' = LiveFolders /\ Placed' /\ Rooted'
  BY <1>1 DEF TreeInv, Placed, Rooted, LiveRows, LiveFolders
<1>3. ASSUME NEW j \in Slot
      PROVE  PlaceSlot(j)' /\ WalkSlot(j)'
  <2>1. s'[j] = s[j] /\ PlaceSlot(j) /\ WalkSlot(j) /\ SlotTyped(j)
    BY <1>1 DEF TreeInv, Base, TypeInv
  <2>2. WalkSlot(j)'
    BY <1>1, <1>2, <2>1 DEF WalkSlot, Walking
  <2>3. PICK d : d = s[j].dest
    OBVIOUS
  <2>4. s[j].op = "move" => d = Root \/ Born(d)'
    <3>1. s[j].op = "move" => d = Root \/ (d \in Node /\ Born(d))
      BY <2>1, <2>3 DEF PlaceSlot, SlotTyped, Node
    <3> QED
      BY <3>1, BornStays
  <2>5. (s[j].op = "move" => s[j].dest = Root \/ Born(s[j].dest))'
    BY <2>1, <2>3, <2>4 DEF Born
  <2> QED
    BY <1>1, <2>1, <2>2, <2>5 DEF PlaceSlot, LiveOrRoot
<1> QED
  BY <1>2, <1>3 DEF TreeInv

LEMMA TreeNext ==
  ASSUME TreeApart
  PROVE  Base /\ UndoInv /\ TreeInv /\ [Next]_vars => TreeInv'
<1> SUFFICES ASSUME Base, UndoInv, TreeInv, [Next]_vars PROVE TreeInv'
  OBVIOUS
<1>1. ASSUME NEW i \in Slot, Handler(i) \/ Crash(i)
      PROVE  TreeInv'
  BY <1>1, TreePlaces, PlaceSlots, WalkSlots DEF TreeInv
<1> QED
  BY <1>1, TreeBegin, TreeOutside, StepCases

LEMMA TreeHolds ==
  ASSUME TreeApart
  PROVE  Spec => [](Base /\ UndoInv /\ TreeInv)
<1>1. UndoApart
  BY DEF TreeApart
<1>2. Init => TreeInv
  BY TreeInit
<1>3. Base /\ UndoInv /\ TreeInv /\ [Next]_vars => TreeInv'
  BY TreeNext
<1> QED
  BY <1>1, <1>2, <1>3, BaseHolds, UndoHolds, PTL DEF Spec

\* Every live node can be navigated to, in no cycle and under no trashed folder, if
\* moves overlap neither with one another nor with a trash, no restore and no create
\* overlaps with a trash, and no node is restored into a folder that is in the trash.
THEOREM LiveShown ==
  ASSUME TreeApart
  PROVE  Spec => []LiveNodesShown
<1>1. Base /\ TreeInv => LiveNodesShown
  <2> SUFFICES ASSUME Base, TreeInv, NEW n \in complete \ Trashed
               PROVE  n \in Shown
    BY DEF LiveNodesShown
  <2> DEFINE Q == {m \in complete : stamp[m] = Live}
             B == BelowIn(parent, Root, Q)
  <2>1. LiveFolders \subseteq Q /\ n \in Q /\ n \in LiveRows /\ n # Root /\ n \in Node
    BY NodeAssumption DEF Base, TypeInv, RowsTyped, LiveFolders, LiveRows, Trashed
  <2>2. LiveFolders \subseteq B
    BY <2>1, BelowMono DEF TreeInv, Rooted
  <2>3. parent[n] \in LiveFolders \cup {Root}
    BY <2>1, FolderFacts DEF TreeInv, Placed
  <2>4. parent[n] \in B
    BY <2>2, <2>3, BelowSelf
  <2>5. n \in B
    BY <2>1, <2>4, BelowDown
  <2> QED
    BY <2>1, <2>5, BelowIs DEF Shown
<1> QED
  BY <1>1, TreeHolds, PTL
-----------------------------------------------------------------------------
(* How the requests that delete for good go on.                            *)

Deletes == {"purge", "empty", "expire", "sweep"}

StepsTo(i, p, q) == s[i].pc = p /\ s'[i].pc = q

PurgeGoes(i) ==
  \/ StepsTo(i, "puRow", "puKeys") /\ s[i].node \in Trashed \ held
     /\ UNCHANGED <<s[i].ids, s[i].keys>>
  \/ StepsTo(i, "puKeys", "puHeld") /\ s'[i].ids = {s[i].node}
     /\ s'[i].keys = PurgeKeys(s[i].node)
  \/ StepsTo(i, "puHeld", "objects") /\ s[i].keys \cap held = {}
     /\ UNCHANGED <<s[i].ids, s[i].keys>>

EmptyGoes(i) ==
  \/ StepsTo(i, "emList", "emHeld") /\ s'[i].ids = Trashed /\ s'[i].keys = s[i].keys
  \/ StepsTo(i, "emHeld", "keys") /\ s[i].ids \cap held = {}
     /\ UNCHANGED <<s[i].ids, s[i].keys>>

ExpireGoes(i) ==
  StepsTo(i, "exList", "keys") /\ s'[i].ids = Expirable /\ s'[i].keys = s[i].keys

SweepGoes(i) ==
  /\ \/ StepsTo(i, "swList", "keys") /\ s'[i].ids = Stale /\ TablesSame /\ object' = object
     \/ StepsTo(i, "delete", "keys") /\ s'[i].ids = s[i].ids \ {s[i].node}
        /\ FinishDelete(i)
  /\ s'[i].node \in s'[i].ids /\ s'[i].keys = {}

KeysGo(i) ==
  /\ s[i].op # "purge" /\ StepsTo(i, "keys", "objects") /\ s'[i].ids = s[i].ids
  /\ \/ s'[i].keys = Targets(i) \cap chunk
     \/ s'[i].keys = s[i].keys /\ "chunks" \in Faults

ObjectsGo(i) ==
  /\ StepsTo(i, "objects", "delete") /\ DeleteObjects(i)
  /\ UNCHANGED <<s[i].ids, s[i].keys>>

LEMMA DeleteGoes ==
  ASSUME TypeInv, NEW i \in Slot, Handler(i) \/ Crash(i), s'[i].op \in Deletes
  PROVE  /\ s'[i].op = s[i].op
         /\ \/ s[i].op = "sweep" /\ SweepGoes(i)
            \/ /\ s'[i].node = s[i].node /\ TablesSame
               /\ \/ s[i].op = "purge" /\ PurgeGoes(i) /\ object' = object
                  \/ s[i].op = "empty" /\ EmptyGoes(i) /\ object' = object
                  \/ s[i].op = "expire" /\ ExpireGoes(i) /\ object' = object
                  \/ KeysGo(i) /\ object' = object
                  \/ ObjectsGo(i)
<1> USE DEF At
<1>0. /\ Proceeds(i) /\ PcTyped(i) /\ SlotsTyped /\ SlotTyped(i) /\ RowsTyped
      /\ s'[i].op = s[i].op
  BY HandlerProceeds DEF TypeInv, Proceeds, Deletes
<1>1. ~Return(i)
  BY <1>0, ReturnSlot DEF Deletes
<1>2. ASSUME NEW p \in PC, Goto(i, p)
      PROVE  /\ s'[i].pc = p /\ s'[i].node = s[i].node
             /\ s'[i].ids = s[i].ids /\ s'[i].keys = s[i].keys
  BY <1>0, <1>2, GotoSlot
<1>3. ASSUME NEW p \in PC, NEW S \in SUBSET Node, s' = [s EXCEPT ![i].pc = p, ![i].ids = S]
      PROVE  /\ s'[i].pc = p /\ s'[i].node = s[i].node
             /\ s'[i].ids = S /\ s'[i].keys = s[i].keys
  BY <1>0, <1>3, ListSlot
<1>4. ASSUME NEW S \in SUBSET Node, SweepNext(i, S)
      PROVE  /\ s'[i].pc = "keys" /\ s'[i].ids = S /\ s'[i].node \in S /\ s'[i].keys = {}
  <2>1. s'[i].op # "none"
    BY DEF Deletes
  <2> QED
    BY <1>0, <1>4, <2>1, SweepSlot
<1>5. CASE PurgeReadRow(i)
  <2>1. s[i].op = "purge" /\ Goto(i, "puKeys") /\ s[i].node \in Trashed \ held
        /\ TablesSame /\ object' = object /\ s[i].pc = "puRow"
    BY <1>0, <1>1, <1>5 DEF PurgeReadRow, PcTyped, PcOf, TablesSame
  <2>2. PurgeGoes(i) /\ s'[i].node = s[i].node
    BY <1>2, <2>1, Tags DEF PurgeGoes, StepsTo
  <2> QED
    BY <1>0, <2>1, <2>2
<1>6. CASE PurgeReadKeys(i)
  <2>1. s[i].op = "purge" /\ s[i].node \in Node /\ chunk \subseteq Files
        /\ TablesSame /\ object' = object /\ s[i].pc = "puKeys"
    BY <1>0, <1>6 DEF PurgeReadKeys, PcTyped, PcOf, TablesSame, SlotTyped, RowsTyped
  <2>2. PurgeGoes(i) /\ s'[i].node = s[i].node
    BY <1>0, <1>6, <2>1, PurgeSlot DEF PurgeGoes, StepsTo
  <2> QED
    BY <1>0, <2>1, <2>2
<1>7. CASE PurgeCheckHeld(i)
  <2>1. s[i].op = "purge" /\ Goto(i, "objects") /\ s[i].keys \cap held = {}
        /\ TablesSame /\ object' = object /\ s[i].pc = "puHeld"
    BY <1>0, <1>1, <1>7 DEF PurgeCheckHeld, PcTyped, PcOf, TablesSame
  <2>2. PurgeGoes(i) /\ s'[i].node = s[i].node
    BY <1>2, <2>1, Tags DEF PurgeGoes, StepsTo
  <2> QED
    BY <1>0, <2>1, <2>2
<1>8. CASE EmptyList(i)
  <2>1. s[i].op = "empty" /\ TablesSame /\ object' = object /\ s[i].pc = "emList"
        /\ s' = [s EXCEPT ![i].pc = "emHeld", ![i].ids = Trashed]
    BY <1>0, <1>1, <1>8 DEF EmptyList, PcTyped, PcOf, TablesSame
  <2>2. "emHeld" \in PC /\ Trashed \in SUBSET Node
    BY Tags, Lists
  <2>3. EmptyGoes(i) /\ s'[i].node = s[i].node
    BY <1>3, <2>1, <2>2 DEF EmptyGoes, StepsTo
  <2> QED
    BY <1>0, <2>1, <2>3
<1>9. CASE EmptyCheckHeld(i)
  <2>1. s[i].op = "empty" /\ Goto(i, "keys") /\ s[i].ids \cap held = {}
        /\ TablesSame /\ object' = object /\ s[i].pc = "emHeld"
    BY <1>0, <1>1, <1>9 DEF EmptyCheckHeld, EmptyBlocked, PcTyped, PcOf, TablesSame
  <2>2. EmptyGoes(i) /\ s'[i].node = s[i].node
    BY <1>2, <2>1, Tags DEF EmptyGoes, StepsTo
  <2> QED
    BY <1>0, <2>1, <2>2
<1>10. CASE ExpireList(i)
  <2>1. s[i].op = "expire" /\ TablesSame /\ object' = object /\ s[i].pc = "exList"
        /\ s' = [s EXCEPT ![i].pc = "keys", ![i].ids = Expirable]
    BY <1>0, <1>1, <1>10 DEF ExpireList, PcTyped, PcOf, TablesSame
  <2>2. "keys" \in PC /\ Expirable \in SUBSET Node
    BY Tags, Lists
  <2>3. ExpireGoes(i) /\ s'[i].node = s[i].node
    BY <1>3, <2>1, <2>2 DEF ExpireGoes, StepsTo
  <2> QED
    BY <1>0, <2>1, <2>3
<1>11. CASE SweepList(i)
  <2>1. s[i].op = "sweep" /\ TablesSame /\ object' = object /\ s[i].pc = "swList"
        /\ SweepNext(i, Stale) /\ Stale \in SUBSET Node
    BY <1>0, <1>11, Lists DEF SweepList, PcTyped, PcOf, TablesSame, Node
  <2>2. SweepGoes(i)
    BY <1>4, <2>1 DEF SweepGoes, StepsTo
  <2> QED
    BY <1>0, <2>1, <2>2
<1>12. CASE ReadKeys(i)
  <2>1. /\ s[i].op # "purge" /\ TablesSame /\ object' = object /\ s[i].pc = "keys"
        /\ \/ s' = [s EXCEPT ![i].pc = "objects", ![i].keys = Targets(i) \cap chunk]
           \/ Goto(i, "objects") /\ "chunks" \in Faults
    BY <1>0, <1>12 DEF ReadKeys, PcTyped, PcOf, TablesSame, Errs
  <2>2. CASE Goto(i, "objects") /\ "chunks" \in Faults
    <3>1. KeysGo(i) /\ s'[i].node = s[i].node
      BY <1>2, <2>1, <2>2, Tags DEF KeysGo, StepsTo
    <3> QED
      BY <1>0, <2>1, <3>1
  <2>3. CASE s' = [s EXCEPT ![i].pc = "objects", ![i].keys = Targets(i) \cap chunk]
    <3>1. PICK K : K = Targets(i) \cap chunk
      OBVIOUS
    <3>2. K \in SUBSET Files /\ s' = [s EXCEPT ![i].pc = "objects", ![i].keys = K]
      BY <1>0, <2>3, <3>1 DEF RowsTyped
    <3>3. "objects" \in PC
      BY Tags
    <3>4. /\ s'[i].pc = "objects" /\ s'[i].keys = K /\ s'[i].node = s[i].node
          /\ s'[i].ids = s[i].ids
      BY <1>0, <3>2, <3>3, KeysSlot
    <3>5. KeysGo(i)
      BY <2>1, <3>1, <3>4 DEF KeysGo, StepsTo
    <3> QED
      BY <1>0, <2>1, <3>4, <3>5
  <2> QED
    BY <2>1, <2>2, <2>3
<1>13. CASE DeleteObjects(i)
  <2>1. Goto(i, "delete") /\ TablesSame /\ s[i].pc = "objects"
    BY <1>13 DEF DeleteObjects, TablesSame
  <2>2. ObjectsGo(i) /\ s'[i].node = s[i].node
    BY <1>2, <1>13, <2>1, Tags DEF ObjectsGo, StepsTo
  <2> QED
    BY <1>0, <2>1, <2>2
<1>14. CASE FinishDelete(i)
  <2>1. s[i].op = "sweep" /\ SweepNext(i, s[i].ids \ {s[i].node}) /\ s[i].pc = "delete"
    BY <1>1, <1>14 DEF FinishDelete
  <2>2. s[i].ids \ {s[i].node} \in SUBSET Node
    BY <1>0 DEF SlotsTyped, SlotType
  <2>3. SweepGoes(i)
    BY <1>4, <1>14, <2>1, <2>2 DEF SweepGoes, StepsTo
  <2> QED
    BY <1>0, <2>1, <2>3
<1>15. \/ PurgeReadRow(i) \/ PurgeReadKeys(i) \/ PurgeCheckHeld(i)
       \/ EmptyList(i) \/ EmptyCheckHeld(i) \/ ExpireList(i) \/ SweepList(i)
       \/ ReadKeys(i) \/ DeleteObjects(i) \/ FinishDelete(i)
  BY <1>0, <1>1 DEF Handler, Crash, Deletes, PcTyped, PcOf, CreateCheckParent, CreateInsert,
     FinalizeReadRow, FinalizeMeasure, FinalizeInsertChunks, FinalizeFlip,
     TrashCheckHold, TrashMark, RestoreReadRow, RestoreMark, MoveReadRow, MoveReadDest,
     MoveWalk, MoveUpdate
<1> QED
  BY <1>5, <1>6, <1>7, <1>8, <1>9, <1>10, <1>11, <1>12, <1>13, <1>14, <1>15
-----------------------------------------------------------------------------
(* Live files are intact, and no deletion of rows is refused for the sake  *)
(* of parent_id. What empty, expiry and purge work on is in the trash and  *)
(* stays there; what they delete has no children that stay.                *)

StampOrder ==
  \A c \in rows :
    stamp[c] # Live /\ parent[c] \in rows /\ stamp[parent[c]] # Live =>
      stamp[c] <= stamp[parent[c]]

\* The objects of a complete file are there, or a request is about to delete it.
Intact ==
  \A f \in complete \cap Files :
    /\ f \in chunk
    /\ f \in object \/ \E i \in Slot : s[i].pc = "delete" /\ f \in s[i].keys

FinalSlot(i) ==
  /\ s[i].pc \in {"fnChunks", "fnFlip"} /\ s[i].node \in rows => s[i].node \in object
  /\ s[i].pc = "fnFlip" /\ s[i].node \in rows => s[i].node \in chunk

DoomSlot(i) ==
  /\ s[i].op = "purge" => /\ stamp[s[i].node] # Live /\ s[i].keys \subseteq {s[i].node}
                          /\ \A m \in rows : parent[m] # s[i].node
  /\ s[i].op \in {"empty", "expire"} => \A e \in s[i].ids : stamp[e] # Live
  /\ s[i].op = "expire" => \A c \in rows : parent[c] \in s[i].ids => c \in s[i].ids
  /\ s[i].op = "sweep" => s[i].ids \cap complete = {}

FilesInv ==
  /\ StampOrder /\ Intact
  /\ \A i \in Slot : FinalSlot(i) /\ DoomSlot(i)

FilesApart ==
  /\ TreeApart
  /\ {{"finalize", "empty"}, {"finalize", "expire"}, {"finalize", "sweep"},
      {"restore", "purge"}, {"restore", "empty"}, {"restore", "expire"}} \subseteq Apart
  /\ "folders" \notin Ops /\ "halfway" \notin Faults

\* Base and the invariants of the tree.
Tree == Base /\ UndoInv /\ TreeInv

LEMMA FilesInit == Init => FilesInv
<1> SUFFICES ASSUME Init PROVE FilesInv
  OBVIOUS
<1>1. \A n \in Node : stamp[n] = Live
  BY DEF Init
<1>2. complete = Old /\ chunk = Old \cap Files /\ object = Old \cap Files /\ rows = Old
  BY DEF Init
<1>3. StampOrder /\ Intact
  BY <1>1, <1>2, NodeAssumption DEF StampOrder, Intact
<1>4. ASSUME NEW i \in Slot
      PROVE  FinalSlot(i) /\ DoomSlot(i)
  BY DEF Init, Idle, FinalSlot, DoomSlot
<1> QED
  BY <1>3, <1>4 DEF FilesInv

\* The deletion of rows that a request is about to ask for is not refused.
LEMMA NotRefused ==
  ASSUME Tree, FilesInv, NEW i \in Slot, s[i].pc = "delete"
  PROVE  /\ \A n \in rows \ Doomed(i) : parent[n] \notin Doomed(i) \cap rows
         /\ \A f \in s[i].keys : f \in complete => f \in Doomed(i)
<1>1. /\ PcTyped(i) /\ SlotTyped(i) /\ DoomSlot(i) /\ RowsTyped
      /\ s[i].op \in {"purge", "empty", "expire", "sweep"}
  BY DEF Tree, Base, TypeInv, FilesInv, PcTyped, PcOf
<1>2. CASE s[i].op = "purge"
  <2>1. s[i].ids = {s[i].node} /\ Doomed(i) = {s[i].node}
    BY <1>1, <1>2 DEF SlotTyped, Doomed, Targets
  <2> QED
    BY <1>1, <1>2, <2>1 DEF DoomSlot
<1>3. CASE s[i].op = "empty"
  <2>1. Doomed(i) = Trashed /\ s[i].keys \subseteq s[i].ids
    BY <1>1, <1>3 DEF SlotTyped, Doomed, Targets
  <2>2. \A n \in rows \ Trashed : parent[n] \notin Trashed
    BY FolderFacts DEF Tree, TreeInv, Placed, LiveRows, Trashed
  <2> QED
    BY <1>1, <1>3, <2>1, <2>2 DEF DoomSlot, RowsTyped, Trashed
<1>4. CASE s[i].op = "expire"
  <2>1. Doomed(i) = s[i].ids /\ s[i].keys \subseteq s[i].ids
    BY <1>1, <1>4 DEF SlotTyped, Doomed, Targets
  <2> QED
    BY <1>1, <1>4, <2>1 DEF DoomSlot
<1>5. CASE s[i].op = "sweep"
  <2>1. /\ Doomed(i) = {s[i].node} /\ s[i].keys \subseteq {s[i].node}
        /\ s[i].node \in Files
    BY <1>1, <1>5 DEF SlotTyped, Doomed, Targets
  <2>2. \A n \in rows : parent[n] # s[i].node
    BY <2>1, FolderFacts, NodeAssumption DEF Tree, Node
  <2> QED
    BY <2>1, <2>2
<1> QED
  BY <1>1, <1>2, <1>3, <1>4, <1>5

LEMMA FilesStamps ==
  ASSUME Tree, FilesInv, NEW i \in Slot, Handler(i) \/ Crash(i)
  PROVE  StampOrder'
<1>0. TypeInv /\ TypeInv' /\ RowsTyped
  BY TypeHandler, TypeCrash DEF Tree, Base, TypeInv
<1> SUFFICES ASSUME NEW c \in rows', stamp'[c] # Live, NEW u, u = parent'[c], u \in rows',
                    stamp'[u] # Live
             PROVE  stamp'[c] <= stamp'[u]
  BY DEF StampOrder
<1>1. c \in Node /\ u \in Node
  BY <1>0 DEF TypeInv, RowsTyped
<1>2. CASE ~TrashMark(i)
  <2>1. TrashShrinks
    BY <1>2, ShrinksUnlessTrash DEF Tree
  <2>2. /\ c \in rows /\ u \in rows /\ stamp'[c] = stamp[c] /\ stamp'[u] = stamp[u]
        /\ u = parent[c]
    BY <1>1, <2>1 DEF TrashShrinks
  <2> QED
    BY <2>2 DEF FilesInv, StampOrder
<1>3. CASE TrashMark(i)
  <2> DEFINE T == TrashSet(s[i].node)
  <2>1. rows' = rows /\ parent' = parent
    BY <1>3 DEF TrashMark
  <2>2. CASE stamp' = stamp
    BY <2>1, <2>2 DEF FilesInv, StampOrder
  <2>3. CASE stamp' # stamp
    <3>1. T # {} /\ stamp' = [n \in Node |-> IF n \in T THEN clock + 1 ELSE stamp[n]]
      BY <1>3, <2>3 DEF TrashMark
    <3>2. T \subseteq {m \in rows : stamp[m] = Live}
      BY MarkedSets
    <3>3. clock \in Nat /\ stamp[c] \in 0..clock /\ stamp[u] \in 0..clock
      BY <1>0, <1>1, BoundAssumption DEF RowsTyped
    <3>4. CASE u \in T
      BY <1>1, <3>1, <3>3, <3>4
    <3>5. CASE u \notin T /\ c \in T
      <4>1. c \in LiveRows /\ u \notin LiveRows
        BY <1>1, <2>1, <3>1, <3>2, <3>5 DEF LiveRows
      <4>2. u \in LiveRows \cup {Root}
        BY <2>1, <4>1 DEF Tree, TreeInv, Placed
      <4> QED
        BY <1>1, <4>1, <4>2, NodeAssumption
    <3>6. CASE u \notin T /\ c \notin T
      BY <1>1, <2>1, <3>1, <3>6 DEF FilesInv, StampOrder
    <3> QED
      BY <3>4, <3>5, <3>6
  <2> QED
    BY <2>2, <2>3
<1> QED
  BY <1>2, <1>3

\* No step hangs a node on one that is in the trash.
LEMMA ChildrenKeep ==
  ASSUME Tree, NEW i \in Slot, Handler(i) \/ Crash(i), NEW m \in rows',
         parent'[m] \in Node, stamp[parent'[m]] # Live
  PROVE  m \in rows /\ parent'[m] = parent[m]
<1>0. /\ PcTyped(i) /\ SlotTyped(i) /\ PlaceSlot(i) /\ RowsTyped /\ TypeInv'
      /\ Root \notin Node
  BY TypeHandler, TypeCrash, NodeAssumption DEF Tree, Base, TypeInv, TreeInv
<1>1. CASE CreateInsert(i) \/ MoveUpdate(i)
  <2>1. s[i].op \in {"create", "move"} /\ LiveOrRoot(s[i].dest) /\ s[i].node \in Node
    BY <1>0, <1>1 DEF CreateInsert, MoveUpdate, At, PcTyped, PcOf, PlaceSlot, SlotTyped
  <2> QED
    BY <1>0, <1>1, <2>1 DEF CreateInsert, MoveUpdate, LiveOrRoot, RowsTyped
<1>2. CASE ~CreateInsert(i) /\ ~MoveUpdate(i)
  BY <1>2, HandlerEffects DEF TablesSame, FinalizeInsertChunks, FinalizeFlip, TrashMark,
     RestoreMark, FinishDelete, DeleteRows
<1> QED
  BY <1>1, <1>2

LEMMA StampStays ==
  ASSUME Base, NEW i \in Slot, Handler(i) \/ Crash(i), ~RestoreMark(i),
         NEW n \in Node, stamp[n] # Live
  PROVE  stamp'[n] # Live
<1>1. clock \in Nat
  BY BoundAssumption DEF Base, TypeInv, RowsTyped
<1>2. CASE TrashMark(i)
  BY <1>1, <1>2 DEF TrashMark, Live
<1>3. CASE ~TrashMark(i)
  BY <1>3, HandlerEffects DEF TablesSame, CreateInsert, FinalizeInsertChunks, FinalizeFlip,
     FinishDelete, MoveUpdate
<1> QED
  BY <1>2, <1>3

\* Only finalize completes a file; what is deleted goes from every table.
LEMMA FilesKeep ==
  ASSUME TypeInv, NEW i \in Slot, Handler(i) \/ Crash(i)
  PROVE  /\ ~FinalizeFlip(i) => \A f \in Files : f \in complete' => f \in complete
         /\ \A f \in Files : f \in chunk /\ f \in rows' => f \in chunk'
<1>1. CASE FinishDelete(i)
  BY <1>1 DEF FinishDelete, DeleteRows
<1>2. CASE ~FinishDelete(i)
  BY <1>2, HandlerEffects, NodeAssumption DEF TablesSame, CreateInsert,
     FinalizeInsertChunks, FinalizeFlip, TrashMark, RestoreMark, MoveUpdate, TypeInv,
     RowsTyped
<1> QED
  BY <1>1, <1>2

\* A request that still works on the nodes it worked on, or on fewer.
LEMMA DoomKeeps ==
  ASSUME Tree, FilesInv, NEW i \in Slot, Handler(i) \/ Crash(i), NEW j \in Slot,
         s'[j].op = s[j].op, s'[j].ids \subseteq s[j].ids,
         s[j].op = "expire" => s'[j].ids = s[j].ids,
         s[j].op = "purge" => s'[j].node = s[j].node /\ s'[j].keys \subseteq {s[j].node},
         s[j].op \in {"purge", "empty", "expire"} => ~RestoreMark(i),
         s[j].op = "sweep" => ~FinalizeFlip(i)
  PROVE  DoomSlot(j)'
<1>0. /\ SlotTyped(j) /\ DoomSlot(j) /\ TypeInv /\ Base
      /\ s[j].ids \subseteq Node
  BY DEF Tree, Base, TypeInv, SlotsTyped, SlotType, FilesInv
<1>1. PICK n : n = s[j].node
  OBVIOUS
<1>2. ASSUME s[j].op = "purge"
      PROVE  /\ stamp'[n] # Live
             /\ \A m \in rows' : parent'[m] # n
  <2>1. n \in Node /\ stamp[n] # Live /\ \A m \in rows : parent[m] # n
    BY <1>0, <1>1, <1>2 DEF SlotTyped, DoomSlot
  <2>2. stamp'[n] # Live
    BY <1>0, <1>2, <2>1, StampStays
  <2> QED
    BY <2>1, <2>2, ChildrenKeep
<1>3. ASSUME s[j].op \in {"empty", "expire"}
      PROVE  \A e \in s[j].ids : stamp'[e] # Live
  BY <1>0, <1>3, StampStays DEF DoomSlot
<1>4. ASSUME s[j].op = "expire"
      PROVE  \A c \in rows' : parent'[c] \in s[j].ids => c \in s[j].ids
  <2>1. \A e \in s[j].ids : e \in Node /\ stamp[e] # Live
    BY <1>0, <1>4 DEF DoomSlot
  <2>2. \A c \in rows' : parent'[c] \in s[j].ids => c \in rows /\ parent'[c] = parent[c]
    BY <2>1, ChildrenKeep
  <2> QED
    BY <1>0, <1>4, <2>2 DEF DoomSlot
<1>5. ASSUME s[j].op = "sweep"
      PROVE  s[j].ids \cap complete' = {}
  <2>1. s[j].ids \subseteq Files /\ s[j].ids \cap complete = {}
    BY <1>0, <1>5 DEF SlotTyped, DoomSlot
  <2> QED
    BY <1>0, <1>5, <2>1, FilesKeep
<1>6. (s[j].op = "purge" => /\ stamp[s[j].node] # Live /\ s[j].keys \subseteq {s[j].node}
                            /\ \A m \in rows : parent[m] # s[j].node)'
  BY <1>1, <1>2
<1> QED
  BY <1>3, <1>4, <1>5, <1>6 DEF DoomSlot

LEMMA DoomOther ==
  ASSUME Tree, FilesInv, FilesApart, NEW i \in Slot, Handler(i) \/ Crash(i),
         NEW j \in Slot, j # i
  PROVE  DoomSlot(j)'
<1>0. /\ s'[j] = s[j] /\ DoomSlot(j) /\ PcTyped(i) /\ s[i].op # "none" /\ KeptApart
  BY HandlerProceeds, HandlerBusy DEF Proceeds, Others, FilesInv, Tree, Base, TypeInv,
     BirthInv
<1>1. s[j].op # "none" => {s[i].op, s[j].op} \notin Apart
  BY <1>0 DEF KeptApart
<1>2. s[j].op \in {"purge", "empty", "expire"} => ~RestoreMark(i)
  BY <1>0, <1>1 DEF RestoreMark, At, PcTyped, PcOf, FilesApart
<1>3. s[j].op = "sweep" => ~FinalizeFlip(i)
  BY <1>0, <1>1 DEF FinalizeFlip, At, PcTyped, PcOf, FilesApart
<1>4. s[j].op = "purge" => s[j].keys \subseteq {s[j].node}
  BY <1>0 DEF DoomSlot
<1> QED
  BY <1>0, <1>2, <1>3, <1>4, DoomKeeps

\* What expires has no child that does not.
LEMMA ExpirableClosed ==
  ASSUME Tree, FilesInv, NEW c \in rows, parent[c] \in Expirable
  PROVE  c \in Expirable
<1>1. PICK u : u = parent[c]
  OBVIOUS
<1>2. /\ u \in rows /\ stamp[u] # Live /\ stamp[u] <= aged /\ c \in Node /\ u \in Node
      /\ Below(u, Expired) \cap held = {}
  BY <1>1, FolderFacts DEF Tree, Expirable, Expired, Trashed
<1>3. stamp[c] # Live
  BY <1>1, <1>2, NodeAssumption DEF Tree, TreeInv, Placed, LiveRows
<1>4. stamp[c] <= stamp[u]
  BY <1>1, <1>2, <1>3 DEF FilesInv, StampOrder
<1>5. stamp[c] \in Nat /\ stamp[u] \in Nat /\ aged \in Nat
  <2>1. clock \in Nat /\ stamp[c] \in 0..clock /\ stamp[u] \in 0..clock /\ aged \in 0..clock
    BY <1>2, BoundAssumption DEF Tree, Base, TypeInv, RowsTyped
  <2> QED
    BY <2>1
<1>6. c \in Expired
  BY <1>2, <1>3, <1>4, <1>5 DEF Expired, Trashed
<1>7. c \in BelowIn(parent, u, Expired)
  BY <1>1, <1>6, BelowSelf, BelowDown
<1>8. Below(c, Expired) \subseteq Below(u, Expired)
  BY <1>7, BelowBelow, BelowIs
<1> QED
  BY <1>2, <1>6, <1>8 DEF Expirable

LEMMA DoomSelf ==
  ASSUME Tree, FilesInv, NEW i \in Slot, Handler(i) \/ Crash(i)
  PROVE  DoomSlot(i)'
<1>0. TypeInv /\ SlotTyped(i) /\ DoomSlot(i) /\ PcTyped(i)
  BY DEF Tree, Base, TypeInv, FilesInv
<1>1. CASE s'[i].op \notin Deletes
  BY <1>1 DEF Deletes, DoomSlot
<1>2. CASE s'[i].op \in Deletes
  <2>1. /\ s'[i].op = s[i].op
        /\ \/ s[i].op = "sweep" /\ SweepGoes(i)
           \/ /\ s'[i].node = s[i].node /\ TablesSame
              /\ \/ s[i].op = "purge" /\ PurgeGoes(i) /\ object' = object
                 \/ s[i].op = "empty" /\ EmptyGoes(i) /\ object' = object
                 \/ s[i].op = "expire" /\ ExpireGoes(i) /\ object' = object
                 \/ KeysGo(i) /\ object' = object
                 \/ ObjectsGo(i)
    BY <1>0, <1>2, DeleteGoes
  <2>2. ~RestoreMark(i) /\ ~FinalizeFlip(i)
    BY <1>0, <1>2, <2>1 DEF Deletes, RestoreMark, FinalizeFlip, At, PcTyped, PcOf
  <2>3. CASE s[i].op = "sweep" /\ SweepGoes(i)
    <3>1. CASE TablesSame /\ s'[i].ids = Stale
      <4>1. Stale \cap complete = {} /\ complete' = complete
        BY <3>1 DEF Stale, TablesSame
      <4> QED
        BY <2>1, <2>3, <3>1, <4>1 DEF DoomSlot
    <3>2. CASE s'[i].ids = s[i].ids \ {s[i].node}
      BY <2>1, <2>2, <2>3, <3>2, DoomKeeps
    <3> QED
      BY <2>3, <3>1, <3>2 DEF SweepGoes
  <2>4. CASE s[i].op = "purge" /\ PurgeGoes(i) /\ TablesSame
    <3>1. PICK n : n = s[i].node
      OBVIOUS
    <3>2. n \in Node /\ \A m \in rows : parent[m] # n
      BY <1>0, <2>4, <3>1 DEF SlotTyped, DoomSlot
    <3>3. PurgeKeys(n) \subseteq {n}
      <4>1. BelowIn(parent, n, rows) \subseteq {n}
        BY <3>2, BelowLeast
      <4> QED
        BY <4>1, BelowIs DEF PurgeKeys
    <3>4. s'[i].keys \subseteq {n}
      BY <1>0, <2>4, <3>1, <3>3 DEF PurgeGoes, DoomSlot
    <3>5. s'[i].node = n /\ stamp'[n] # Live
      BY <1>0, <2>1, <2>4, <3>1 DEF DoomSlot, TablesSame
    <3> QED
      BY <2>1, <2>4, <3>2, <3>4, <3>5 DEF DoomSlot, TablesSame
  <2>5. CASE s[i].op = "empty" /\ EmptyGoes(i) /\ TablesSame
    BY <1>0, <2>1, <2>5 DEF EmptyGoes, DoomSlot, TablesSame, Trashed
  <2>6. CASE s[i].op = "expire" /\ ExpireGoes(i) /\ TablesSame
    <3>1. s'[i].ids = Expirable /\ \A e \in Expirable : stamp[e] # Live
      BY <2>6 DEF ExpireGoes, Expirable, Expired, Trashed
    <3>2. \A c \in rows : parent[c] \in Expirable => c \in Expirable
      BY ExpirableClosed
    <3> QED
      BY <2>1, <2>6, <3>1, <3>2 DEF DoomSlot, TablesSame
  <2>7. CASE (KeysGo(i) \/ ObjectsGo(i)) /\ s'[i].node = s[i].node
    <3>1. s'[i].ids = s[i].ids /\ (s[i].op = "purge" => s'[i].keys = s[i].keys)
      BY <2>7 DEF KeysGo, ObjectsGo
    <3>2. s[i].op = "purge" => s'[i].keys \subseteq {s[i].node}
      BY <1>0, <3>1 DEF DoomSlot
    <3> QED
      BY <2>1, <2>2, <2>7, <3>1, <3>2, DoomKeeps
  <2> QED
    BY <2>1, <2>3, <2>4, <2>5, <2>6, <2>7
<1> QED
  BY <1>1, <1>2
\* The steps that take objects away.
LEMMA ObjectEffects ==
  ASSUME NEW i \in Slot, Handler(i) \/ Crash(i)
  PROVE  \/ object' = object
         \/ FinalizeMeasure(i) /\ object' = object \ {s[i].node}
         \/ DeleteObjects(i) /\ \E S \in SUBSET s[i].keys : object' = object \ S
BY DEF Handler, Crash, CreateCheckParent, CreateInsert, FinalizeReadRow, FinalizeMeasure,
   FinalizeInsertChunks, FinalizeFlip, TrashCheckHold, TrashMark, RestoreReadRow,
   RestoreMark, PurgeReadRow, PurgeReadKeys, PurgeCheckHeld, EmptyList, EmptyCheckHeld,
   ExpireList, SweepList, ReadKeys, DeleteObjects, FinishDelete, MoveReadRow,
   MoveReadDest, MoveWalk, MoveUpdate

\* How a finalize goes on.
LEMMA FinalizeGoes ==
  ASSUME TypeInv, NEW i \in Slot, Handler(i) \/ Crash(i), s'[i].op = "finalize"
  PROVE  /\ s[i].op = "finalize" /\ s'[i].node = s[i].node /\ rows' = rows
         /\ \/ s'[i].pc = "fnMeasure"
            \/ s'[i].pc = "fnChunks" /\ s[i].node \in object /\ object' = object
            \/ /\ s[i].pc = "fnChunks" /\ s'[i].pc = "fnFlip" /\ object' = object
               /\ chunk' = chunk \cup {s[i].node}
<1>1. Proceeds(i) /\ PcTyped(i) /\ SlotsTyped
  BY HandlerProceeds DEF TypeInv
<1>2. s[i].op = "finalize" /\ s'[i].node = s[i].node
  BY <1>1 DEF Proceeds
<1>3. ~Return(i)
  BY <1>1, ReturnSlot
<1>4. FinalizeReadRow(i) \/ FinalizeMeasure(i) \/ FinalizeInsertChunks(i)
  BY <1>1, <1>2, <1>3 DEF At, Handler, Crash, PcTyped, PcOf, CreateCheckParent,
     CreateInsert, FinalizeFlip, TrashCheckHold, TrashMark, RestoreReadRow, RestoreMark,
     PurgeReadRow, PurgeReadKeys, PurgeCheckHeld, EmptyList, EmptyCheckHeld, ExpireList,
     SweepList, ReadKeys, DeleteObjects, FinishDelete, MoveReadRow, MoveReadDest,
     MoveWalk, MoveUpdate
<1>5. \/ Goto(i, "fnMeasure") /\ rows' = rows
      \/ Goto(i, "fnChunks") /\ s[i].node \in object /\ object' = object /\ rows' = rows
      \/ /\ Goto(i, "fnFlip") /\ s[i].pc = "fnChunks" /\ object' = object
         /\ chunk' = chunk \cup {s[i].node} /\ rows' = rows
  BY <1>3, <1>4 DEF FinalizeReadRow, FinalizeMeasure, FinalizeInsertChunks, At
<1>6. \A p \in {"fnMeasure", "fnChunks", "fnFlip"} : Goto(i, p) => s'[i].pc = p
  BY <1>1, Tags, GotoSlot
<1> QED
  BY <1>2, <1>5, <1>6

LEMMA FinalSlots ==
  ASSUME Tree, FilesInv, FilesApart, NEW i \in Slot, Handler(i) \/ Crash(i),
         NEW j \in Slot
  PROVE  FinalSlot(j)'
<1>0. /\ TypeInv /\ TypeInv' /\ Proceeds(i) /\ s[i].op # "none" /\ KeptApart /\ OneBuilds
      /\ PcTyped(i) /\ PcTyped(j) /\ FinalSlot(j) /\ SlotTyped(j)
      /\ BirthSlot(i) /\ BirthSlot(j) /\ KeepsLives(i) /\ DoomSlot(i) /\ SlotTyped(i)
  BY HandlerProceeds, HandlerBusy, TypeHandler, TypeCrash, BirthTables
     DEF FilesInv, Tree, Base, TypeInv, BirthInv
<1>1. CASE s'[j].op # "finalize"
  BY <1>0, <1>1 DEF TypeInv, PcTyped, PcOf, FinalSlot
<1>2. CASE s'[j].op = "finalize" /\ j = i
  <2>1. PICK n : n = s[i].node
    OBVIOUS
  <2>2. /\ s'[i].node = n /\ rows' = rows
        /\ \/ s'[i].pc = "fnMeasure"
           \/ s'[i].pc = "fnChunks" /\ n \in object /\ object' = object
           \/ /\ s[i].pc = "fnChunks" /\ s'[i].pc = "fnFlip" /\ object' = object
              /\ chunk' = chunk \cup {n}
    BY <1>0, <1>2, <2>1, FinalizeGoes
  <2> QED
    BY <1>0, <1>2, <2>1, <2>2 DEF FinalSlot
<1>3. CASE s'[j].op = "finalize" /\ j # i
  <2>1. PICK n : n = s[j].node
    OBVIOUS
  <2>2. s'[j] = s[j] /\ s[j].op = "finalize" /\ n \in Files /\ n \in Node /\ n \notin complete
    BY <1>0, <1>3, <2>1 DEF Proceeds, Others, SlotTyped, BirthSlot, Node
  <2>3. ASSUME n \in rows'
        PROVE  n \in rows
    BY <1>0, <1>3, <2>1, <2>2, <2>3 DEF KeepsLives, OneBuilds, Building
  <2>4. ASSUME n \in rows, n \in object
        PROVE  n \in object'
    <3>1. CASE FinalizeMeasure(i) /\ object' = object \ {s[i].node}
      <4>1. s[i].op = "finalize"
        BY <1>0, <3>1 DEF FinalizeMeasure, At, PcTyped, PcOf
      <4>2. s[i].node # n
        BY <1>0, <1>3, <2>1, <2>2, <4>1 DEF OneBuilds, Building
      <4> QED
        BY <2>4, <3>1, <4>2
    <3>2. CASE DeleteObjects(i) /\ \E S \in SUBSET s[i].keys : object' = object \ S
      <4>1. s[i].op \in {"purge", "empty", "expire", "sweep"}
        BY <1>0, <3>2 DEF DeleteObjects, At, PcTyped, PcOf
      <4>2. {s[i].op, "finalize"} \notin Apart
        BY <1>0, <1>3, <2>2 DEF KeptApart
      <4>3. \A o \in {"empty", "expire", "sweep"} : {o, "finalize"} \in Apart
        <5>1. \A o : {o, "finalize"} = {"finalize", o}
          OBVIOUS
        <5> QED
          BY <5>1 DEF FilesApart
      <4>4. s[i].op = "purge"
        BY <4>1, <4>2, <4>3
      <4>5. s[i].keys \subseteq {s[i].node} /\ s[i].node # n
        BY <1>0, <2>2, <2>4, <4>4 DEF DoomSlot, BirthSlot
      <4> QED
        BY <2>4, <3>2, <4>5
    <3> QED
      BY <2>4, <3>1, <3>2, ObjectEffects
  <2>5. n \in rows' /\ n \in chunk => n \in chunk'
    BY <1>0, <2>2, FilesKeep
  <2> QED
    BY <1>0, <2>1, <2>2, <2>3, <2>4, <2>5 DEF FinalSlot
<1> QED
  BY <1>1, <1>2, <1>3

LEMMA IntactStep ==
  ASSUME Tree, FilesInv, FilesApart, NEW i \in Slot, Handler(i) \/ Crash(i)
  PROVE  Intact'
<1>0. /\ TypeInv /\ TypeInv' /\ Proceeds(i) /\ PcTyped(i) /\ FinalSlot(i) /\ BirthSlot(i)
      /\ SlotsTyped /\ RowsTyped /\ Intact
  BY HandlerProceeds, TypeHandler, TypeCrash DEF FilesInv, Tree, Base, TypeInv, BirthInv
<1> DEFINE Going(f) == \E k \in Slot : s[k].pc = "delete" /\ f \in s[k].keys
           GoingOn(f) == \E k \in Slot : s'[k].pc = "delete" /\ f \in s'[k].keys
<1> SUFFICES ASSUME NEW f \in Files, f \in complete'
             PROVE  f \in chunk' /\ (f \in object' \/ GoingOn(f))
  BY DEF Intact
<1>1. f \in rows' /\ complete' \subseteq rows'
  BY <1>0 DEF TypeInv, RowsTyped
<1>2. CASE f \notin complete
  <2>1. FinalizeFlip(i)
    BY <1>0, <1>2, FilesKeep
  <2>2. s[i].pc = "fnFlip" /\ f = s[i].node /\ f \in rows /\ chunk' = chunk /\ object' = object
    BY <1>2, <2>1 DEF FinalizeFlip, At
  <2> QED
    BY <1>0, <2>2 DEF FinalSlot
<1>3. CASE f \in complete
  <2>1. f \in chunk' /\ f \in chunk /\ (f \in object \/ Going(f))
    BY <1>0, <1>1, <1>3, FilesKeep DEF Intact
  <2>2. CASE f \in object
    <3>1. CASE FinalizeMeasure(i) /\ object' = object \ {s[i].node}
      BY <1>0, <1>3, <2>1, <2>2, <3>1 DEF FinalizeMeasure, At, PcTyped, PcOf, BirthSlot
    <3>2. CASE DeleteObjects(i) /\ \E S \in SUBSET s[i].keys : object' = object \ S
      <4>1. Goto(i, "delete")
        BY <3>2 DEF DeleteObjects
      <4>2. s'[i].pc = "delete" /\ s'[i].keys = s[i].keys
        BY <1>0, <4>1, Tags, GotoSlot
      <4> QED
        BY <2>1, <2>2, <3>2, <4>2
    <3> QED
      BY <2>1, <2>2, <3>1, <3>2, ObjectEffects
  <2>3. CASE Going(f)
    <3>1. PICK k \in Slot : s[k].pc = "delete" /\ f \in s[k].keys
      BY <2>3
    <3>2. CASE k # i
      <4>1. s'[k] = s[k]
        BY <1>0, <3>2 DEF Proceeds, Others
      <4> QED
        BY <2>1, <3>1, <4>1
    <3>3. CASE k = i
      <4>1. ~Crash(i)
        BY <3>1, <3>3 DEF Crash, Errs, FilesApart
      <4>2. FinishDelete(i)
        BY <3>1, <3>3, <4>1 DEF At, Handler, CreateCheckParent, CreateInsert,
           FinalizeReadRow, FinalizeMeasure, FinalizeInsertChunks, FinalizeFlip,
           TrashCheckHold, TrashMark, RestoreReadRow, RestoreMark, PurgeReadRow,
           PurgeReadKeys, PurgeCheckHeld, EmptyList, EmptyCheckHeld, ExpireList,
           SweepList, ReadKeys, DeleteObjects, MoveReadRow, MoveReadDest, MoveWalk,
           MoveUpdate
      <4> DEFINE D == Doomed(i) \cap rows
      <4>3. /\ \A n \in rows \ Doomed(i) : parent[n] \notin D
            /\ f \in Doomed(i)
        BY <1>3, <3>1, <3>3, NotRefused
      <4>4. rows' = rows \ D
        <5>1. ~\E n \in rows \ D : parent[n] \in D
          BY <4>3
        <5> HIDE DEF D
        <5>2. DeleteRows(D)
          BY <4>2 DEF FinishDelete, D
        <5> QED
          BY <5>1, <5>2 DEF DeleteRows
      <4>5. f \in rows
        BY <1>0, <1>3 DEF RowsTyped
      <4> QED
        BY <1>1, <4>3, <4>4, <4>5
    <3> QED
      BY <3>2, <3>3
  <2> QED
    BY <2>1, <2>2, <2>3
<1> QED
  BY <1>2, <1>3

LEMMA FilesBegin ==
  ASSUME Tree, FilesInv, FilesApart, NEW i \in Slot, Begin(i)
  PROVE  FilesInv'
<1>0. /\ TypeInv /\ Others(i) /\ Started(i) /\ s'[i].ids = {} /\ s'[i].keys = {}
      /\ UNCHANGED <<rows, parent, stamp, complete, chunk>> /\ s[i].op = "none"
      /\ PcTyped(i)
  BY BeginStarts, TreeAlone DEF Tree, Base, TypeInv
<1>1. object' = object
  BY DEF Begin, StartEmpty, StartExpire, StartSweep, StartFinalize, StartRestore,
     StartPurge, StartTrash, StartCreate, StartMove
<1>2. StampOrder'
  BY <1>0 DEF FilesInv, StampOrder
<1>3. Intact'
  <2>1. \A k \in Slot : s[k].pc = "delete" => s'[k] = s[k]
    BY <1>0 DEF Others, PcTyped, PcOf
  <2> QED
    BY <1>0, <1>1, <2>1 DEF FilesInv, Intact
<1>4. ASSUME NEW j \in Slot, j # i
      PROVE  FinalSlot(j)' /\ DoomSlot(j)'
  BY <1>0, <1>1, <1>4 DEF Others, FilesInv, FinalSlot, DoomSlot
<1>5. FinalSlot(i)'
  BY <1>0 DEF Started, FinalSlot
<1>6. DoomSlot(i)'
  <2>1. s'[i].op = "purge" =>
          s'[i].node \in TopOfTrash /\ \A m \in rows : parent[m] # s'[i].node
    BY <1>0 DEF Started, FilesApart
  <2>2. s'[i].op = "purge" => stamp[s'[i].node] # Live
    BY <1>0, <2>1, ShownSets
  <2> QED
    BY <1>0, <2>1, <2>2 DEF DoomSlot
<1> QED
  BY <1>2, <1>3, <1>4, <1>5, <1>6 DEF FilesInv

LEMMA FilesNext ==
  ASSUME FilesApart
  PROVE  Tree /\ FilesInv /\ [Next]_vars => FilesInv'
<1> SUFFICES ASSUME Tree, FilesInv, [Next]_vars PROVE FilesInv'
  OBVIOUS
<1>1. ASSUME NEW i \in Slot, Handler(i) \/ Crash(i)
      PROVE  FilesInv'
  BY <1>1, FilesStamps, IntactStep, FinalSlots, DoomOther, DoomSelf DEF FilesInv
<1>2. CASE Outside \/ UNCHANGED vars
  <2>1. UNCHANGED <<rows, parent, stamp, complete, chunk, s>> /\ object \subseteq object'
    BY <1>2, TreeAlone DEF Outside, vars, PutObject, Abandon, SetHold, Age
  <2>2. Intact' /\ StampOrder'
    BY <2>1 DEF FilesInv, Intact, StampOrder
  <2> QED
    BY <2>1, <2>2 DEF FilesInv, FinalSlot, DoomSlot
<1> QED
  BY <1>1, <1>2, FilesBegin, StepCases

LEMMA FilesHolds ==
  ASSUME FilesApart
  PROVE  Spec => [](Tree /\ FilesInv)
<1>1. TreeApart
  BY DEF FilesApart
<1>2. Init => FilesInv
  BY FilesInit
<1>3. Tree /\ FilesInv /\ [Next]_vars => FilesInv'
  BY FilesNext
<1>4. Base /\ UndoInv /\ TreeInv <=> Tree
  BY DEF Tree
<1> QED
  BY <1>1, <1>2, <1>3, <1>4, TreeHolds, PTL DEF Spec

\* A file that is live and complete has its chunk rows and its objects, whatever is
\* trashed, restored, purged, emptied and expired around it, also when the deletion of
\* an object fails or a cron cannot read the chunks, as long as no restore overlaps
\* with a deletion, no finalize with one that could take its file, nobody dies between
\* the objects and the rows, and what is purged has nothing below it.
THEOREM FilesIntact ==
  ASSUME FilesApart
  PROVE  Spec => []LiveFilesIntact
<1>1. Tree /\ FilesInv => LiveFilesIntact
  <2> SUFFICES ASSUME Tree, FilesInv, NEW f \in complete \cap Files, f \notin Trashed
               PROVE  f \in chunk /\ f \in object
    BY DEF LiveFilesIntact
  <2>1. f \in rows /\ f \in chunk /\ stamp[f] = Live
    BY DEF Tree, Base, TypeInv, RowsTyped, FilesInv, Intact, Trashed
  <2>2. ASSUME NEW i \in Slot, s[i].pc = "delete", f \in s[i].keys
        PROVE  FALSE
    <3>1. PcTyped(i) /\ SlotTyped(i) /\ DoomSlot(i)
      BY DEF Tree, Base, TypeInv, FilesInv
    <3>2. s[i].op \in {"purge", "empty", "expire", "sweep"}
      BY <2>2, <3>1 DEF PcTyped, PcOf
    <3>3. CASE s[i].op = "purge"
      BY <2>1, <2>2, <3>1, <3>3 DEF DoomSlot
    <3>4. CASE s[i].op \in {"empty", "expire"}
      BY <2>1, <2>2, <3>1, <3>4 DEF DoomSlot, SlotTyped, Targets
    <3>5. CASE s[i].op = "sweep"
      BY <2>1, <2>2, <3>1, <3>5 DEF DoomSlot, SlotTyped, Targets
    <3> QED
      BY <3>2, <3>3, <3>4, <3>5
  <2> QED
    BY <2>1, <2>2 DEF FilesInv, Intact
<1> QED
  BY <1>1, FilesHolds, PTL

\* When empty, expiry, sweep or purge asks for the deletion of its rows, no row that
\* stays has one of them for its parent: the foreign key refuses nothing, though it
\* has no ON DELETE CASCADE and the rows go in one statement.
THEOREM DeletesGoThrough ==
  ASSUME FilesApart
  PROVE  Spec => [](\A i \in Slot : At(i, "delete") =>
                      \A n \in rows \ Doomed(i) : parent[n] \notin Doomed(i) \cap rows)
<1>1. Tree /\ FilesInv =>
        \A i \in Slot : At(i, "delete") =>
          \A n \in rows \ Doomed(i) : parent[n] \notin Doomed(i) \cap rows
  BY NotRefused DEF At
<1> QED
  BY <1>1, FilesHolds, PTL
-----------------------------------------------------------------------------
(* A held node outlives every deletion, when no hold is set while a purge, *)
(* an empty or an expiry is under way, nothing is trashed during an empty  *)
(* and nothing finalized during a sweep.                                   *)

HeldSlot(i) ==
  /\ s[i].op = "purge" /\ s[i].pc # "puRow" => s[i].node \notin held
  /\ s[i].op = "purge" /\ s[i].pc \in {"objects", "delete"} => s[i].keys \cap held = {}
  /\ s[i].op = "empty" /\ s[i].pc # "emList" => Trashed \subseteq s[i].ids
  /\ s[i].op = "empty" /\ s[i].pc \notin {"emList", "emHeld"} => s[i].ids \cap held = {}
  /\ s[i].op = "expire" => s[i].ids \cap held = {}
  /\ s[i].op = "sweep" => s[i].ids \cap complete = {}

HeldInv == \A i \in Slot : HeldSlot(i)

HeldApart ==
  {{"purge", "hold"}, {"empty", "hold"}, {"expire", "hold"}, {"trash", "empty"},
   {"finalize", "sweep"}} \subseteq Apart

\* The trash does not grow while an empty is kept apart from a trash.
LEMMA TrashedShrinks ==
  ASSUME Base, NEW i \in Slot, Handler(i) \/ Crash(i), ~TrashMark(i)
  PROVE  Trashed' \subseteq Trashed
<1>0. PcTyped(i) /\ BirthSlot(i) /\ rows \subseteq Node
  BY DEF Base, TypeInv, RowsTyped, BirthInv
<1>1. CASE CreateInsert(i)
  <2>1. stamp[s[i].node] = Live
    BY <1>0, <1>1 DEF CreateInsert, At, PcTyped, PcOf, BirthSlot, Fresh
  <2> QED
    BY <1>1, <2>1 DEF CreateInsert, Trashed
<1>2. CASE RestoreMark(i)
  BY <1>0, <1>2 DEF RestoreMark, Trashed
<1>3. CASE FinishDelete(i)
  BY <1>3 DEF FinishDelete, DeleteRows, Trashed
<1>4. CASE ~CreateInsert(i) /\ ~RestoreMark(i) /\ ~FinishDelete(i)
  BY <1>4, HandlerEffects DEF TablesSame, FinalizeInsertChunks, FinalizeFlip, MoveUpdate,
     Trashed
<1> QED
  BY <1>1, <1>2, <1>3, <1>4

LEMMA HeldShrinks ==
  ASSUME NEW i \in Slot, Handler(i) \/ Crash(i)
  PROVE  held' \subseteq held
BY HandlerEffects DEF TablesSame, CreateInsert, FinalizeInsertChunks, FinalizeFlip,
   TrashMark, RestoreMark, FinishDelete, DeleteRows, MoveUpdate

\* A request that goes on with the nodes it has, and has nothing held among them.
LEMMA HeldKeeps ==
  ASSUME Base, HeldInv, NEW i \in Slot, Handler(i) \/ Crash(i), NEW j \in Slot, j # i,
         {{"trash", "empty"}, {"finalize", "sweep"}} \subseteq Apart
  PROVE  HeldSlot(j)'
<1>0. /\ s'[j] = s[j] /\ HeldSlot(j) /\ PcTyped(i) /\ s[i].op # "none" /\ KeptApart
      /\ TypeInv /\ SlotTyped(j)
  BY HandlerProceeds, HandlerBusy DEF Proceeds, Others, HeldInv, Base, TypeInv, BirthInv
<1>1. s[j].op # "none" => {s[i].op, s[j].op} \notin Apart
  BY <1>0 DEF KeptApart
<1>2. held' \subseteq held
  BY HeldShrinks
<1>3. s[j].op = "empty" => Trashed' \subseteq Trashed
  <2>1. s[j].op = "empty" => ~TrashMark(i)
    BY <1>0, <1>1 DEF TrashMark, At, PcTyped, PcOf
  <2> QED
    BY <2>1, TrashedShrinks
<1>4. s[j].op = "sweep" => s[j].ids \cap complete' = {}
  <2>1. s[j].op = "sweep" => ~FinalizeFlip(i)
    BY <1>0, <1>1 DEF FinalizeFlip, At, PcTyped, PcOf
  <2>2. s[j].op = "sweep" => s[j].ids \subseteq Files /\ s[j].ids \cap complete = {}
    BY <1>0 DEF SlotTyped, HeldSlot
  <2> QED
    BY <1>0, <2>1, <2>2, FilesKeep
<1> QED
  BY <1>0, <1>2, <1>3, <1>4 DEF HeldSlot

LEMMA HeldSelf ==
  ASSUME Base, HeldInv, NEW i \in Slot, Handler(i) \/ Crash(i)
  PROVE  HeldSlot(i)'
<1>0. TypeInv /\ SlotTyped(i) /\ HeldSlot(i) /\ PcTyped(i)
  BY DEF Base, TypeInv, HeldInv
<1>1. CASE s'[i].op \notin Deletes
  BY <1>1 DEF Deletes, HeldSlot
<1>2. CASE s'[i].op \in Deletes
  <2>1. /\ s'[i].op = s[i].op
        /\ \/ s[i].op = "sweep" /\ SweepGoes(i)
           \/ /\ s'[i].node = s[i].node /\ TablesSame
              /\ \/ s[i].op = "purge" /\ PurgeGoes(i) /\ object' = object
                 \/ s[i].op = "empty" /\ EmptyGoes(i) /\ object' = object
                 \/ s[i].op = "expire" /\ ExpireGoes(i) /\ object' = object
                 \/ KeysGo(i) /\ object' = object
                 \/ ObjectsGo(i)
    BY <1>0, <1>2, DeleteGoes
  <2>2. TablesSame => held' = held /\ complete' = complete /\ Trashed' = Trashed
    BY DEF TablesSame, Trashed
  <2>3. CASE s[i].op = "sweep" /\ SweepGoes(i)
    <3>1. ~FinalizeFlip(i)
      BY <1>0, <2>3 DEF FinalizeFlip, At, PcTyped, PcOf
    <3>2. s[i].ids \subseteq Files /\ s[i].ids \cap complete = {}
      BY <1>0, <2>3 DEF SlotTyped, HeldSlot
    <3>3. s[i].ids \cap complete' = {}
      BY <1>0, <3>1, <3>2, FilesKeep
    <3>4. Stale \cap complete = {}
      BY DEF Stale
    <3> QED
      BY <2>1, <2>2, <2>3, <3>3, <3>4 DEF SweepGoes, HeldSlot
  <2>4. CASE s[i].op = "purge" /\ PurgeGoes(i) /\ TablesSame /\ s'[i].node = s[i].node
    BY <1>0, <2>1, <2>2, <2>4 DEF PurgeGoes, StepsTo, HeldSlot
  <2>5. CASE s[i].op = "empty" /\ EmptyGoes(i) /\ TablesSame
    BY <1>0, <2>1, <2>2, <2>5 DEF EmptyGoes, StepsTo, HeldSlot
  <2>6. CASE s[i].op = "expire" /\ ExpireGoes(i) /\ TablesSame
    <3>1. Expirable \cap held = {}
      BY BelowIs, BelowSelf DEF Expirable
    <3> QED
      BY <2>1, <2>2, <2>6, <3>1 DEF ExpireGoes, StepsTo, HeldSlot
  <2>7. CASE (KeysGo(i) \/ ObjectsGo(i)) /\ TablesSame /\ s'[i].node = s[i].node
    BY <1>0, <2>1, <2>2, <2>7 DEF KeysGo, ObjectsGo, StepsTo, HeldSlot
  <2> QED
    BY <2>1, <2>3, <2>4, <2>5, <2>6, <2>7
<1> QED
  BY <1>1, <1>2

LEMMA HeldNext ==
  ASSUME HeldApart
  PROVE  Base /\ HeldInv /\ [Next]_vars => HeldInv'
<1> SUFFICES ASSUME Base, HeldInv, [Next]_vars PROVE HeldInv'
  OBVIOUS
<1>1. ASSUME NEW i \in Slot, Handler(i) \/ Crash(i)
      PROVE  HeldInv'
  BY <1>1, HeldKeeps, HeldSelf DEF HeldInv, HeldApart
<1>2. ASSUME NEW i \in Slot, Begin(i)
      PROVE  HeldInv'
  <2>1. /\ Others(i) /\ Started(i) /\ s'[i].ids = {} /\ s'[i].keys = {}
        /\ UNCHANGED <<rows, stamp, complete>>
    BY <1>2, BeginStarts, TreeAlone DEF Base
  <2>2. held' = held
    BY <1>2 DEF Begin, StartEmpty, StartExpire, StartSweep, StartFinalize, StartRestore,
       StartPurge, StartTrash, StartCreate, StartMove
  <2>3. ASSUME NEW j \in Slot, j # i
        PROVE  HeldSlot(j)'
    BY <2>1, <2>2, <2>3 DEF Others, HeldInv, HeldSlot, Trashed
  <2>4. HeldSlot(i)'
    BY <2>1 DEF Started, HeldSlot
  <2> QED
    BY <2>3, <2>4 DEF HeldInv
<1>3. CASE UNCHANGED <<rows, stamp, complete, held, s>>
  BY <1>3 DEF HeldInv, HeldSlot, Trashed
<1>4. ASSUME NEW n \in Node, SetHold(n)
      PROVE  HeldInv'
  <2>1. UNCHANGED <<rows, stamp, complete, s>> /\ MayRun("hold")
    BY <1>4 DEF SetHold
  <2>2. \A o \in {"purge", "empty", "expire"} : {"hold", o} \in Apart
    <3>1. \A o : {"hold", o} = {o, "hold"}
      OBVIOUS
    <3> QED
      BY <3>1 DEF HeldApart
  <2>3. \A j \in Slot : s[j].op \notin {"purge", "empty", "expire"}
    BY <2>1, <2>2 DEF MayRun
  <2> QED
    BY <2>1, <2>3 DEF HeldInv, HeldSlot
<1> QED
  BY <1>1, <1>2, <1>3, <1>4, StepCases DEF Outside, vars, PutObject, Abandon, Age

LEMMA HeldHolds ==
  ASSUME HeldApart
  PROVE  Spec => []HeldInv
<1>1. Init => HeldInv
  BY DEF Init, Idle, HeldInv, HeldSlot
<1>2. Base /\ HeldInv /\ [Next]_vars => HeldInv'
  BY HeldNext
<1> QED
  BY <1>1, <1>2, BaseHolds, PTL DEF Spec

\* What a request deletes for good, rows and objects, holds nothing that is held.
LEMMA NothingHeld ==
  ASSUME Base, HeldInv, NEW i \in Slot
  PROVE  /\ s[i].pc = "delete" => Doomed(i) \cap held = {}
         /\ s[i].pc = "objects" => s[i].keys \cap held = {}
<1>0. /\ SlotTyped(i) /\ HeldSlot(i) /\ PcTyped(i) /\ held \subseteq complete
      /\ complete \subseteq rows
  BY DEF Base, TypeInv, RowsTyped, HeldInv
<1> SUFFICES ASSUME s[i].pc \in {"objects", "delete"}
             PROVE  Doomed(i) \cap held = {} /\ s[i].keys \cap held = {}
  OBVIOUS
<1>1. s[i].op \in {"purge", "empty", "expire", "sweep"}
  BY <1>0 DEF PcTyped, PcOf
<1>2. CASE s[i].op = "purge"
  BY <1>0, <1>2 DEF Doomed, Targets, SlotTyped, HeldSlot
<1>3. CASE s[i].op = "empty"
  BY <1>0, <1>3 DEF Doomed, Targets, SlotTyped, HeldSlot
<1>4. CASE s[i].op = "expire"
  BY <1>0, <1>4 DEF Doomed, Targets, SlotTyped, HeldSlot
<1>5. CASE s[i].op = "sweep"
  BY <1>0, <1>5 DEF Doomed, Targets, SlotTyped, HeldSlot
<1> QED
  BY <1>1, <1>2, <1>3, <1>4, <1>5

\* A held node and its objects outlive every purge, empty, expiry and sweep, however
\* deep in the trash the node lies, if no hold is set while one of the first three is
\* under way, nothing is trashed during an empty and nothing finalized during a sweep.
THEOREM HeldStays ==
  ASSUME HeldApart
  PROVE  Spec => HeldSurvives
<1>1. Base /\ HeldInv /\ [Next]_vars =>
        \A n \in (held \cap held') \cup (held \ rows') :
          n \in rows' /\ (n \in object => n \in object')
  <2> SUFFICES ASSUME Base, HeldInv, [Next]_vars, NEW n \in held
               PROVE  n \in rows' /\ (n \in object => n \in object')
    OBVIOUS
  <2>0. n \in complete /\ n \in rows /\ n \in Node
    BY DEF Base, TypeInv, RowsTyped
  <2>1. ASSUME NEW i \in Slot, Handler(i) \/ Crash(i)
        PROVE  n \in rows' /\ (n \in object => n \in object')
    <3>1. n \in rows'
      <4>1. CASE FinishDelete(i)
        BY <2>0, <4>1, NothingHeld DEF FinishDelete, At, DeleteRows
      <4>2. CASE ~FinishDelete(i)
        BY <2>0, <2>1, <4>2, HandlerEffects DEF TablesSame, CreateInsert,
           FinalizeInsertChunks, FinalizeFlip, TrashMark, RestoreMark, MoveUpdate
      <4> QED
        BY <4>1, <4>2
    <3>2. CASE FinalizeMeasure(i) /\ object' = object \ {s[i].node}
      <4>1. s[i].node \notin complete
        BY <3>2 DEF FinalizeMeasure, At, Base, TypeInv, PcTyped, PcOf, BirthInv, BirthSlot
      <4> QED
        BY <2>0, <3>1, <3>2, <4>1
    <3>3. CASE DeleteObjects(i) /\ \E S \in SUBSET s[i].keys : object' = object \ S
      BY <3>1, <3>3, NothingHeld DEF DeleteObjects, At
    <3> QED
      BY <2>1, <3>1, <3>2, <3>3, ObjectEffects
  <2>2. CASE \/ \E i \in Slot : Begin(i)
             \/ Outside \/ UNCHANGED vars
    <3>1. rows' = rows /\ object \subseteq object'
      BY <2>2 DEF Begin, StartEmpty, StartExpire, StartSweep, StartFinalize,
         StartRestore, StartPurge, StartTrash, StartCreate, StartMove, Outside, vars,
         PutObject, Abandon, SetHold, Age
    <3> QED
      BY <2>0, <3>1
  <2> QED
    BY <2>1, <2>2, StepCases
<1> QED
  BY <1>1, BaseHolds, HeldHolds, PTL DEF Spec, HeldSurvives

-----------------------------------------------------------------------------
(* Objects go before the rows that name them, when no delete of an object  *)
(* fails, no cron fails to read the chunks, nothing is trashed during an   *)
(* empty, and no finalize overlaps with an empty, an expiry or a sweep.    *)

GoneSlot(i) ==
  /\ s[i].op = "empty" /\ s[i].pc # "emList" => Trashed \subseteq s[i].ids
  /\ s[i].pc \in {"puHeld", "objects", "delete"} => Targets(i) \cap chunk \subseteq s[i].keys
  /\ s[i].pc = "delete" => Targets(i) \cap chunk \cap object = {}

GoneInv == \A i \in Slot : GoneSlot(i)

GoneApart ==
  /\ {{"trash", "empty"}, {"finalize", "empty"}, {"finalize", "expire"},
      {"finalize", "sweep"}} \subseteq Apart
  /\ Faults \cap {"objects", "chunks"} = {}

\* What a request is about to delete gets no chunk rows.
LEMMA NoNewChunks ==
  ASSUME Base, GoneApart, NEW i \in Slot, Handler(i) \/ Crash(i), NEW j \in Slot, j # i,
         s[j].pc \in {"puHeld", "objects", "delete"}
  PROVE  Targets(j) \cap chunk' \subseteq chunk
<1>0. /\ PcTyped(i) /\ PcTyped(j) /\ SlotTyped(j) /\ BirthSlot(i) /\ BirthSlot(j)
      /\ KeptApart
  BY DEF Base, TypeInv, BirthInv
<1>1. CASE FinalizeInsertChunks(i)
  <2>1. s[i].op = "finalize" /\ s[i].node \notin complete
    BY <1>0, <1>1 DEF FinalizeInsertChunks, At, PcTyped, PcOf, BirthSlot
  <2>2. s[j].op \in {"purge", "empty", "expire", "sweep"}
    BY <1>0 DEF PcTyped, PcOf
  <2>3. {"finalize", s[j].op} \notin Apart
    BY <1>0, <2>1, <2>2 DEF KeptApart
  <2>4. s[j].op = "purge"
    BY <2>2, <2>3 DEF GoneApart
  <2>5. Targets(j) = {s[j].node} /\ (s[j].node \in rows => s[j].node \in complete)
    BY <1>0, <2>4 DEF Targets, SlotTyped, BirthSlot
  <2> QED
    BY <1>1, <2>1, <2>5 DEF FinalizeInsertChunks
<1>2. CASE ~FinalizeInsertChunks(i)
  BY <1>2, HandlerEffects DEF TablesSame, CreateInsert, FinalizeFlip, TrashMark,
     RestoreMark, FinishDelete, DeleteRows, MoveUpdate
<1> QED
  BY <1>1, <1>2

LEMMA GoneOther ==
  ASSUME Base, GoneInv, GoneApart, NEW i \in Slot, Handler(i) \/ Crash(i),
         NEW j \in Slot, j # i
  PROVE  GoneSlot(j)'
<1>0. /\ s'[j] = s[j] /\ GoneSlot(j) /\ PcTyped(i) /\ s[i].op # "none" /\ KeptApart
      /\ TypeInv
  BY HandlerProceeds, HandlerBusy DEF Proceeds, Others, GoneInv, Base, TypeInv, BirthInv
<1>1. s[j].op = "empty" => Trashed' \subseteq Trashed
  <2>1. s[j].op = "empty" => ~TrashMark(i)
    BY <1>0 DEF KeptApart, GoneApart, TrashMark, At, PcTyped, PcOf
  <2> QED
    BY <2>1, TrashedShrinks
<1>2. object' \subseteq object
  BY ObjectEffects
<1>3. s[j].pc \in {"puHeld", "objects", "delete"} => Targets(j) \cap chunk' \subseteq chunk
  BY NoNewChunks
<1>4. Targets(j)' = Targets(j)
  BY <1>0 DEF Targets
<1> QED
  BY <1>0, <1>1, <1>2, <1>3, <1>4 DEF GoneSlot

LEMMA GoneSelf ==
  ASSUME Base, GoneInv, GoneApart, NEW i \in Slot, Handler(i) \/ Crash(i)
  PROVE  GoneSlot(i)'
<1>0. TypeInv /\ TypeInv' /\ SlotTyped(i) /\ GoneSlot(i) /\ PcTyped(i) /\ RowsTyped
  BY TypeHandler, TypeCrash DEF Base, TypeInv, GoneInv
<1>1. CASE s'[i].op \notin Deletes
  BY <1>0, <1>1 DEF Deletes, GoneSlot, TypeInv, PcTyped, PcOf
<1>2. CASE s'[i].op \in Deletes
  <2>1. /\ s'[i].op = s[i].op
        /\ \/ s[i].op = "sweep" /\ SweepGoes(i)
           \/ /\ s'[i].node = s[i].node /\ TablesSame
              /\ \/ s[i].op = "purge" /\ PurgeGoes(i) /\ object' = object
                 \/ s[i].op = "empty" /\ EmptyGoes(i) /\ object' = object
                 \/ s[i].op = "expire" /\ ExpireGoes(i) /\ object' = object
                 \/ KeysGo(i) /\ object' = object
                 \/ ObjectsGo(i)
    BY <1>0, <1>2, DeleteGoes
  <2>2. TablesSame => chunk' = chunk /\ Trashed' = Trashed
    BY DEF TablesSame, Trashed
  <2>3. CASE s[i].op = "sweep" /\ SweepGoes(i)
    BY <2>1, <2>3 DEF SweepGoes, StepsTo, GoneSlot
  <2>4. CASE s[i].op = "purge" /\ PurgeGoes(i) /\ TablesSame /\ s'[i].node = s[i].node
    <3>1. PICK n : n = s[i].node
      OBVIOUS
    <3>2. {n} \cap chunk \subseteq PurgeKeys(n)
      BY <1>0, BelowIs, BelowSelf DEF PurgeKeys, RowsTyped
    <3>3. Targets(i) = s[i].ids /\ Targets(i)' = s'[i].ids
      BY <2>1, <2>4 DEF Targets
    <3>4. CASE StepsTo(i, "puKeys", "puHeld")
      BY <2>1, <2>2, <2>4, <3>1, <3>2, <3>3, <3>4 DEF PurgeGoes, StepsTo, GoneSlot
    <3>5. CASE ~StepsTo(i, "puKeys", "puHeld")
      BY <1>0, <2>1, <2>2, <2>4, <3>3, <3>5 DEF PurgeGoes, StepsTo, GoneSlot
    <3> QED
      BY <3>4, <3>5
  <2>5. CASE s[i].op = "empty" /\ EmptyGoes(i) /\ TablesSame
    BY <1>0, <2>1, <2>2, <2>5 DEF EmptyGoes, StepsTo, GoneSlot
  <2>6. CASE s[i].op = "expire" /\ ExpireGoes(i) /\ TablesSame
    BY <1>0, <2>1, <2>2, <2>6 DEF ExpireGoes, StepsTo, GoneSlot
  <2>7. CASE KeysGo(i) /\ TablesSame /\ s'[i].node = s[i].node
    <3>1. Targets(i)' = Targets(i) /\ s'[i].keys = Targets(i) \cap chunk
      BY <2>1, <2>7 DEF KeysGo, Targets, GoneApart
    <3> QED
      BY <1>0, <2>1, <2>2, <2>7, <3>1 DEF KeysGo, StepsTo, GoneSlot
  <2>8. CASE ObjectsGo(i) /\ TablesSame /\ s'[i].node = s[i].node
    <3>1. Targets(i)' = Targets(i) /\ object' = object \ s[i].keys
      BY <2>1, <2>8 DEF ObjectsGo, Targets, DeleteObjects, Errs, GoneApart
    <3> QED
      BY <1>0, <2>1, <2>2, <2>8, <3>1 DEF ObjectsGo, StepsTo, GoneSlot
  <2> QED
    BY <2>1, <2>3, <2>4, <2>5, <2>6, <2>7, <2>8
<1> QED
  BY <1>1, <1>2

LEMMA GoneNext ==
  ASSUME GoneApart
  PROVE  Base /\ GoneInv /\ [Next]_vars => GoneInv'
<1> SUFFICES ASSUME Base, GoneInv, [Next]_vars PROVE GoneInv'
  OBVIOUS
<1>1. ASSUME NEW i \in Slot, Handler(i) \/ Crash(i)
      PROVE  GoneInv'
  BY <1>1, GoneOther, GoneSelf DEF GoneInv
<1>2. ASSUME NEW i \in Slot, Begin(i)
      PROVE  GoneInv'
  <2>1. Others(i) /\ Started(i) /\ UNCHANGED <<rows, stamp, chunk>>
    BY <1>2, BeginStarts, TreeAlone DEF Base
  <2>2. object' = object
    BY <1>2 DEF Begin, StartEmpty, StartExpire, StartSweep, StartFinalize, StartRestore,
       StartPurge, StartTrash, StartCreate, StartMove
  <2>3. ASSUME NEW j \in Slot, j # i
        PROVE  GoneSlot(j)'
    BY <2>1, <2>2, <2>3 DEF Others, GoneInv, GoneSlot, Trashed, Targets
  <2>4. GoneSlot(i)'
    BY <2>1 DEF Started, GoneSlot
  <2> QED
    BY <2>3, <2>4 DEF GoneInv
<1>3. CASE UNCHANGED <<rows, stamp, chunk, object, s>>
  BY <1>3 DEF GoneInv, GoneSlot, Trashed, Targets
<1>4. ASSUME NEW n \in Node, PutObject(n)
      PROVE  GoneInv'
  <2>1. UNCHANGED <<rows, stamp, chunk, s>> /\ object' = object \cup {n} /\ n \notin chunk
    BY <1>4 DEF PutObject, Base, BirthInv, BirthData
  <2> QED
    BY <2>1 DEF GoneInv, GoneSlot, Trashed, Targets
<1> QED
  BY <1>1, <1>2, <1>3, <1>4, StepCases DEF Outside, vars, SetHold, Abandon, Age

LEMMA GoneHolds ==
  ASSUME GoneApart
  PROVE  Spec => []GoneInv
<1>1. Init => GoneInv
  BY DEF Init, Idle, GoneInv, GoneSlot
<1>2. Base /\ GoneInv /\ [Next]_vars => GoneInv'
  BY GoneNext
<1> QED
  BY <1>1, <1>2, BaseHolds, PTL DEF Spec

\* No row with chunk rows is deleted while one of its objects is there - nobody would
\* know its storage keys afterwards - however the crons, the purges and the restores
\* interleave and whatever request dies on the way, under the conditions above.
THEOREM ObjectsFirst ==
  ASSUME GoneApart
  PROVE  Spec => ObjectsGoFirst
<1>1. Base /\ GoneInv /\ [Next]_vars => (chunk \ rows') \cap object' = {}
  <2> SUFFICES ASSUME Base, GoneInv, [Next]_vars, NEW f \in chunk, f \notin rows'
               PROVE  f \notin object'
    OBVIOUS
  <2>1. f \in rows
    BY DEF Base, TypeInv, RowsTyped
  <2>2. PICK i \in Slot : Handler(i) \/ Crash(i)
    BY <2>1, StepCases, TreeAlone
  <2>3. FinishDelete(i)
    BY <2>1, <2>2, HandlerEffects DEF TablesSame, CreateInsert, FinalizeInsertChunks,
       FinalizeFlip, TrashMark, RestoreMark, MoveUpdate
  <2>4. f \in Doomed(i) /\ object' = object /\ s[i].pc = "delete"
    BY <2>1, <2>3 DEF FinishDelete, At, DeleteRows
  <2>5. f \in Targets(i)
    BY <2>4 DEF Doomed, Targets, GoneInv, GoneSlot
  <2> QED
    BY <2>4, <2>5 DEF GoneInv, GoneSlot
<1> QED
  BY <1>1, BaseHolds, GoneHolds, PTL DEF Spec, ObjectsGoFirst
=============================================================================
