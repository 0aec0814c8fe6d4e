--------------------------- MODULE TcpAuth_proofs ---------------------------
(***************************************************************************)
(* Proofs about TcpAuth for any set of peers, any size of the map and any  *)
(* length of the grace period.  What the filter lets through is proved for *)
(* any number of CPUs; what it must not drop, for one: with two it does.   *)
(***************************************************************************)
EXTENDS TcpAuth, FiniteSetTheorems, TLAPS

Flow  == {"none", "old", "live", "closing"}
Kinds == {"normal", "syn", "fin", "rst"}
Fin   == Time \cup {NoFin}

Types ==
    /\ TypeOK
    /\ enabled \in BOOLEAN /\ (set.toggle \/ enabled)
    /\ now \in Time
    /\ entered \in [CPU -> Flow]
    /\ finAt \in [Addr -> Fin]
    /\ spoke \in [Addr -> BOOLEAN]
    /\ observed \in [Addr -> BOOLEAN]

(* Where a packet can be in the program, by direction and kind *)
Places == \A c \in CPU :
    /\ pc[c] \in {"accept", "pass", "drop", "expire"} => In(c)
    /\ pc[c] \in {"clamp", "learn"} => ~In(c)
    /\ pc[c] = "set_fin" => pkt[c].kind = "fin"
    /\ pc[c] = "delete" => pkt[c].kind = "rst"
    /\ pc[c] = "pass" => set.toggle
    /\ pc[c] \in {"check", "set_fin", "clamp"} => conn[c] \in Elem

(* Only addresses that the host has opened or used are in the map, or in   *)
(* the hands of a program that has found them there.                       *)
Observed ==
    /\ \A e \in Elem : elem[e].key # NoAddr => observed[elem[e].key]
    /\ \A c \in CPU :
         /\ pc[c] \in {"check", "set_fin", "expire", "clamp", "accept"} => observed[pkt[c].addr]
         /\ (pc[c] = "delete" /\ In(c)) => observed[pkt[c].addr]
         /\ (pc[c] # "idle" /\ ~In(c) /\ Learns(c)) => observed[pkt[c].addr]

-----------------------------------------------------------------------------
(* Facts about the operators *)

LEMMA TimeFacts ==
    /\ NoFin \in Nat /\ NoFin \notin Time /\ Time \subseteq Nat
    /\ \A t \in Fin : t \in Nat
  BY TcpAuthAssumption DEF NoFin, Time, Fin

LEMMA PacketFacts ==
    \A p \in Packet : /\ p.addr \in Addr /\ p.kind \in Kinds /\ p.dir \in {"in", "out"}
                      /\ p.kind = "syn" => p.dir = "out"
  BY DEF Packet, Kinds

LEMMA SettingFacts ==
    ASSUME Types
    PROVE  NoAddr \notin Addr /\ Timeout \in Nat /\ set.last \in Time
  BY TcpAuthAssumption DEF Types, TypeOK, SettingType, Addr, Timeout

(* The packet has passed: its address' history changes, no other. *)
LEMMA ThroughFacts ==
    ASSUME Types, NEW p \in Packet, Through(p)
    PROVE  /\ flow' \in [Addr -> Flow] /\ finAt' \in [Addr -> Fin] /\ spoke' \in [Addr -> BOOLEAN]
           /\ \A a \in Addr : a # p.addr =>
                 flow'[a] = flow[a] /\ finAt'[a] = finAt[a] /\ (spoke'[a] <=> spoke[a])
           /\ flow'[p.addr] = IF /\ p.dir = "out"
                                 /\ p.kind = "syn" \/ (p.kind = "normal" /\ flow[p.addr] = "old" /\ ~enabled)
                              THEN "live" ELSE flow[p.addr]
           /\ finAt'[p.addr] = IF p.kind = "fin" THEN now
                               ELSE IF p.kind = "syn" THEN NoFin ELSE finAt[p.addr]
           /\ p.kind = "normal" =>
                 (spoke'[p.addr] <=> spoke[p.addr] \/ (p.dir = "out" /\ TimedOut(p.addr)))
<1>1. p.addr \in Addr
  BY PacketFacts
<1>2. now \in Fin /\ NoFin \in Fin
  BY DEF Types, Fin
<1>3. flow \in [Addr -> Flow] /\ finAt \in [Addr -> Fin] /\ spoke \in [Addr -> BOOLEAN]
  BY DEF Types, TypeOK, Flow
<1>4. /\ flow' \in [Addr -> Flow]
      /\ \A a \in Addr : a # p.addr => flow'[a] = flow[a]
      /\ flow'[p.addr] = IF /\ p.dir = "out"
                            /\ p.kind = "syn" \/ (p.kind = "normal" /\ flow[p.addr] = "old" /\ ~enabled)
                         THEN "live" ELSE flow[p.addr]
  BY <1>1, <1>3 DEF Through, Flow
<1>5. /\ finAt' \in [Addr -> Fin]
      /\ \A a \in Addr : a # p.addr => finAt'[a] = finAt[a]
      /\ finAt'[p.addr] = IF p.kind = "fin" THEN now
                          ELSE IF p.kind = "syn" THEN NoFin ELSE finAt[p.addr]
  BY <1>1, <1>2, <1>3 DEF Through
<1>6. /\ spoke' \in [Addr -> BOOLEAN]
      /\ \A a \in Addr : a # p.addr => (spoke'[a] <=> spoke[a])
      /\ p.kind = "normal" =>
            (spoke'[p.addr] <=> spoke[p.addr] \/ (p.dir = "out" /\ TimedOut(p.addr)))
  BY <1>1, <1>3 DEF Through
<1> QED
  BY <1>4, <1>5, <1>6

LEMMA ClosesFacts ==
    ASSUME Types, NEW p \in Packet, Closes(p)
    PROVE  /\ flow' \in [Addr -> Flow]
           /\ \A a \in Addr : a # p.addr => flow'[a] = flow[a]
           /\ flow'[p.addr] = IF p.kind = "rst" THEN "none"
                              ELSE IF p.kind = "fin" /\ flow[p.addr] # "none" THEN "closing"
                              ELSE flow[p.addr]
  BY PacketFacts DEF Types, TypeOK, Flow, Closes

LEMMA DeletedFacts ==
    ASSUME Types, NEW a \in Addr
    PROVE  /\ Deleted(a) \in [Elem -> [key : Addr \cup {NoAddr}, fin : Fin]]
           /\ \A e \in Elem : elem[e].key = a => Deleted(a)[e].key = NoAddr
           /\ \A e \in Elem : elem[e].key # a => Deleted(a)[e] = elem[e]
<1>1. elem \in [Elem -> [key : Addr \cup {NoAddr}, fin : Fin]]
  BY DEF Types, TypeOK, Fin
<1>2. \A e \in Elem : [elem[e] EXCEPT !.key = NoAddr] \in [key : Addr \cup {NoAddr}, fin : Fin]
  BY <1>1
<1>3. \A e \in Elem : [elem[e] EXCEPT !.key = NoAddr].key = NoAddr
  BY <1>1
<1> QED
  BY <1>1, <1>2, <1>3 DEF Deleted

(* Every write to the map keeps its elements well formed and their keys    *)
(* apart, and puts in no key but the packet's.                             *)
MapStep(a) ==
    /\ elem' \in [Elem -> [key : Addr \cup {NoAddr}, fin : Fin]]
    /\ \A e, f \in Elem : (elem'[e].key = elem'[f].key /\ elem'[e].key # NoAddr) => e = f
    /\ \A e \in Elem : elem'[e].key \in {elem[e].key, NoAddr, a}

LEMMA MapSame == ASSUME Types, NEW a, elem' = elem PROVE MapStep(a)
  BY DEF Types, TypeOK, Fin, MapStep

LEMMA MapDeleted == ASSUME Types, NEW a \in Addr, elem' = Deleted(a) PROVE MapStep(a)
  BY DeletedFacts DEF Types, TypeOK, MapStep

LEMMA StoreFacts ==
    ASSUME Types, NEW e \in Elem, NEW t \in Fin, elem' = [elem EXCEPT ![e].fin = t]
    PROVE  /\ elem' \in [Elem -> [key : Addr \cup {NoAddr}, fin : Fin]]
           /\ \A f \in Elem : elem'[f].key = elem[f].key
           /\ elem'[e].fin = t
           /\ \A f \in Elem : f # e => elem'[f] = elem[f]
<1>1. elem \in [Elem -> [key : Addr \cup {NoAddr}, fin : Fin]]
  BY DEF Types, TypeOK, Fin
<1> QED
  BY <1>1

LEMMA MapStored ==
    ASSUME Types, NEW a, NEW e \in Elem, NEW t \in Fin, elem' = [elem EXCEPT ![e].fin = t]
    PROVE  MapStep(a)
<1>1. /\ elem' \in [Elem -> [key : Addr \cup {NoAddr}, fin : Fin]]
      /\ \A f \in Elem : elem'[f].key = elem[f].key
  BY StoreFacts
<1> QED
  BY <1>1 DEF Types, TypeOK, MapStep

LEMMA AddFacts ==
    ASSUME Types, NEW a \in Addr, Add(a)
    PROVE  \E e \in Elem :
              /\ Available # {} => elem[e].key = NoAddr
              /\ elem'[e] = [key |-> a, fin |-> NoFin]
              /\ \A f \in Elem : f # e => elem'[f] = Deleted(a)[f]
              /\ elem' \in [Elem -> [key : Addr \cup {NoAddr}, fin : Fin]]
<1>1. PICK e \in Elem : /\ Available # {} => elem[e].key = NoAddr
                        /\ elem' = [Deleted(a) EXCEPT ![e] = [key |-> a, fin |-> NoFin]]
  BY DEF Add, Available
<1>2. [key |-> a, fin |-> NoFin] \in [key : Addr \cup {NoAddr}, fin : Fin]
  BY DEF Fin
<1>3. Deleted(a) \in [Elem -> [key : Addr \cup {NoAddr}, fin : Fin]]
  BY DeletedFacts
<1> QED
  BY <1>1, <1>2, <1>3

LEMMA MapAdded == ASSUME Types, NEW a \in Addr, Add(a) PROVE MapStep(a)
<1>1. PICK e \in Elem :
         /\ elem'[e] = [key |-> a, fin |-> NoFin]
         /\ \A f \in Elem : f # e => elem'[f] = Deleted(a)[f]
         /\ elem' \in [Elem -> [key : Addr \cup {NoAddr}, fin : Fin]]
  BY AddFacts
<1>2. \A f \in Elem : f # e => elem'[f].key # a \/ a = NoAddr
  BY <1>1, DeletedFacts
<1>3. elem'[e].key = a /\ a # NoAddr
  BY <1>1, SettingFacts
<1>4. \A f \in Elem : f # e => elem'[f].key = NoAddr \/ elem'[f].key = elem[f].key
  BY <1>1, DeletedFacts
<1> QED
  BY <1>1, <1>2, <1>3, <1>4 DEF Types, TypeOK, MapStep

(* Where a program goes when it has done with the map *)
LEMMA LeaveFacts ==
    ASSUME Types, NEW c \in CPU, Leave(c)
    PROVE  /\ pc' = [pc EXCEPT ![c] = IF In(c) THEN "accept" ELSE "idle"]
           /\ In(c) => UNCHANGED <<flow, finAt, spoke>>
           /\ ~In(c) => Through(pkt[c])
           /\ flow' \in [Addr -> Flow] /\ finAt' \in [Addr -> Fin] /\ spoke' \in [Addr -> BOOLEAN]
<1>1. pkt[c] \in Packet
  BY DEF Types, TypeOK
<1>2. CASE In(c)
  BY <1>2 DEF Leave, Goto, Types, TypeOK, Flow
<1>3. CASE ~In(c)
  BY <1>1, <1>3, ThroughFacts DEF Leave, Goto
<1> QED
  BY <1>2, <1>3

-----------------------------------------------------------------------------
(* What any program on any CPU keeps *)

Base == Types /\ Places /\ Observed

Place == {"idle", "lookup", "check", "expire", "delete", "set_fin", "clamp",
          "learn", "accept", "pass", "drop"}

LEMMA InitBase == ASSUME Init PROVE Base
<1>1. set \in Setting /\ SettingType(set)
  BY TcpAuthAssumption DEF Init
<1> DEFINE x == CHOOSE y \in Addr : TRUE
<1>2. x \in Addr
  BY <1>1 DEF SettingType, Addr
<1> HIDE DEF x
<1>3. pkt \in [CPU -> Packet]
  <2>1. pkt \in [CPU -> {[dir |-> "in", kind |-> "normal", addr |-> a] : a \in {x}}]
    BY DEF Init, x
  <2>2. [dir |-> "in", kind |-> "normal", addr |-> x] \in Packet
    BY <1>2 DEF Packet
  <2> QED
    BY <2>1, <2>2
<1>4. elem \in [Elem -> [key : Addr \cup {NoAddr}, fin : Fin]] /\ \A e \in Elem : elem[e].key = NoAddr
  BY DEF Init, Free, Fin
<1>5. TypeOK
  BY <1>3, <1>4 DEF Init, TypeOK, Fin
<1>6. Types
  <2>1. enabled \in BOOLEAN /\ (set.toggle \/ enabled)
    BY <1>1 DEF Init, SettingType
  <2>2. now \in Time /\ entered \in [CPU -> Flow] /\ finAt \in [Addr -> Fin]
    BY TcpAuthAssumption DEF Init, Time, Fin, Flow
  <2>3. spoke \in [Addr -> BOOLEAN] /\ observed \in [Addr -> BOOLEAN]
    BY DEF Init
  <2> QED
    BY <1>5, <2>1, <2>2, <2>3 DEF Types
<1> QED
  BY <1>4, <1>6 DEF Init, Base, Places, Observed

(* A step of one program: its own place, pointer and packet's address *)
LEMMA StepBase ==
    ASSUME Base, NEW c \in CPU, NEW l \in Place,
           UNCHANGED <<set, enabled, now, pkt, entered, observed>>,
           pc' = [pc EXCEPT ![c] = l], MapStep(pkt[c].addr),
           conn' \in [CPU -> Elem \cup {NoElem}], \A d \in CPU : d # c => conn'[d] = conn[d],
           flow' \in [Addr -> Flow], finAt' \in [Addr -> Fin], spoke' \in [Addr -> BOOLEAN],
           \A e \in Elem : elem'[e].key = pkt[c].addr =>
               elem[e].key = pkt[c].addr \/ observed[pkt[c].addr],
           /\ l \in {"accept", "pass", "drop", "expire"} => In(c)
           /\ l \in {"clamp", "learn"} => ~In(c)
           /\ l = "set_fin" => pkt[c].kind = "fin"
           /\ l = "delete" => pkt[c].kind = "rst"
           /\ l # "pass"
           /\ l \in {"check", "set_fin", "clamp"} => conn'[c] \in Elem,
           l \in {"check", "set_fin", "expire", "clamp", "accept", "delete"} => observed[pkt[c].addr],
           pc[c] # "idle"
    PROVE  Base'
<1>1. pc' \in [CPU -> Place] /\ pc'[c] = l /\ \A d \in CPU : d # c => pc'[d] = pc[d]
  BY DEF Base, Types, TypeOK, Place
<1>2. TypeOK'
  BY <1>1 DEF Base, Types, TypeOK, Addr, CPU, Flow, Place, Packet, MapStep, Fin
<1>3. Types'
  BY <1>2 DEF Base, Types, Addr, CPU
<1>4. Places'
  BY <1>1 DEF Base, Places, In, CPU
<1>5. Observed'
  <2>1. \A e \in Elem : elem'[e].key # NoAddr => observed[elem'[e].key]
    BY DEF Base, Observed, MapStep
  <2>2. ASSUME NEW d \in CPU
        PROVE  /\ pc'[d] \in {"check", "set_fin", "expire", "clamp", "accept"} => observed[pkt[d].addr]
               /\ (pc'[d] = "delete" /\ In(d)) => observed[pkt[d].addr]
               /\ (pc'[d] # "idle" /\ ~In(d) /\ Learns(d)) => observed[pkt[d].addr]
    BY <1>1 DEF Base, Observed
  <2> QED
    BY <2>1, <2>2 DEF Observed, In, Learns, CPU
<1> QED
  BY <1>3, <1>4, <1>5 DEF Base

LEMMA SameHistory ==
    ASSUME Types, UNCHANGED <<set, flow, finAt, spoke>>
    PROVE  flow' \in [Addr -> Flow] /\ finAt' \in [Addr -> Fin] /\ spoke' \in [Addr -> BOOLEAN]
  BY DEF Types, TypeOK, Flow

LEMMA StepTypes ==
    ASSUME Base, NEW c \in CPU
    PROVE  /\ pkt[c] \in Packet /\ pkt[c].addr \in Addr /\ pkt[c].addr # NoAddr
           /\ conn \in [CPU -> Elem \cup {NoElem}]
           /\ now \in Fin /\ NoFin \in Fin
           /\ pc[c] \in Place
<1>1. pkt[c] \in Packet
  BY DEF Base, Types, TypeOK
<1> QED
  BY <1>1, PacketFacts, SettingFacts DEF Base, Types, TypeOK, Fin, Place

LEMMA LookupBase == ASSUME Base, NEW c \in CPU, Lookup(c) PROVE Base'
<1>1. /\ pc[c] = "lookup" /\ elem' = elem
      /\ UNCHANGED <<set, elem, enabled, now, pkt, entered, flow, finAt, spoke, observed>>
  BY DEF Lookup, histVars
<1>2. MapStep(pkt[c].addr)
  BY <1>1, MapSame DEF Base
<1>3. CASE \E e \in Elem : elem[e].key = pkt[c].addr
  <2>1. PICK e \in Elem : elem[e].key = pkt[c].addr /\ conn' = [conn EXCEPT ![c] = e]
    BY <1>3 DEF Lookup
  <2>2. pc' = [pc EXCEPT ![c] = IF ~In(c) /\ pkt[c].kind = "fin" THEN "set_fin" ELSE "check"]
    BY <1>3 DEF Lookup, Goto
  <2>3. conn' \in [CPU -> Elem \cup {NoElem}] /\ conn'[c] = e /\ \A d \in CPU : d # c => conn'[d] = conn[d]
    BY <2>1, StepTypes
  <2>4. observed[pkt[c].addr]
    BY <2>1, StepTypes DEF Base, Observed
  <2>5. CASE ~In(c) /\ pkt[c].kind = "fin"
    BY <1>1, <1>2, <2>2, <2>3, <2>4, <2>5, StepBase, SameHistory DEF Base, Place
  <2>6. CASE ~(~In(c) /\ pkt[c].kind = "fin")
    BY <1>1, <1>2, <2>2, <2>3, <2>4, <2>6, StepBase, SameHistory DEF Base, Place
  <2> QED
    BY <2>5, <2>6
<1>4. CASE ~(\E e \in Elem : elem[e].key = pkt[c].addr)
  <2>1. conn' = conn /\ pc' = [pc EXCEPT ![c] = IF In(c) THEN "drop" ELSE "learn"]
    BY <1>4 DEF Lookup, Goto
  <2>2. CASE In(c)
    BY <1>1, <1>2, <2>1, <2>2, StepTypes, StepBase, SameHistory DEF Base, Place
  <2>3. CASE ~In(c)
    BY <1>1, <1>2, <2>1, <2>3, StepTypes, StepBase, SameHistory DEF Base, Place
  <2> QED
    BY <2>2, <2>3
<1> QED
  BY <1>3, <1>4

LEMMA CheckBase == ASSUME Base, NEW c \in CPU, Check(c) PROVE Base'
<1>1. /\ pc[c] = "check" /\ UNCHANGED <<set, elem, enabled, now, pkt, entered, conn, observed>>
  BY DEF Check, histVars
<1>2. MapStep(pkt[c].addr)
  BY <1>1, MapSame DEF Base
<1>3. observed[pkt[c].addr] /\ conn[c] \in Elem
  BY <1>1 DEF Base, Observed, Places
<1>4. CASE UNCHANGED histVars /\ pc' = [pc EXCEPT ![c] = IF In(c) THEN "expire" ELSE "clamp"]
  <2>1. UNCHANGED <<flow, finAt, spoke>>
    BY <1>4 DEF histVars
  <2>2. CASE In(c)
    BY <1>1, <1>2, <1>3, <1>4, <2>1, <2>2, StepTypes, StepBase, SameHistory DEF Base, Place
  <2>3. CASE ~In(c)
    BY <1>1, <1>2, <1>3, <1>4, <2>1, <2>3, StepTypes, StepBase, SameHistory DEF Base, Place
  <2> QED
    BY <2>2, <2>3
<1>5. CASE /\ UNCHANGED histVars /\ In(c) /\ pkt[c].kind # "normal"
           /\ pc' = [pc EXCEPT ![c] = IF pkt[c].kind = "rst" THEN "delete" ELSE "set_fin"]
  <2>1. UNCHANGED <<flow, finAt, spoke>>
    BY <1>5 DEF histVars
  <2>2. pkt[c].kind \in {"rst", "fin"}
    BY <1>5, StepTypes, PacketFacts DEF Kinds, In
  <2>3. CASE pkt[c].kind = "rst"
    BY <1>1, <1>2, <1>3, <1>5, <2>1, <2>3, StepTypes, StepBase, SameHistory DEF Base, Place
  <2>4. CASE pkt[c].kind = "fin"
    BY <1>1, <1>2, <1>3, <1>5, <2>1, <2>4, StepTypes, StepBase, SameHistory DEF Base, Place
  <2> QED
    BY <2>2, <2>3, <2>4
<1>6. CASE Leave(c)
  <2>1. pc' = [pc EXCEPT ![c] = IF In(c) THEN "accept" ELSE "idle"]
    BY <1>6, LeaveFacts DEF Base
  <2>2. flow' \in [Addr -> Flow] /\ finAt' \in [Addr -> Fin] /\ spoke' \in [Addr -> BOOLEAN]
    BY <1>6, LeaveFacts DEF Base
  <2>3. CASE In(c)
    BY <1>1, <1>2, <1>3, <2>1, <2>2, <2>3, StepTypes, StepBase DEF Place
  <2>4. CASE ~In(c)
    BY <1>1, <1>2, <1>3, <2>1, <2>2, <2>4, StepTypes, StepBase DEF Place
  <2> QED
    BY <2>3, <2>4
<1> QED
  BY <1>4, <1>5, <1>6 DEF Check, Goto

(* A write to the map after which the packet leaves *)
LEMMA WriteBase ==
    ASSUME Base, NEW c \in CPU, Leave(c), MapStep(pkt[c].addr), pc[c] # "idle",
           UNCHANGED <<set, enabled, now, pkt, entered, conn, observed>>,
           \A e \in Elem : elem'[e].key = pkt[c].addr =>
               elem[e].key = pkt[c].addr \/ observed[pkt[c].addr],
           In(c) => observed[pkt[c].addr]
    PROVE  Base'
<1>1. pc' = [pc EXCEPT ![c] = IF In(c) THEN "accept" ELSE "idle"]
  BY LeaveFacts DEF Base
<1>2. flow' \in [Addr -> Flow] /\ finAt' \in [Addr -> Fin] /\ spoke' \in [Addr -> BOOLEAN]
  BY LeaveFacts DEF Base
<1>3. conn' \in [CPU -> Elem \cup {NoElem}] /\ \A d \in CPU : d # c => conn'[d] = conn[d]
  BY StepTypes
<1>4. CASE In(c)
  BY <1>1, <1>2, <1>3, <1>4, StepBase DEF Place
<1>5. CASE ~In(c)
  BY <1>1, <1>2, <1>3, <1>5, StepBase DEF Place
<1> QED
  BY <1>4, <1>5

LEMMA ExpireBase == ASSUME Base, NEW c \in CPU, Expire(c) PROVE Base'
<1>1. /\ pc[c] = "expire" /\ elem' = Deleted(pkt[c].addr) /\ pc' = [pc EXCEPT ![c] = "drop"]
      /\ UNCHANGED <<set, enabled, now, pkt, entered, conn, finAt, spoke, observed>>
  BY DEF Expire, Goto
<1>2. MapStep(pkt[c].addr)
  BY <1>1, MapDeleted, StepTypes DEF Base
<1>3. flow' \in [Addr -> Flow]
  BY StepTypes DEF Expire, Base, Types, TypeOK, Flow
<1>4. observed[pkt[c].addr] /\ In(c)
  BY <1>1 DEF Base, Observed, Places
<1>5. finAt' \in [Addr -> Fin] /\ spoke' \in [Addr -> BOOLEAN]
  BY <1>1 DEF Base, Types
<1> QED
  BY <1>1, <1>2, <1>3, <1>4, <1>5, StepTypes, StepBase DEF Place

LEMMA DeleteBase == ASSUME Base, NEW c \in CPU, Delete(c) PROVE Base'
<1>1. /\ pc[c] = "delete" /\ elem' = Deleted(pkt[c].addr) /\ Leave(c)
      /\ UNCHANGED <<set, enabled, now, pkt, entered, conn, observed>>
  BY DEF Delete
<1>2. MapStep(pkt[c].addr)
  BY <1>1, MapDeleted, StepTypes DEF Base
<1>3. \A e \in Elem : elem'[e].key # pkt[c].addr
  BY <1>1, DeletedFacts, StepTypes DEF Base
<1>4. In(c) => observed[pkt[c].addr]
  BY <1>1 DEF Base, Observed
<1> QED
  BY <1>1, <1>2, <1>3, <1>4, WriteBase

(* SetFin and Clamp: a store through the pointer, and the packet leaves. *)
LEMMA StoreBase ==
    ASSUME Base, NEW c \in CPU, pc[c] \in {"set_fin", "clamp"}, NEW t \in Fin,
           elem' = [elem EXCEPT ![conn[c]].fin = t], Leave(c),
           UNCHANGED <<set, enabled, now, pkt, entered, conn, observed>>
    PROVE  Base'
<1>1. conn[c] \in Elem /\ observed[pkt[c].addr]
  BY DEF Base, Observed, Places
<1>2. MapStep(pkt[c].addr) /\ \A e \in Elem : elem'[e].key = elem[e].key
  BY <1>1, MapStored, StoreFacts DEF Base
<1> QED
  BY <1>1, <1>2, WriteBase

LEMMA LearnBase == ASSUME Base, NEW c \in CPU, Learn(c) PROVE Base'
<1>1. /\ pc[c] = "learn" /\ Leave(c)
      /\ UNCHANGED <<set, enabled, now, pkt, entered, conn, observed>>
  BY DEF Learn
<1>2. ~In(c)
  BY <1>1 DEF Base, Places
<1>3. CASE Learns(c)
  <2>1. Add(pkt[c].addr) /\ observed[pkt[c].addr]
    BY <1>1, <1>2, <1>3 DEF Learn, Base, Observed
  <2>2. MapStep(pkt[c].addr)
    BY <2>1, MapAdded, StepTypes DEF Base
  <2> QED
    BY <1>1, <1>2, <2>1, <2>2, WriteBase
<1>4. CASE ~Learns(c)
  <2>1. elem' = elem
    BY <1>4 DEF Learn
  <2>2. MapStep(pkt[c].addr)
    BY <2>1, MapSame DEF Base
  <2> QED
    BY <1>1, <1>2, <2>1, <2>2, WriteBase
<1> QED
  BY <1>3, <1>4

LEMMA EndBase == ASSUME Base, NEW c \in CPU, Accept(c) \/ Drop(c) PROVE Base'
<1>1. /\ pc[c] # "idle" /\ pc' = [pc EXCEPT ![c] = "idle"]
      /\ UNCHANGED <<set, elem, enabled, now, pkt, entered, conn, observed>>
  BY DEF Accept, Drop, Goto, histVars
<1>2. flow' \in [Addr -> Flow] /\ finAt' \in [Addr -> Fin] /\ spoke' \in [Addr -> BOOLEAN]
  <2>1. CASE Accept(c)
    BY <2>1, StepTypes, ThroughFacts DEF Accept, Base
  <2>2. CASE Drop(c)
    BY <1>1, <2>2, SameHistory DEF Drop, histVars, Base
  <2> QED
    BY <2>1, <2>2
<1>3. MapStep(pkt[c].addr)
  BY <1>1, MapSame DEF Base
<1> QED
  BY <1>1, <1>2, <1>3, StepTypes, StepBase DEF Place

LEMMA ReceiveBase == ASSUME Base, NEW c \in CPU, NEW p \in Packet, Receive(c, p) PROVE Base'
<1> DEFINE l == IF p.dir = "in" THEN IF enabled THEN "lookup" ELSE "pass"
                ELSE IF p.kind = "rst" THEN "delete" ELSE "lookup"
<1>1. /\ pc[c] = "idle" /\ pkt' = [pkt EXCEPT ![c] = p] /\ conn' = [conn EXCEPT ![c] = NoElem]
      /\ Closes(p) /\ pc' = [pc EXCEPT ![c] = l]
      /\ entered' = [d \in CPU |->
                       IF d = c THEN flow[p.addr]
                       ELSE IF pkt[d].addr = p.addr /\ p.kind \in {"fin", "rst"} THEN "none"
                       ELSE entered[d]]
      /\ observed' = [observed EXCEPT ![p.addr] =
                        @ \/ (p.dir = "out" /\ (p.kind = "syn" \/ ~enabled))]
      /\ UNCHANGED <<set, elem, enabled, now, finAt, spoke>>
  BY DEF Receive, Goto
<1>2. p.addr \in Addr /\ l \in Place /\ p.dir \in {"in", "out"}
  BY PacketFacts DEF Place
<1>3. l \in {"lookup", "pass", "delete"} /\ (l = "pass" => p.dir = "in" /\ set.toggle)
                                         /\ (l = "delete" => p.kind = "rst" /\ p.dir = "out")
  BY <1>2 DEF Base, Types
<1> HIDE DEF l
<1>4. pc' \in [CPU -> Place] /\ pc'[c] = l /\ \A d \in CPU : d # c => pc'[d] = pc[d]
  BY <1>1, <1>2 DEF Base, Types, TypeOK, Place
<1>5. pkt' \in [CPU -> Packet] /\ pkt'[c] = p /\ \A d \in CPU : d # c => pkt'[d] = pkt[d]
  BY <1>1 DEF Base, Types, TypeOK
<1>6. conn' \in [CPU -> Elem \cup {NoElem}] /\ \A d \in CPU : d # c => conn'[d] = conn[d]
  BY <1>1 DEF Base, Types, TypeOK
<1>7. flow' \in [Addr -> Flow]
  BY <1>1, ClosesFacts DEF Base
<1>8. /\ observed' \in [Addr -> BOOLEAN]
      /\ \A a \in Addr : observed[a] => observed'[a]
      /\ (p.dir = "out" /\ (p.kind = "syn" \/ ~enabled)) => observed'[p.addr]
  BY <1>1, <1>2 DEF Base, Types
<1>9. entered' \in [CPU -> Flow]
  <2>1. \A d \in CPU : entered[d] \in Flow
    BY DEF Base, Types
  <2>2. flow[p.addr] \in Flow /\ "none" \in Flow
    BY <1>2 DEF Base, Types, TypeOK, Flow
  <2> QED
    BY <1>1, <2>1, <2>2
<1>10. TypeOK'
  BY <1>1, <1>4, <1>5, <1>6, <1>7 DEF Base, Types, TypeOK, Addr, CPU, Flow, Place, Packet
<1>11. Types'
  BY <1>1, <1>8, <1>9, <1>10 DEF Base, Types, Addr, CPU
<1>12. Places'
  <2>1. ASSUME NEW d \in CPU
        PROVE  /\ pc'[d] \in {"accept", "pass", "drop", "expire"} => pkt'[d].dir = "in"
               /\ pc'[d] \in {"clamp", "learn"} => ~(pkt'[d].dir = "in")
               /\ pc'[d] = "set_fin" => pkt'[d].kind = "fin"
               /\ pc'[d] = "delete" => pkt'[d].kind = "rst"
               /\ pc'[d] = "pass" => set.toggle
               /\ pc'[d] \in {"check", "set_fin", "clamp"} => conn'[d] \in Elem
    <3>1. CASE d = c
      BY <1>3, <1>4, <1>5, <3>1
    <3>2. CASE d # c
      BY <1>4, <1>5, <1>6, <3>2 DEF Base, Places, In
    <3> QED
      BY <3>1, <3>2
  <2> QED
    BY <1>1, <2>1 DEF Places, In, CPU
<1>13. Observed'
  <2>1. \A e \in Elem : elem[e].key # NoAddr => observed'[elem[e].key]
    BY <1>8 DEF Base, Observed, Types, TypeOK
  <2>2. ASSUME NEW d \in CPU
        PROVE  /\ pc'[d] \in {"check", "set_fin", "expire", "clamp", "accept"} => observed'[pkt'[d].addr]
               /\ (pc'[d] = "delete" /\ pkt'[d].dir = "in") => observed'[pkt'[d].addr]
               /\ (pc'[d] # "idle" /\ ~(pkt'[d].dir = "in") /\ (~enabled \/ pkt'[d].kind = "syn"))
                     => observed'[pkt'[d].addr]
    <3>1. CASE d = c
      BY <1>2, <1>3, <1>4, <1>5, <1>8, <3>1
    <3>2. CASE d # c
      <4>1. pkt[d].addr \in Addr
        BY StepTypes
      <4> QED
        BY <1>4, <1>5, <1>8, <3>2, <4>1 DEF Base, Observed, In, Learns
    <3> QED
      BY <3>1, <3>2
  <2> QED
    BY <1>1, <2>1, <2>2 DEF Observed, In, Learns, CPU
<1> QED
  BY <1>11, <1>12, <1>13 DEF Base

LEMMA SwitchBase == ASSUME Base, Switch PROVE Base'
<1>1. /\ set.toggle /\ enabled' = ~enabled
      /\ observed' = [a \in Addr |-> observed[a] \/ (enabled /\ \E c \in CPU :
                        pc[c] # "idle" /\ ~In(c) /\ pkt[c].addr = a)]
      /\ UNCHANGED <<set, elem, now, pc, pkt, entered, conn, flow, finAt, spoke>>
  BY DEF Switch
<1>2. /\ observed' \in [Addr -> BOOLEAN] /\ \A a \in Addr : observed[a] => observed'[a]
      /\ \A c \in CPU : (enabled /\ pc[c] # "idle" /\ ~In(c)) => observed'[pkt[c].addr]
  BY <1>1, StepTypes DEF Base, Types
<1>3. TypeOK'
  BY <1>1 DEF Base, Types, TypeOK, Addr, CPU, Packet
<1>4. Types'
  BY <1>1, <1>2, <1>3 DEF Base, Types, Addr, CPU
<1>5. Places'
  BY <1>1 DEF Base, Places, In, CPU
<1>6. Observed'
  <2>1. \A e \in Elem : elem[e].key # NoAddr => observed'[elem[e].key]
    BY <1>2 DEF Base, Observed, Types, TypeOK
  <2>2. ASSUME NEW d \in CPU
        PROVE  /\ pc[d] \in {"check", "set_fin", "expire", "clamp", "accept"} => observed'[pkt[d].addr]
               /\ (pc[d] = "delete" /\ In(d)) => observed'[pkt[d].addr]
               /\ (pc[d] # "idle" /\ ~In(d)) =>
                    ((~enabled' \/ pkt[d].kind = "syn") => observed'[pkt[d].addr])
    <3>1. pkt[d].addr \in Addr
      BY StepTypes
    <3> QED
      BY <1>1, <1>2, <3>1 DEF Base, Observed, Learns
  <2> QED
    BY <1>1, <2>1, <2>2 DEF Observed, In, Learns, CPU
<1> QED
  BY <1>4, <1>5, <1>6 DEF Base

LEMMA TickBase == ASSUME Base, Tick PROVE Base'
<1>1. /\ now < set.last /\ now' = now + 1
      /\ UNCHANGED <<set, elem, enabled, pc, pkt, entered, conn, flow, finAt, spoke, observed>>
  BY DEF Tick, histVars
<1>2. now' \in Time
  BY <1>1, SettingFacts, TcpAuthAssumption DEF Base, Types, Time
<1> QED
  BY <1>1, <1>2 DEF Base, Types, TypeOK, Places, Observed, Addr, CPU, Packet, In, Learns

LEMMA NextBase == Base /\ [Next]_vars => Base'
<1> SUFFICES ASSUME Base, [Next]_vars PROVE Base'
  OBVIOUS
<1>1. CASE \E c \in CPU : Step(c)
  <2>1. PICK c \in CPU : Step(c)
    BY <1>1
  <2>2. CASE SetFin(c)
    BY <2>2, StoreBase, StepTypes DEF SetFin
  <2>3. CASE Clamp(c)
    BY <2>3, StoreBase, StepTypes DEF Clamp
  <2> QED
    BY <2>1, <2>2, <2>3, LookupBase, CheckBase, ExpireBase, DeleteBase, LearnBase, EndBase DEF Step
<1>2. CASE \E c \in CPU, p \in Packet : Receive(c, p)
  BY <1>2, ReceiveBase
<1>3. CASE Switch
  BY <1>3, SwitchBase
<1>4. CASE Tick
  BY <1>4, TickBase
<1>5. CASE UNCHANGED vars
  BY <1>5 DEF vars, histVars, Base, Types, TypeOK, Places, Observed, Addr, CPU, Packet, In, Learns
<1> QED
  BY <1>1, <1>2, <1>3, <1>4, <1>5 DEF Next

LEMMA BaseInvariant == Spec => []Base
<1>1. Init => Base
  BY InitBase
<1> QED
  BY <1>1, NextBase, PTL DEF Spec

-----------------------------------------------------------------------------
(* The map, the programs and their packets keep their shape, and no two    *)
(* elements of MAP_TCP_CONN have one key, on any number of CPUs.           *)
THEOREM TypeCorrect == Spec => []TypeOK
<1>1. Base => TypeOK
  BY DEF Base, Types
<1> QED
  BY <1>1, BaseInvariant, PTL

(* On any number of CPUs, with the filter switched at any moment and       *)
(* elements recycled under a program that still points to them: what       *)
(* tcp_auth_conn_ingress_filter accepts is from an address the host opened *)
(* a connection with, or sent to while the filter was learning.            *)
THEOREM AcceptsOnlyObserved == Spec => []OnlyObserved
<1>1. Base => OnlyObserved
  BY DEF Base, Observed, OnlyObserved
<1> QED
  BY <1>1, BaseInvariant, PTL

-----------------------------------------------------------------------------
(* One CPU.  What serves a connection is the element at its address and    *)
(* the packet in the program; the invariant says how the two fit the       *)
(* connection's history.                                                   *)

Rested == \A s \in Setting : ~s.reuse

(* The map has an element for every peer, so none is evicted. *)
Roomy == IsFiniteSet(Elem) /\ \A s \in Setting :
            IsFiniteSet(s.addrs) /\ Cardinality(s.addrs) <= Cardinality(Elem)

(* An ingress FIN is on record and has yet to reach the host. *)
Confirms(c, a) == pc[c] = "accept" /\ pkt[c].kind = "fin" /\ pkt[c].addr = a

Peer(c, a) ==
    /\ finAt[a] # NoFin => finAt[a] <= now
    /\ flow[a] = "old" => finAt[a] = NoFin
    /\ flow[a] = "live" => \E e \in Elem : elem[e].key = a /\ elem[e].fin = NoFin
    /\ \A e \in Elem : (elem[e].key = a /\ elem[e].fin # NoFin) =>
          \/ finAt[a] # NoFin /\ elem[e].fin <= finAt[a]
          \/ elem[e].fin = now /\ Confirms(c, a)

Serving(c) ==
    /\ pc[c] # "idle" =>
         /\ pkt[c].kind = "fin" => flow[pkt[c].addr] \in {"none", "closing"}
         /\ pkt[c].kind = "rst" => flow[pkt[c].addr] = "none"
         /\ pkt[c].kind = "syn" => finAt[pkt[c].addr] = NoFin \/ TimedOut(pkt[c].addr)
    /\ pc[c] \in {"check", "set_fin", "clamp", "expire"} =>
         conn[c] \in Elem /\ elem[conn[c]].key = pkt[c].addr
    /\ pc[c] \in {"clamp", "expire"} => Outdated(c)
    /\ (pc[c] \in {"lookup", "learn"} /\ ~In(c)) => pkt[c].kind # "rst"
    /\ (pc[c] \in {"check", "clamp"} /\ ~In(c)) => pkt[c].kind \in {"normal", "syn"}
    /\ pc[c] = "learn" => \A e \in Elem : elem[e].key # pkt[c].addr
    /\ pc[c] = "drop" => flow[pkt[c].addr] # "live"

(* With the filter always on, the element is exact: its FIN is the latest, *)
(* and one without a FIN is there for the host has sent since.             *)
PeerOn(c, a) ==
    /\ flow[a] # "old"
    /\ flow[a] = "closing" => \E e \in Elem : elem[e].key = a
    /\ \A e \in Elem : (elem[e].key = a /\ elem[e].fin = NoFin /\ finAt[a] # NoFin) => spoke[a]
    /\ \A e \in Elem : (elem[e].key = a /\ elem[e].fin # NoFin) =>
          elem[e].fin = finAt[a] \/ Confirms(c, a)

ServingOn(c) ==
    /\ (pc[c] \in {"accept", "set_fin", "delete"} /\ In(c)) =>
          (TimedOut(pkt[c].addr) => spoke[pkt[c].addr])
    /\ (pc[c] = "accept" /\ pkt[c].kind = "fin") =>
          \A e \in Elem : elem[e].key = pkt[c].addr => elem[e].fin = now
    /\ (pc[c] = "accept" /\ pkt[c].kind = "rst") =>
          \A e \in Elem : elem[e].key # pkt[c].addr
    /\ pc[c] = "drop" => (flow[pkt[c].addr] = "closing" => TimedOut(pkt[c].addr))

Peers(c)  == \A a \in Addr : Peer(c, a) /\ (~set.toggle => PeerOn(c, a))
Served(c) == Serving(c) /\ (~set.toggle => ServingOn(c))

Single(c) == CPU = {c} => Peers(c) /\ Served(c)

LEMMA RoomFor ==
    ASSUME Base, Roomy, NEW a \in Addr, \A e \in Elem : elem[e].key # a
    PROVE  Available # {}
<1> SUFFICES ASSUME Available = {} PROVE FALSE
  OBVIOUS
<1>1. IsFiniteSet(Elem) /\ IsFiniteSet(Addr) /\ Cardinality(Addr) <= Cardinality(Elem)
  BY DEF Roomy, Base, Types, TypeOK, Addr
<1>2. /\ IsFiniteSet(Addr \ {a}) /\ Cardinality(Addr \ {a}) = Cardinality(Addr) - 1
      /\ Cardinality(Addr) \in Nat /\ Cardinality(Elem) \in Nat
  BY <1>1, FS_RemoveElement, FS_CardinalityType
<1> DEFINE f == [e \in Elem |-> elem[e].key]
<1>3. f \in [Elem -> Addr \ {a}]
  BY DEF Available, Base, Types, TypeOK
<1>4. \E x, y \in Elem : x # y /\ f[x] = f[y]
  <2>1. Cardinality(Addr \ {a}) < Cardinality(Elem)
    BY <1>1, <1>2
  <2> HIDE DEF f
  <2> QED
    BY <1>1, <1>2, <1>3, <2>1, FS_PigeonHole
<1> QED
  BY <1>4 DEF Available, Base, Types, TypeOK

(* A step for a packet leaves every other peer as it is. *)
LEMMA OtherPeers ==
    ASSUME NEW c, Peers(c), UNCHANGED <<set, now, pkt>>,
           NEW a \in Addr, a # pkt[c].addr,
           \A e \in Elem : (elem[e].key = a \/ elem'[e].key = a) => elem'[e] = elem[e],
           flow'[a] = flow[a], finAt'[a] = finAt[a], spoke'[a] <=> spoke[a]
    PROVE  Peer(c, a)' /\ (~set.toggle => PeerOn(c, a)')
<1>1. Peer(c, a) /\ (~set.toggle => PeerOn(c, a)) /\ ~Confirms(c, a) /\ ~Confirms(c, a)'
  BY DEF Peers, Confirms
<1>2. Peer(c, a)'
  BY <1>1 DEF Peer
<1>3. ASSUME ~set.toggle PROVE PeerOn(c, a)'
  BY <1>1, <1>3 DEF PeerOn
<1> QED
  BY <1>2, <1>3

LEMMA PeersStep ==
    ASSUME NEW c, Peers(c), UNCHANGED <<set, now, pkt>>,
           \A a \in Addr : a # pkt[c].addr =>
              /\ \A e \in Elem : (elem[e].key = a \/ elem'[e].key = a) => elem'[e] = elem[e]
              /\ flow'[a] = flow[a] /\ finAt'[a] = finAt[a] /\ (spoke'[a] <=> spoke[a]),
           Peer(c, pkt[c].addr)', ~set.toggle => PeerOn(c, pkt[c].addr)'
    PROVE  Peers(c)'
<1>1. ASSUME NEW a \in Addr PROVE Peer(c, a)' /\ (~set.toggle => PeerOn(c, a)')
  <2>1. CASE a # pkt[c].addr
    BY <2>1, OtherPeers
  <2>2. CASE a = pkt[c].addr
    BY <2>2
  <2> QED
    BY <2>1, <2>2
<1> QED
  BY <1>1 DEF Peers, Addr

(* The map and the history stay: only the program moves. *)
LEMMA PeersSame ==
    ASSUME NEW c, Peers(c), UNCHANGED <<set, now, pkt, elem, flow, finAt, spoke>>,
           pc[c] # "accept"
    PROVE  Peers(c)'
<1>1. ASSUME NEW a \in Addr PROVE Peer(c, a)' /\ (~set.toggle => PeerOn(c, a)')
  <2>1. Peer(c, a) /\ (~set.toggle => PeerOn(c, a)) /\ ~Confirms(c, a)
    BY DEF Peers, Confirms
  <2>2. Peer(c, a)'
    BY <2>1 DEF Peer
  <2>3. ASSUME ~set.toggle PROVE PeerOn(c, a)'
    BY <2>1, <2>3 DEF PeerOn
  <2> QED
    BY <2>2, <2>3
<1> QED
  BY <1>1 DEF Peers, Addr

LEMMA Located ==
    ASSUME Base, NEW c \in CPU, Serving(c), pc[c] \in {"check", "set_fin", "clamp", "expire"}
    PROVE  /\ conn[c] \in Elem /\ elem[conn[c]].key = pkt[c].addr
           /\ \A e \in Elem : elem[e].key = pkt[c].addr <=> e = conn[c]
<1>1. conn[c] \in Elem /\ elem[conn[c]].key = pkt[c].addr
  BY DEF Serving
<1>2. pkt[c].addr # NoAddr
  BY StepTypes
<1> QED
  BY <1>1, <1>2 DEF Base, Types, TypeOK

LEMMA Numbers ==
    ASSUME Base, NEW a \in Addr
    PROVE  /\ finAt[a] \in Nat /\ now \in Nat /\ Timeout \in Nat /\ now # NoFin /\ NoFin \in Nat
           /\ \A e \in Elem : elem[e].fin \in Nat
<1>1. finAt[a] \in Fin /\ now \in Time /\ \A e \in Elem : elem[e].fin \in Fin
  BY DEF Base, Types, TypeOK, Fin
<1> QED
  BY <1>1, TimeFacts, SettingFacts DEF Base

LEMMA LookupOne ==
    ASSUME Base, NEW c \in CPU, Peers(c), Served(c), Lookup(c)
    PROVE  Peers(c)' /\ Served(c)'
<1>1. /\ pc[c] = "lookup"
      /\ UNCHANGED <<set, elem, enabled, now, pkt, entered, flow, finAt, spoke, observed>>
  BY DEF Lookup, histVars
<1>2. Peers(c)'
  BY <1>1, PeersSame
<1>3. pc \in [CPU -> Place] /\ conn \in [CPU -> Elem \cup {NoElem}] /\ pkt[c].addr \in Addr
  BY StepTypes DEF Base, Types, TypeOK, Place
<1>4. Served(c)'
  <2>1. /\ pkt[c].kind = "fin" => flow[pkt[c].addr] \in {"none", "closing"}
        /\ pkt[c].kind = "rst" => flow[pkt[c].addr] = "none"
        /\ pkt[c].kind = "syn" => finAt[pkt[c].addr] = NoFin \/ TimedOut(pkt[c].addr)
    BY <1>1 DEF Served, Serving
  <2>2. TimedOut(pkt[c].addr)' <=> TimedOut(pkt[c].addr)
    BY <1>1 DEF TimedOut, Timeout
  <2>3. CASE \E e \in Elem : elem[e].key = pkt[c].addr
    <3>1. PICK e \in Elem : elem[e].key = pkt[c].addr /\ conn' = [conn EXCEPT ![c] = e]
      BY <2>3 DEF Lookup
    <3>2. pc'[c] = IF ~In(c) /\ pkt[c].kind = "fin" THEN "set_fin" ELSE "check"
      BY <1>3, <2>3 DEF Lookup, Goto
    <3>3. conn'[c] = e
      BY <1>3, <3>1
    <3>4. Serving(c)'
      <4>1. (~In(c) /\ pkt[c].kind # "fin") => pkt[c].kind \in {"normal", "syn"}
        BY <1>1, StepTypes, PacketFacts DEF Served, Serving, Kinds
      <4> QED
        BY <1>1, <2>1, <2>2, <3>1, <3>2, <3>3, <4>1 DEF Serving, In
    <3>5. ServingOn(c)'
      BY <1>1, <3>2 DEF ServingOn, In
    <3> QED
      BY <3>4, <3>5 DEF Served
  <2>4. CASE ~(\E e \in Elem : elem[e].key = pkt[c].addr)
    <3>1. pc'[c] = IF In(c) THEN "drop" ELSE "learn"
      BY <1>3, <2>4 DEF Lookup, Goto
    <3>2. flow[pkt[c].addr] # "live" /\ (~set.toggle => flow[pkt[c].addr] # "closing")
      BY <1>3, <2>4 DEF Peers, Peer, PeerOn
    <3>3. Serving(c)'
      <4>1. ~In(c) => pkt[c].kind # "rst"
        BY <1>1 DEF Served, Serving
      <4> QED
        BY <1>1, <2>1, <2>2, <2>4, <3>1, <3>2, <4>1 DEF Serving, In
    <3>4. ASSUME ~set.toggle PROVE ServingOn(c)'
      BY <1>1, <3>1, <3>2, <3>4 DEF ServingOn, In
    <3> QED
      BY <1>1, <3>3, <3>4 DEF Served
  <2> QED
    BY <2>3, <2>4
<1> QED
  BY <1>2, <1>4

LEMMA IdleServed == ASSUME NEW c, pc'[c] = "idle" PROVE Served(c)'
  BY DEF Served, Serving, ServingOn

(* An ingress packet is on its way to the host: what it needs to be served *)
LEMMA AcceptServed ==
    ASSUME Base, NEW c \in CPU, Served(c), pc[c] # "idle",
           UNCHANGED <<set, now, pkt, flow, finAt, spoke>>, pc'[c] = "accept",
           ~set.toggle => /\ TimedOut(pkt[c].addr) => spoke[pkt[c].addr]
                          /\ pkt[c].kind = "fin" =>
                               \A e \in Elem : elem'[e].key = pkt[c].addr => elem'[e].fin = now
                          /\ pkt[c].kind = "rst" => \A e \in Elem : elem'[e].key # pkt[c].addr
    PROVE  Served(c)'
<1>1. TimedOut(pkt[c].addr)' <=> TimedOut(pkt[c].addr)
  BY DEF TimedOut, Timeout
<1>2. Serving(c)'
  BY <1>1 DEF Served, Serving
<1>3. ASSUME ~set.toggle PROVE ServingOn(c)'
  BY <1>1, <1>3 DEF ServingOn
<1> QED
  BY <1>2, <1>3 DEF Served

LEMMA CheckOne ==
    ASSUME Base, NEW c \in CPU, Peers(c), Served(c), Check(c)
    PROVE  Peers(c)' /\ Served(c)'
<1> DEFINE b == pkt[c].addr
           x == conn[c]
<1>1. /\ pc[c] = "check"
      /\ UNCHANGED <<set, elem, enabled, now, pkt, entered, conn, observed>>
  BY DEF Check, histVars
<1>2. pc \in [CPU -> Place] /\ pkt[c] \in Packet /\ b \in Addr
  BY StepTypes DEF Base, Types, TypeOK, Place
<1>3. x \in Elem /\ \A e \in Elem : elem[e].key = b <=> e = x
  BY <1>1, Located DEF Served
<1>4. /\ Peer(c, b) /\ (~set.toggle => PeerOn(c, b)) /\ ~Confirms(c, b)
  BY <1>1, <1>2 DEF Peers, Confirms
<1>5. /\ finAt[b] \in Nat /\ now \in Nat /\ Timeout \in Nat /\ elem[x].fin \in Nat /\ NoFin \in Nat
  BY <1>2, <1>3, Numbers
<1>6. /\ pkt[c].kind = "fin" => flow[pkt[c].addr] \in {"none", "closing"}
      /\ pkt[c].kind = "rst" => flow[pkt[c].addr] = "none"
      /\ pkt[c].kind = "syn" => finAt[pkt[c].addr] = NoFin \/ TimedOut(pkt[c].addr)
      /\ ~In(c) => pkt[c].kind \in {"normal", "syn"}
  BY <1>1 DEF Served, Serving
<1>7. (~set.toggle /\ ~Outdated(c)) => (TimedOut(b) => spoke[b])
  BY <1>3, <1>4, <1>5 DEF PeerOn, Outdated, TimedOut
<1>8. CASE UNCHANGED histVars /\ pc'[c] # "accept" /\ pc'[c] # "idle"
  <2>1. UNCHANGED <<flow, finAt, spoke>>
    BY <1>8 DEF histVars
  <2>2. Peers(c)'
    BY <1>1, <2>1, PeersSame
  <2>3. TimedOut(pkt[c].addr)' <=> TimedOut(pkt[c].addr)
    BY <1>1, <2>1 DEF TimedOut, Timeout
  <2>4. Outdated(c)' <=> Outdated(c)
    BY <1>1 DEF Outdated, Timeout
  <2>5. CASE Outdated(c) /\ pc'[c] = IF In(c) THEN "expire" ELSE "clamp"
    <3>1. Serving(c)'
      BY <1>1, <1>3, <1>6, <2>1, <2>3, <2>4, <2>5 DEF Serving, In
    <3> QED
      BY <2>2, <2>5, <3>1 DEF Served, ServingOn
  <2>6. CASE ~Outdated(c) /\ In(c) /\ pc'[c] \in {"delete", "set_fin"}
    <3>1. Serving(c)'
      BY <1>1, <1>3, <1>6, <2>1, <2>3, <2>4, <2>6 DEF Serving, In
    <3>2. ASSUME ~set.toggle PROVE ServingOn(c)'
      BY <1>1, <1>7, <2>1, <2>3, <2>6, <3>2 DEF ServingOn, In
    <3> QED
      BY <1>1, <2>2, <3>1, <3>2 DEF Served
  <2> QED
    <3>1. \/ Outdated(c) /\ pc'[c] = IF In(c) THEN "expire" ELSE "clamp"
          \/ ~Outdated(c) /\ In(c) /\ pc'[c] \in {"delete", "set_fin"}
          \/ Leave(c)
      BY <1>2 DEF Check, Goto
    <3>2. ~Leave(c)
      BY <1>2, <1>8, LeaveFacts DEF Base
    <3> QED
      BY <2>5, <2>6, <3>1, <3>2
<1>9. CASE ~Outdated(c) /\ In(c) /\ pkt[c].kind = "normal" /\ Leave(c)
  <2>1. UNCHANGED <<flow, finAt, spoke>> /\ pc'[c] = "accept"
    BY <1>2, <1>9, LeaveFacts DEF Base
  <2>2. Peers(c)'
    BY <1>1, <2>1, PeersSame
  <2> QED
    BY <1>1, <1>7, <1>9, <2>1, <2>2, AcceptServed
<1>10. CASE ~Outdated(c) /\ ~In(c) /\ Leave(c)
  <2>1. Through(pkt[c]) /\ pc'[c] = "idle"
    BY <1>2, <1>10, LeaveFacts DEF Base
  <2>2. pkt[c].kind \in {"normal", "syn"} /\ pkt[c].dir = "out"
    BY <1>2, <1>6, <1>10, PacketFacts DEF In
  <2>3. pkt[c].kind = "syn" => elem[x].fin = NoFin
    BY <1>3, <1>4, <1>5, <1>6, <1>10 DEF Peer, TimedOut, Outdated
  <2>4. /\ \A a \in Addr : a # b => flow'[a] = flow[a] /\ finAt'[a] = finAt[a] /\ (spoke'[a] <=> spoke[a])
        /\ flow'[b] = IF pkt[c].kind = "syn" \/ (flow[b] = "old" /\ ~enabled) THEN "live" ELSE flow[b]
        /\ finAt'[b] = IF pkt[c].kind = "syn" THEN NoFin ELSE finAt[b]
        /\ pkt[c].kind = "normal" => (spoke'[b] <=> spoke[b] \/ TimedOut(b))
    BY <1>2, <2>1, <2>2, ThroughFacts DEF Base
  <2>5. flow[b] = "old" => elem[x].fin = NoFin
    BY <1>3, <1>4 DEF Peer
  <2>0. b' = b
    BY <1>1
  <2> HIDE DEF b, x
  <2>6. ~Confirms(c, b)'
    BY <2>1 DEF Confirms
  <2>7. Peer(c, b)'
    BY <1>1, <1>3, <1>4, <1>5, <2>0, <2>2, <2>3, <2>4, <2>5, <2>6 DEF Peer
  <2>8. ASSUME ~set.toggle PROVE PeerOn(c, b)'
    BY <1>1, <1>3, <1>4, <2>0, <2>2, <2>3, <2>4, <2>6, <2>8 DEF PeerOn
  <2>9. Peers(c)'
    BY <1>1, <2>4, <2>7, <2>8, PeersStep DEF b
  <2> QED
    BY <2>1, <2>9, IdleServed
<1> QED
  <2>1. \/ UNCHANGED histVars /\ pc'[c] \in {"expire", "clamp", "delete", "set_fin"}
        \/ ~Outdated(c) /\ (~In(c) \/ pkt[c].kind = "normal") /\ Leave(c)
    BY <1>2 DEF Check, Goto
  <2> QED
    BY <1>8, <1>9, <1>10, <2>1

(* After tcp_auth_conn_delete no element has the address, and the elements *)
(* of all others are as before.                                            *)
LEMMA DeleteEffect ==
    ASSUME Base, NEW b \in Addr, elem' = Deleted(b)
    PROVE  /\ \A e \in Elem : elem'[e].key # b
           /\ \A a \in Addr : a # b =>
                \A e \in Elem : (elem[e].key = a \/ elem'[e].key = a) => elem'[e] = elem[e]
<1>1. NoAddr \notin Addr
  BY SettingFacts DEF Base
<1> QED
  BY <1>1, DeletedFacts DEF Base

LEMMA ExpireOne ==
    ASSUME Base, NEW c \in CPU, Peers(c), Served(c), Expire(c)
    PROVE  Peers(c)' /\ Served(c)'
<1> DEFINE b == pkt[c].addr
           x == conn[c]
<1>1. /\ pc[c] = "expire" /\ elem' = Deleted(b)
      /\ flow' = [flow EXCEPT ![b] = IF TimedOut(b) /\ @ = "closing" THEN "none" ELSE @]
      /\ UNCHANGED <<set, enabled, now, pkt, entered, conn, finAt, spoke, observed>>
  BY DEF Expire
<1>2. pc \in [CPU -> Place] /\ b \in Addr /\ flow \in [Addr -> Flow]
  BY StepTypes DEF Base, Types, TypeOK, Place, Flow
<1>3. x \in Elem /\ (\A e \in Elem : elem[e].key = b <=> e = x) /\ Outdated(c)
  BY <1>1, Located DEF Served, Serving
<1>4. Peer(c, b) /\ (~set.toggle => PeerOn(c, b)) /\ ~Confirms(c, b)
  BY <1>1, <1>2 DEF Peers, Confirms
<1>5. flow[b] # "live" /\ (~set.toggle => TimedOut(b))
  BY <1>3, <1>4 DEF Peer, PeerOn, Outdated, TimedOut
<1>6. /\ flow'[b] = (IF TimedOut(b) /\ flow[b] = "closing" THEN "none" ELSE flow[b])
      /\ \A a \in Addr : a # b => flow'[a] = flow[a]
  BY <1>1, <1>2
<1>7. /\ \A e \in Elem : elem'[e].key # b
      /\ \A a \in Addr : a # b =>
           \A e \in Elem : (elem[e].key = a \/ elem'[e].key = a) => elem'[e] = elem[e]
  BY <1>1, <1>2, DeleteEffect
<1>8. pc'[c] = "drop" /\ In(c) /\ b' = b
  BY <1>1, <1>2 DEF Expire, Goto, Base, Places
<1>9. TimedOut(b)' <=> TimedOut(b)
  BY <1>1 DEF TimedOut, Timeout
<1>10. Peers(c)'
  <2>1. Peer(c, b)'
    BY <1>1, <1>4, <1>5, <1>6, <1>7, <1>8 DEF Peer
  <2>2. ASSUME ~set.toggle PROVE PeerOn(c, b)'
    BY <1>1, <1>4, <1>5, <1>6, <1>7, <1>8, <2>2 DEF PeerOn
  <2> QED
    BY <1>1, <1>6, <1>7, <2>1, <2>2, PeersStep
<1>11. Serving(c)'
  <2>1. /\ pkt[c].kind = "fin" => flow'[b] \in {"none", "closing"}
        /\ pkt[c].kind = "rst" => flow'[b] = "none"
        /\ pkt[c].kind = "syn" => finAt[b] = NoFin \/ TimedOut(b)
    BY <1>1, <1>6 DEF Served, Serving
  <2> QED
    BY <1>1, <1>5, <1>6, <1>8, <1>9, <2>1 DEF Serving, In
<1>12. ASSUME ~set.toggle PROVE ServingOn(c)'
  BY <1>1, <1>5, <1>6, <1>8, <1>9, <1>12 DEF ServingOn
<1> QED
  BY <1>1, <1>10, <1>11, <1>12 DEF Served

LEMMA DeleteOne ==
    ASSUME Base, NEW c \in CPU, Peers(c), Served(c), Delete(c)
    PROVE  Peers(c)' /\ Served(c)'
<1> DEFINE b == pkt[c].addr
<1>1. /\ pc[c] = "delete" /\ elem' = Deleted(b) /\ Leave(c)
      /\ UNCHANGED <<set, enabled, now, pkt, entered, conn, observed>>
  BY DEF Delete
<1>2. pc \in [CPU -> Place] /\ b \in Addr /\ pkt[c] \in Packet /\ pkt[c].kind = "rst"
  BY <1>1, StepTypes DEF Base, Types, TypeOK, Place, Places
<1>3. Peer(c, b) /\ (~set.toggle => PeerOn(c, b))
  BY <1>2 DEF Peers
<1>4. flow[b] = "none"
  BY <1>1, <1>2 DEF Served, Serving
<1>5. /\ \A e \in Elem : elem'[e].key # b
      /\ \A a \in Addr : a # b =>
           \A e \in Elem : (elem[e].key = a \/ elem'[e].key = a) => elem'[e] = elem[e]
  BY <1>1, <1>2, DeleteEffect
<1>6. /\ flow'[b] = flow[b] /\ finAt'[b] = finAt[b]
      /\ \A a \in Addr : a # b => flow'[a] = flow[a] /\ finAt'[a] = finAt[a] /\ (spoke'[a] <=> spoke[a])
      /\ In(c) => UNCHANGED <<flow, finAt, spoke>>
      /\ pc'[c] = IF In(c) THEN "accept" ELSE "idle"
  <2>1. CASE In(c)
    BY <1>1, <1>2, <2>1, LeaveFacts DEF Base
  <2>2. CASE ~In(c)
    BY <1>1, <1>2, <2>2, LeaveFacts, ThroughFacts DEF Base
  <2> QED
    BY <2>1, <2>2
<1>7. Peers(c)'
  <2>1. Peer(c, b)'
    BY <1>1, <1>3, <1>4, <1>5, <1>6 DEF Peer
  <2>2. ASSUME ~set.toggle PROVE PeerOn(c, b)'
    BY <1>1, <1>3, <1>4, <1>5, <1>6, <2>2 DEF PeerOn
  <2> QED
    BY <1>1, <1>5, <1>6, <2>1, <2>2, PeersStep
<1>8. Served(c)'
  <2>1. CASE In(c)
    <3>1. ~set.toggle => (TimedOut(b) => spoke[b])
      BY <1>1, <2>1 DEF Served, ServingOn
    <3> QED
      BY <1>1, <1>2, <1>5, <1>6, <2>1, <3>1, AcceptServed
  <2>2. CASE ~In(c)
    BY <1>6, <2>2, IdleServed
  <2> QED
    BY <2>1, <2>2
<1> QED
  BY <1>7, <1>8

LEMMA SetFinOne ==
    ASSUME Base, NEW c \in CPU, Peers(c), Served(c), SetFin(c)
    PROVE  Peers(c)' /\ Served(c)'
<1> DEFINE b == pkt[c].addr
           x == conn[c]
<1>1. /\ pc[c] = "set_fin" /\ elem' = [elem EXCEPT ![x].fin = now] /\ Leave(c)
      /\ UNCHANGED <<set, enabled, now, pkt, entered, conn, observed>>
  BY DEF SetFin
<1>2. pc \in [CPU -> Place] /\ b \in Addr /\ pkt[c] \in Packet /\ pkt[c].kind = "fin" /\ now \in Fin
  BY <1>1, StepTypes DEF Base, Types, TypeOK, Place, Places
<1>3. x \in Elem /\ (\A e \in Elem : elem[e].key = b <=> e = x)
  BY <1>1, Located DEF Served
<1>4. Peer(c, b) /\ (~set.toggle => PeerOn(c, b)) /\ flow[b] \in {"none", "closing"}
  BY <1>1, <1>2 DEF Peers, Served, Serving
<1>5. /\ \A e \in Elem : elem'[e].key = elem[e].key
      /\ elem'[x].fin = now /\ \A e \in Elem : e # x => elem'[e] = elem[e]
  BY <1>1, <1>2, <1>3, StoreFacts DEF Base
<1>6. now \in Nat /\ now # NoFin
  BY <1>2, Numbers
<1>7. \A a \in Addr : a # b =>
           \A e \in Elem : (elem[e].key = a \/ elem'[e].key = a) => elem'[e] = elem[e]
  BY <1>3, <1>5
<1>8. CASE In(c)
  <2>1. UNCHANGED <<flow, finAt, spoke>> /\ pc'[c] = "accept"
    BY <1>1, <1>2, <1>8, LeaveFacts DEF Base
  <2>2. Confirms(c, b)' /\ b' = b
    BY <1>1, <1>2, <2>1 DEF Confirms
  <2>3. Peer(c, b)'
    BY <1>1, <1>3, <1>4, <1>5, <1>6, <2>1, <2>2 DEF Peer
  <2>4. ASSUME ~set.toggle PROVE PeerOn(c, b)'
    BY <1>1, <1>3, <1>4, <1>5, <1>6, <2>1, <2>2, <2>4 DEF PeerOn
  <2>5. Peers(c)'
    BY <1>1, <1>7, <2>1, <2>3, <2>4, PeersStep
  <2>6. Served(c)'
    <3>1. ~set.toggle => (TimedOut(b) => spoke[b])
      BY <1>1, <1>8 DEF Served, ServingOn
    <3>2. \A e \in Elem : elem'[e].key = b => elem'[e].fin = now
      BY <1>3, <1>5
    <3> QED
      BY <1>1, <1>2, <2>1, <3>1, <3>2, AcceptServed
  <2> QED
    BY <2>5, <2>6
<1>9. CASE ~In(c)
  <2>1. Through(pkt[c]) /\ pc'[c] = "idle"
    BY <1>1, <1>2, <1>9, LeaveFacts DEF Base
  <2>2. /\ \A a \in Addr : a # b => flow'[a] = flow[a] /\ finAt'[a] = finAt[a] /\ (spoke'[a] <=> spoke[a])
        /\ flow'[b] = flow[b] /\ finAt'[b] = now
    BY <1>2, <2>1, ThroughFacts DEF Base
  <2>3. b' = b
    BY <1>1
  <2>4. Peer(c, b)'
    BY <1>1, <1>3, <1>4, <1>5, <1>6, <2>2, <2>3 DEF Peer
  <2>5. ASSUME ~set.toggle PROVE PeerOn(c, b)'
    BY <1>1, <1>3, <1>4, <1>5, <1>6, <2>2, <2>3, <2>5 DEF PeerOn
  <2> QED
    BY <1>1, <1>7, <2>1, <2>2, <2>4, <2>5, PeersStep, IdleServed
<1> QED
  BY <1>8, <1>9

LEMMA ClampOne ==
    ASSUME Base, NEW c \in CPU, Peers(c), Served(c), Clamp(c)
    PROVE  Peers(c)' /\ Served(c)'
<1> DEFINE b == pkt[c].addr
           x == conn[c]
<1>1. /\ pc[c] = "clamp" /\ elem' = [elem EXCEPT ![x].fin = NoFin] /\ Leave(c)
      /\ UNCHANGED <<set, enabled, now, pkt, entered, conn, observed>>
  BY DEF Clamp
<1>2. pc \in [CPU -> Place] /\ b \in Addr /\ pkt[c] \in Packet /\ NoFin \in Fin /\ ~In(c)
  BY <1>1, StepTypes DEF Base, Types, TypeOK, Place, Places
<1>3. x \in Elem /\ (\A e \in Elem : elem[e].key = b <=> e = x) /\ Outdated(c)
  BY <1>1, Located DEF Served, Serving
<1>4. /\ Peer(c, b) /\ (~set.toggle => PeerOn(c, b)) /\ ~Confirms(c, b)
      /\ pkt[c].kind \in {"normal", "syn"} /\ pkt[c].dir = "out"
  BY <1>1, <1>2, PacketFacts DEF Peers, Served, Serving, Confirms, In
<1>5. /\ \A e \in Elem : elem'[e].key = elem[e].key
      /\ elem'[x].fin = NoFin /\ \A e \in Elem : e # x => elem'[e] = elem[e]
  BY <1>1, <1>2, <1>3, StoreFacts DEF Base
<1>6. \A a \in Addr : a # b =>
           \A e \in Elem : (elem[e].key = a \/ elem'[e].key = a) => elem'[e] = elem[e]
  BY <1>3, <1>5
<1>7. Through(pkt[c]) /\ pc'[c] = "idle" /\ b' = b
  BY <1>1, <1>2, LeaveFacts DEF Base
<1>8. /\ \A a \in Addr : a # b => flow'[a] = flow[a] /\ finAt'[a] = finAt[a] /\ (spoke'[a] <=> spoke[a])
      /\ flow'[b] \in {"live", flow[b]}
      /\ finAt'[b] = IF pkt[c].kind = "syn" THEN NoFin ELSE finAt[b]
      /\ pkt[c].kind = "normal" => (spoke'[b] <=> spoke[b] \/ TimedOut(b))
  BY <1>2, <1>4, <1>7, ThroughFacts DEF Base
<1>9. ~set.toggle => TimedOut(b)
  BY <1>3, <1>4 DEF PeerOn, Outdated, TimedOut
<1>10. Peer(c, b)'
  BY <1>1, <1>3, <1>4, <1>5, <1>7, <1>8 DEF Peer
<1>11. ASSUME ~set.toggle PROVE PeerOn(c, b)'
  BY <1>1, <1>3, <1>4, <1>5, <1>7, <1>8, <1>9, <1>11 DEF PeerOn
<1> QED
  BY <1>1, <1>6, <1>7, <1>8, <1>10, <1>11, PeersStep, IdleServed

LEMMA LearnOne ==
    ASSUME Roomy, Base, NEW c \in CPU, Peers(c), Served(c), Learn(c)
    PROVE  Peers(c)' /\ Served(c)'
<1> DEFINE b == pkt[c].addr
<1>1. /\ pc[c] = "learn" /\ Leave(c)
      /\ UNCHANGED <<set, enabled, now, pkt, entered, conn, observed>>
  BY DEF Learn
<1>2. pc \in [CPU -> Place] /\ b \in Addr /\ pkt[c] \in Packet /\ ~In(c)
  BY <1>1, StepTypes DEF Base, Types, TypeOK, Place, Places
<1>3. \A e \in Elem : elem[e].key # b
  BY <1>1 DEF Served, Serving
<1>4. Peer(c, b) /\ (~set.toggle => PeerOn(c, b)) /\ pkt[c].dir = "out"
  BY <1>2, PacketFacts DEF Peers, In
<1>5. Through(pkt[c]) /\ pc'[c] = "idle" /\ b' = b
  BY <1>1, <1>2, LeaveFacts DEF Base
<1>6. /\ \A a \in Addr : a # b => flow'[a] = flow[a] /\ finAt'[a] = finAt[a] /\ (spoke'[a] <=> spoke[a])
      /\ flow'[b] = IF pkt[c].kind = "syn" \/ (pkt[c].kind = "normal" /\ flow[b] = "old" /\ ~enabled)
                    THEN "live" ELSE flow[b]
      /\ finAt'[b] = IF pkt[c].kind = "fin" THEN now
                     ELSE IF pkt[c].kind = "syn" THEN NoFin ELSE finAt[b]
  BY <1>2, <1>4, <1>5, ThroughFacts DEF Base
<1>7. now \in Nat /\ finAt[b] \in Nat /\ NoFin \in Nat
  BY <1>2, Numbers
<1>8. pkt[c].kind = "fin" => flow[b] # "old"
  BY <1>1 DEF Served, Serving
<1>9. CASE Learns(c)
  <2>1. Available # {}
    BY <1>2, <1>3, RoomFor
  <2>2. PICK x \in Elem :
           /\ elem[x].key = NoAddr /\ elem'[x] = [key |-> b, fin |-> NoFin]
           /\ \A f \in Elem : f # x => elem'[f] = Deleted(b)[f]
    BY <1>2, <1>9, <2>1, AddFacts DEF Learn, Base
  <2>3. \A f \in Elem : f # x => elem'[f] = elem[f]
    BY <1>2, <1>3, <2>2, DeletedFacts DEF Base
  <2>4. elem'[x].key = b /\ elem'[x].fin = NoFin /\ NoAddr \notin Addr
    BY <2>2, SettingFacts DEF Base
  <2>5. \A a \in Addr : a # b =>
             \A e \in Elem : (elem[e].key = a \/ elem'[e].key = a) => elem'[e] = elem[e]
    BY <2>2, <2>3, <2>4
  <2>6. Peer(c, b)'
    BY <1>1, <1>3, <1>4, <1>5, <1>6, <1>7, <1>8, <2>3, <2>4 DEF Peer
  <2>7. ASSUME ~set.toggle PROVE PeerOn(c, b)'
    <3>1. pkt[c].kind = "syn"
      BY <1>9, <2>7 DEF Learns, Base, Types
    <3> QED
      BY <1>1, <1>3, <1>4, <1>5, <1>6, <2>3, <2>4, <2>7, <3>1 DEF PeerOn
  <2> QED
    BY <1>1, <1>5, <1>6, <2>5, <2>6, <2>7, PeersStep, IdleServed
<1>10. CASE ~Learns(c)
  <2>1. elem' = elem /\ enabled /\ pkt[c].kind # "syn"
    BY <1>10 DEF Learn, Learns
  <2>2. Peer(c, b)'
    BY <1>1, <1>3, <1>4, <1>5, <1>6, <1>7, <1>8, <2>1 DEF Peer
  <2>3. ASSUME ~set.toggle PROVE PeerOn(c, b)'
    BY <1>1, <1>3, <1>4, <1>5, <1>6, <2>1, <2>3 DEF PeerOn
  <2> QED
    BY <1>1, <1>5, <1>6, <2>1, <2>2, <2>3, PeersStep, IdleServed
<1> QED
  BY <1>9, <1>10

LEMMA AcceptOne ==
    ASSUME Base, NEW c \in CPU, Peers(c), Served(c), Accept(c)
    PROVE  Peers(c)' /\ Served(c)'
<1> DEFINE b == pkt[c].addr
<1>1. /\ pc[c] \in {"accept", "pass"} /\ Through(pkt[c])
      /\ UNCHANGED <<set, elem, enabled, now, pkt, entered, conn, observed>>
  BY DEF Accept
<1>2. /\ pc \in [CPU -> Place] /\ b \in Addr /\ pkt[c] \in Packet /\ In(c) /\ b' = b
      /\ pc[c] = "pass" => set.toggle
  BY <1>1, StepTypes DEF Base, Types, TypeOK, Place, Places
<1>3. pc'[c] = "idle" /\ pkt[c].dir = "in" /\ pkt[c].kind # "syn"
  BY <1>2, PacketFacts DEF Accept, Goto, In
<1>4. /\ \A a \in Addr : a # b => flow'[a] = flow[a] /\ finAt'[a] = finAt[a] /\ (spoke'[a] <=> spoke[a])
      /\ flow'[b] = flow[b] /\ finAt'[b] = (IF pkt[c].kind = "fin" THEN now ELSE finAt[b])
      /\ pkt[c].kind = "normal" => (spoke'[b] <=> spoke[b])
  BY <1>1, <1>2, <1>3, ThroughFacts DEF Base
<1>5. Peer(c, b) /\ (~set.toggle => PeerOn(c, b)) /\ pkt[c].kind \in Kinds
  BY <1>2, PacketFacts DEF Peers
<1>6. /\ now \in Nat /\ finAt[b] \in Nat /\ NoFin \in Nat /\ now # NoFin
      /\ \A e \in Elem : elem[e].fin \in Nat
  BY <1>2, Numbers
<1>7. /\ pkt[c].kind = "fin" => flow[b] \in {"none", "closing"}
      /\ pkt[c].kind = "rst" => flow[b] = "none"
  BY <1>1 DEF Served, Serving
<1>8. Peer(c, b)'
  BY <1>1, <1>2, <1>3, <1>4, <1>5, <1>6, <1>7 DEF Peer, Confirms
<1>9. ASSUME ~set.toggle PROVE PeerOn(c, b)'
  <2>1. pc[c] = "accept"
    BY <1>1, <1>2, <1>9
  <2>2. /\ pkt[c].kind = "fin" => \A e \in Elem : elem[e].key = b => elem[e].fin = now
        /\ pkt[c].kind = "rst" => \A e \in Elem : elem[e].key # b
    BY <1>9, <2>1 DEF Served, ServingOn
  <2>3. CASE pkt[c].kind = "fin"
    BY <1>1, <1>2, <1>3, <1>4, <1>5, <1>6, <1>7, <1>9, <2>2, <2>3 DEF PeerOn
  <2>4. CASE pkt[c].kind = "rst"
    BY <1>1, <1>2, <1>3, <1>4, <1>5, <1>7, <1>9, <2>2, <2>4 DEF PeerOn
  <2>5. CASE pkt[c].kind = "normal"
    BY <1>1, <1>2, <1>3, <1>4, <1>5, <1>9, <2>5 DEF PeerOn, Confirms
  <2> QED
    BY <1>3, <1>5, <2>3, <2>4, <2>5 DEF Kinds
<1> QED
  BY <1>1, <1>3, <1>4, <1>8, <1>9, PeersStep, IdleServed

LEMMA DropOne ==
    ASSUME Base, NEW c \in CPU, Peers(c), Drop(c)
    PROVE  Peers(c)' /\ Served(c)'
<1>1. pc[c] = "drop" /\ UNCHANGED <<set, now, pkt, elem, flow, finAt, spoke>>
  BY DEF Drop, histVars
<1>2. pc'[c] = "idle"
  BY DEF Drop, Goto, Base, Types, TypeOK
<1> QED
  BY <1>1, <1>2, PeersSame, IdleServed

(* A packet closes the connection at its address or leaves it as it is. *)
LEMMA ReceiveOne ==
    ASSUME Rested, Base, NEW c \in CPU, Peers(c), NEW p \in Packet, Receive(c, p)
    PROVE  Peers(c)' /\ Served(c)'
<1> DEFINE b == p.addr
<1>1. /\ pc[c] = "idle" /\ Sent(p) /\ pkt' = [pkt EXCEPT ![c] = p] /\ Closes(p)
      /\ UNCHANGED <<set, elem, enabled, now, finAt, spoke>>
  BY DEF Receive
<1>2. pkt'[c] = p /\ b \in Addr /\ p.kind \in Kinds /\ p.dir \in {"in", "out"}
  BY <1>1, PacketFacts DEF Base, Types, TypeOK
<1>3. pc'[c] = IF p.dir = "in" THEN IF enabled THEN "lookup" ELSE "pass"
               ELSE IF p.kind = "rst" THEN "delete" ELSE "lookup"
  BY DEF Receive, Goto, Base, Types, TypeOK
<1>4. /\ \A a \in Addr : a # b => flow'[a] = flow[a]
      /\ flow'[b] = IF p.kind = "rst" THEN "none"
                    ELSE IF p.kind = "fin" /\ flow[b] # "none" THEN "closing" ELSE flow[b]
  BY <1>1, <1>2, ClosesFacts DEF Base
<1>5. Peers(c)'
  <2>1. ASSUME NEW a \in Addr PROVE Peer(c, a)' /\ (~set.toggle => PeerOn(c, a)')
    <3>1. Peer(c, a) /\ (~set.toggle => PeerOn(c, a)) /\ ~Confirms(c, a) /\ ~Confirms(c, a)'
      BY <1>1, <1>3 DEF Peers, Confirms
    <3>2. Peer(c, a)'
      BY <1>1, <1>4, <3>1 DEF Peer
    <3>3. ASSUME ~set.toggle PROVE PeerOn(c, a)'
      <4>1. flow[a] \in Flow
        BY DEF Base, Types, TypeOK, Flow
      <4> QED
        BY <1>1, <1>4, <3>1, <3>3, <4>1 DEF PeerOn, Peer, Flow
    <3> QED
      BY <3>2, <3>3
  <2> QED
    BY <1>1, <2>1 DEF Peers, Addr
<1>6. Serving(c)'
  <2>1. p.kind = "syn" => finAt[b] = NoFin \/ TimedOut(b)
    BY <1>1 DEF Sent, Rested, Base, Types, TypeOK
  <2>3. (finAt'[b] = NoFin \/ TimedOut(b)') <=> (finAt[b] = NoFin \/ TimedOut(b))
    BY <1>1 DEF TimedOut, Timeout
  <2> QED
    BY <1>2, <1>3, <1>4, <2>1, <2>3 DEF Serving, In
<1>7. ServingOn(c)'
  BY <1>2, <1>3 DEF ServingOn, In
<1> QED
  BY <1>5, <1>6, <1>7 DEF Served

LEMMA SwitchOne ==
    ASSUME Base, NEW c \in CPU, Peers(c), Served(c), Switch
    PROVE  Peers(c)' /\ Served(c)'
<1>1. set.toggle /\ UNCHANGED <<set, elem, now, pc, pkt, entered, conn, flow, finAt, spoke>>
  BY DEF Switch
<1>2. ASSUME NEW a \in Addr PROVE Peer(c, a)'
  BY <1>1 DEF Peers, Peer, Confirms
<1>3. Serving(c)'
  BY <1>1 DEF Served, Serving, Outdated, TimedOut, Timeout, In
<1> QED
  BY <1>1, <1>2, <1>3 DEF Peers, Served, Addr

LEMMA TickOne ==
    ASSUME Base, NEW c \in CPU, Peers(c), Tick
    PROVE  Peers(c)' /\ Served(c)'
<1>1. /\ pc[c] = "idle" /\ now' = now + 1
      /\ UNCHANGED <<set, elem, enabled, pc, pkt, entered, conn, flow, finAt, spoke, observed>>
  BY DEF Tick, histVars
<1>2. ASSUME NEW a \in Addr PROVE Peer(c, a)' /\ (~set.toggle => PeerOn(c, a)')
  <2>1. Peer(c, a) /\ (~set.toggle => PeerOn(c, a)) /\ ~Confirms(c, a) /\ ~Confirms(c, a)'
    BY <1>1 DEF Peers, Confirms
  <2>2. now \in Nat /\ finAt[a] \in Nat
    BY Numbers
  <2>3. Peer(c, a)'
    BY <1>1, <2>1, <2>2 DEF Peer
  <2>4. ASSUME ~set.toggle PROVE PeerOn(c, a)'
    BY <1>1, <2>1, <2>4 DEF PeerOn
  <2> QED
    BY <2>3, <2>4
<1> QED
  BY <1>1, <1>2, IdleServed DEF Peers, Addr

LEMMA NextSingle ==
    ASSUME Rested, Roomy
    PROVE  Base /\ (\A c \in CPU : Single(c)) /\ [Next]_vars => (\A c \in CPU : Single(c))'
<1> SUFFICES ASSUME Base, \A c \in CPU : Single(c), [Next]_vars,
                    NEW c \in CPU', (CPU = {c})'
             PROVE  Peers(c)' /\ Served(c)'
  BY DEF Single
<1>1. CPU = {c} /\ c \in CPU
  BY DEF Next, Step, vars, Lookup, Check, Expire, Delete, SetFin, Clamp, Learn, Accept, Drop,
         Receive, Switch, Tick, CPU
<1>2. Peers(c) /\ Served(c)
  BY <1>1 DEF Single
<1>3. CASE \E d \in CPU : Step(d)
  <2>1. Step(c)
    BY <1>1, <1>3
  <2> QED
    BY <1>1, <1>2, <2>1, LookupOne, CheckOne, ExpireOne, DeleteOne, SetFinOne, ClampOne, LearnOne,
       AcceptOne, DropOne DEF Step
<1>4. CASE \E d \in CPU, p \in Packet : Receive(d, p)
  BY <1>1, <1>2, <1>4, ReceiveOne
<1>5. CASE Switch
  BY <1>1, <1>2, <1>5, SwitchOne
<1>6. CASE Tick
  BY <1>1, <1>2, <1>6, TickOne
<1>7. CASE UNCHANGED vars
  <2>1. UNCHANGED <<set, elem, enabled, now, pc, pkt, entered, conn, flow, finAt, spoke>>
    BY <1>7 DEF vars, histVars
  <2>2. ASSUME NEW a \in Addr PROVE Peer(c, a)' /\ (~set.toggle => PeerOn(c, a)')
    BY <1>2, <2>1 DEF Peers, Peer, PeerOn, Confirms
  <2>3. Serving(c)'
    BY <1>2, <2>1 DEF Served, Serving, Outdated, TimedOut, Timeout, In
  <2>4. ASSUME ~set.toggle PROVE ServingOn(c)'
    BY <1>2, <2>1, <2>4 DEF Served, ServingOn, TimedOut, Timeout, In
  <2> QED
    BY <2>1, <2>2, <2>3, <2>4 DEF Peers, Served, Addr
<1> QED
  BY <1>3, <1>4, <1>5, <1>6, <1>7 DEF Next

LEMMA InitSingle == ASSUME Init, NEW c \in CPU PROVE Single(c)
<1>1. \A e \in Elem : elem[e].key = NoAddr
  BY DEF Init, Free
<1>2. Base
  BY InitBase
<1>3. NoAddr \notin Addr /\ \A a \in Addr : finAt[a] = NoFin /\ flow[a] \in {"none", "old"} /\
                                           (~set.toggle => flow[a] = "none")
  BY <1>2, SettingFacts DEF Init, Base
<1> QED
  BY <1>1, <1>3 DEF Init, Single, Peers, Peer, PeerOn, Served, Serving, ServingOn

LEMMA SingleInvariant ==
    ASSUME Rested, Roomy PROVE Spec => [](Base /\ \A c \in CPU : Single(c))
<1>1. Init => Base /\ \A c \in CPU : Single(c)
  BY InitBase, InitSingle
<1>2. Base /\ (\A c \in CPU : Single(c)) /\ [Next]_vars => (Base /\ \A c \in CPU : Single(c))'
  BY NextBase, NextSingle
<1> QED
  BY <1>1, <1>2, PTL DEF Spec

LEMMA OnlyCPU == ASSUME Base, Cardinality(CPU) = 1 PROVE \A c \in CPU : CPU = {c}
<1>1. IsFiniteSet(CPU)
  BY TcpAuthAssumption DEF Base, Types, TypeOK, SettingType, CPU
<1> QED
  BY <1>1, FS_Singleton

-----------------------------------------------------------------------------
(* One CPU, ports that rest while their FIN is young and a map with room   *)
(* for every peer: tcp_auth_conn_ingress_filter drops no packet of an open *)
(* connection, however often the filter is switched.                       *)
THEOREM OpenConnectionsServed ==
    ASSUME Rested, Roomy PROVE Spec => []LiveNotDropped
<1>1. Base /\ (\A c \in CPU : Single(c)) => LiveNotDropped
  BY OnlyCPU DEF Single, Served, Serving, LiveNotDropped
<1> QED
  BY <1>1, SingleInvariant, PTL

(* Under the same assumptions and with the filter always on, a closing     *)
(* connection is served for the whole of TCP_AUTH_CONN_CLOSE_TIMEOUT_JIFF  *)
(* after the latest FIN of either side.                                    *)
THEOREM ClosingConnectionsServed ==
    ASSUME Rested, Roomy PROVE Spec => []GraceKept
<1>1. Base /\ (\A c \in CPU : Single(c)) => GraceKept
  BY OnlyCPU DEF Single, Served, ServingOn, GraceKept, Undisturbed
<1> QED
  BY <1>1, SingleInvariant, PTL

(* And after that its packets are let in only if the host itself has sent  *)
(* on it since (the clamp of tcp_auth_conn_egress_learning).               *)
THEOREM ClosedConnectionsExpire ==
    ASSUME Rested, Roomy PROVE Spec => []ClosedExpires
<1>1. Base /\ (\A c \in CPU : Single(c)) => ClosedExpires
  <2> SUFFICES ASSUME Base, \A c \in CPU : Single(c), Undisturbed, NEW c \in CPU, pc[c] = "accept"
               PROVE  TimedOut(pkt[c].addr) => spoke[pkt[c].addr]
    BY DEF ClosedExpires
  <2>1. ServingOn(c)
    BY OnlyCPU DEF Single, Served, Undisturbed
  <2>2. In(c)
    BY DEF Base, Places
  <2> QED
    BY <2>1, <2>2 DEF ServingOn
<1> QED
  BY <1>1, SingleInvariant, PTL
=============================================================================
