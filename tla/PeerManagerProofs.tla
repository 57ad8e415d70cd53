--------------------------- MODULE PeerManagerProofs ---------------------------
(***************************************************************************)
(* The proof that connections are sound, for any addresses, places and     *)
(* limits: the mark in knownOutbound outlives whatever was dialled under   *)
(* it, and every way out of handleConn gives back what registerPeer took.  *)
(* The lemmas are about the table of goroutines as a value, because one    *)
(* step (an addr message) changes two of its places.                       *)
(***************************************************************************)
EXTENDS PeerManager, FiniteSetTheorems, TLAPS

Places ==
    [st : {"free", "dialing", "checking", "counted", "reading", "leaving"},
     addr : Addr \cup {"none"}, ctx : {"none", "server", "call", "ended"},
     version : BOOLEAN, verack : BOOLEAN, chain : BOOLEAN, shut : BOOLEAN]

RegisteredSts == {"counted", "reading", "leaving"}

(* Whoever dials or is connected to an address has it marked, and is the   *)
(* only one.                                                               *)
MarksHold(table, marked) ==
    /\ table \in [Conn -> Places]
    /\ \A c \in Conn : table[c].chain
    /\ \A c \in Conn : IF table[c].st = "free" THEN table[c] = Free ELSE table[c].addr \in Addr
    /\ \A c \in Outbound : table[c].st # "free" => table[c].addr \in marked
    /\ \A c, d \in Outbound : table[c].st # "free" /\ table[c].addr = table[d].addr => c = d

RegisteredIn(table, S) == {c \in S : table[c].st \in RegisteredSts}

CountsHold(table, p, o) ==
    /\ p = Cardinality(RegisteredIn(table, Conn))
    /\ o = Cardinality(RegisteredIn(table, Outbound))

PeerInv == MarksHold(conn, knownOutbound) /\ CountsHold(conn, peers, outbound)

LEMMA PeerInvSound == PeerInv => ConnectionsSound
<1> SUFFICES ASSUME PeerInv PROVE ConnectionsSound
  OBVIOUS
<1>1. OneDialPerAddress
  BY DEF PeerInv, MarksHold, OneDialPerAddress, Conn
<1>2. WrongChainNeverServed
  BY DEF PeerInv, MarksHold, WrongChainNeverServed
<1>3. CountersExact
  BY DEF PeerInv, CountsHold, RegisteredIn, RegisteredSts, CountersExact, Registered
<1> QED  BY <1>1, <1>2, <1>3 DEF ConnectionsSound

LEMMA FreePlace == Free \in Places /\ Free.st = "free" /\ Free.addr = "none" /\ Free.chain
  BY DEF Free, Places

LEMMA StartedPlace ==
    ASSUME NEW a \in Addr, NEW st \in {"dialing", "checking", "leaving"},
           NEW ctx \in {"none", "server", "call", "ended"}
    PROVE  /\ Started(a, st, ctx) \in Places /\ Started(a, st, ctx).st = st
           /\ Started(a, st, ctx).addr = a /\ Started(a, st, ctx).chain
<1> DEFINE one == [Free EXCEPT !.st = st]
           two == [one EXCEPT !.addr = a]
           three == [two EXCEPT !.ctx = ctx]
<1>1. one \in Places /\ one.st = st /\ one.chain
  BY FreePlace DEF Places
<1> HIDE DEF one
<1>2. two \in Places /\ two.st = st /\ two.addr = a /\ two.chain
  BY <1>1 DEF Places
<1> HIDE DEF two
<1>3. three \in Places /\ three.st = st /\ three.addr = a /\ three.chain
  BY <1>2 DEF Places
<1> HIDE DEF three
<1>4. Started(a, st, ctx) = three
  BY Zenon DEF Started, one, two, three
<1> QED  BY <1>3, <1>4
-----------------------------------------------------------------------------
(* The table *)

(* One place changes: what has to be seen about the new goroutine there. *)
LEMMA OnePlaceChanges ==
    ASSUME NEW table, NEW marked, MarksHold(table, marked), NEW c \in Conn, NEW new \in Places, NEW left,
           new.chain, IF new.st = "free" THEN new = Free ELSE new.addr \in Addr,
           c \in Outbound /\ new.st # "free" =>
               new.addr \in left /\ \A d \in Outbound \ {c} : table[d].addr # new.addr,
           \A d \in Outbound \ {c} : table[d].st # "free" => table[d].addr \in left
    PROVE  MarksHold([table EXCEPT ![c] = new], left)
<1> DEFINE next == [table EXCEPT ![c] = new]
<1>1. /\ next \in [Conn -> Places] /\ next[c] = new
      /\ \A d \in Conn \ {c} : next[d] = table[d]
  BY DEF MarksHold
<1> HIDE DEF next
<1>2. \A d \in Conn : next[d].chain
  BY <1>1 DEF MarksHold
<1>3. \A d \in Conn : IF next[d].st = "free" THEN next[d] = Free ELSE next[d].addr \in Addr
  BY <1>1 DEF MarksHold
<1>4. \A d \in Outbound : next[d].st # "free" => next[d].addr \in left
  BY <1>1 DEF Conn
<1>5. ASSUME NEW d \in Outbound, NEW e \in Outbound, next[d].st # "free", next[d].addr = next[e].addr, d # e
      PROVE  FALSE
  <2>1. CASE d = c
    BY <1>1, <1>5, <2>1 DEF Conn
  <2>2. CASE e = c
    <3>1. new.st = "free"
      BY <1>1, <1>5, <2>2 DEF Conn
    <3>2. next[e].addr = "none" /\ next[d].addr \in Addr
      BY <1>1, <1>3, <1>5, <2>2, <3>1, FreePlace DEF Conn
    <3> QED  BY <1>5, <3>2, PeerAssumption
  <2>3. CASE d # c /\ e # c
    BY <1>1, <1>5, <2>3 DEF MarksHold, Conn
  <2> QED  BY <2>1, <2>2, <2>3
<1>6. MarksHold(next, left)
  BY <1>1, <1>2, <1>3, <1>4, <1>5 DEF MarksHold
<1> QED  BY <1>6 DEF next

(* A goroutine goes on with its address. *)
LEMMA MoveKeepsMarks ==
    ASSUME NEW table, NEW marked, MarksHold(table, marked), NEW c \in Conn, NEW new \in Places,
           table[c].st # "free", new.st # "free", new.addr = table[c].addr, new.chain
    PROVE  MarksHold([table EXCEPT ![c] = new], marked)
<1>1. new.addr \in Addr
  BY DEF MarksHold
<1>2. c \in Outbound => new.addr \in marked /\ \A d \in Outbound \ {c} : table[d].addr # new.addr
  BY DEF MarksHold
<1>3. \A d \in Outbound \ {c} : table[d].st # "free" => table[d].addr \in marked
  BY DEF MarksHold
<1> QED  BY <1>1, <1>2, <1>3, OnePlaceChanges

(* A dial takes a free place for an address that is not marked. *)
LEMMA DialMarks ==
    ASSUME NEW table, NEW marked, MarksHold(table, marked), NEW c \in Outbound, NEW a \in Addr,
           table[c].st = "free", a \notin marked, NEW ctx \in {"none", "server", "call", "ended"}
    PROVE  MarksHold([table EXCEPT ![c] = Started(a, "dialing", ctx)], marked \cup {a})
<1> DEFINE new == Started(a, "dialing", ctx)
<1>1. new \in Places /\ new.st = "dialing" /\ new.addr = a /\ new.chain
  BY StartedPlace
<1> HIDE DEF new
<1>2. \A d \in Outbound \ {c} : table[d].addr # a
  <2> SUFFICES ASSUME NEW d \in Outbound PROVE table[d].addr # a
    OBVIOUS
  <2>1. CASE table[d].st = "free"
    BY <2>1, PeerAssumption, FreePlace DEF MarksHold, Conn
  <2>2. CASE table[d].st # "free"
    BY <2>2 DEF MarksHold
  <2> QED  BY <2>1, <2>2
<1>3. \A d \in Outbound \ {c} : table[d].st # "free" => table[d].addr \in marked \cup {a}
  BY DEF MarksHold
<1>4. MarksHold([table EXCEPT ![c] = new], marked \cup {a})
  BY <1>1, <1>2, <1>3, OnePlaceChanges DEF Conn
<1> QED  BY <1>4 DEF new

LEMMA AcceptKeepsMarks ==
    ASSUME NEW table, NEW marked, MarksHold(table, marked), NEW c \in Inbound, NEW a \in Addr
    PROVE  MarksHold([table EXCEPT ![c] = Started(a, "checking", "server")], marked)
<1> DEFINE new == Started(a, "checking", "server")
<1>1. new \in Places /\ new.st = "checking" /\ new.addr = a /\ new.chain
  BY StartedPlace
<1> HIDE DEF new
<1>2. c \in Conn /\ c \notin Outbound
  BY PeerAssumption DEF Conn
<1>3. \A d \in Outbound \ {c} : table[d].st # "free" => table[d].addr \in marked
  BY DEF MarksHold
<1>4. MarksHold([table EXCEPT ![c] = new], marked)
  BY <1>1, <1>2, <1>3, OnePlaceChanges
<1> QED  BY <1>4 DEF new

(* A goroutine ends; a dial takes its mark with it, which no other one     *)
(* needs.                                                                  *)
LEMMA EndKeepsMarks ==
    ASSUME NEW table, NEW marked, MarksHold(table, marked), NEW c \in Conn, table[c].st # "free"
    PROVE  MarksHold([table EXCEPT ![c] = Free],
                     IF c \in Outbound THEN marked \ {table[c].addr} ELSE marked)
<1> DEFINE left == IF c \in Outbound THEN marked \ {table[c].addr} ELSE marked
<1>1. \A d \in Outbound \ {c} : table[d].st # "free" => table[d].addr \in left
  BY DEF MarksHold
<1> HIDE DEF left
<1>2. MarksHold([table EXCEPT ![c] = Free], left)
  BY <1>1, FreePlace, OnePlaceChanges
<1> QED  BY <1>2 DEF left

LEMMA PlacesFinite ==
    ASSUME NEW table, NEW S \in {Conn, Outbound}
    PROVE  /\ IsFiniteSet(RegisteredIn(table, S))
           /\ Cardinality(RegisteredIn(table, S)) \in Nat
  BY PeerAssumption, FS_Union, FS_Subset, FS_CardinalityType DEF RegisteredIn, Conn

LEMMA SameCounts ==
    ASSUME NEW table, NEW p, NEW o, CountsHold(table, p, o), NEW next,
           \A c \in Conn : next[c].st \in RegisteredSts <=> table[c].st \in RegisteredSts
    PROVE  CountsHold(next, p, o)
<1>1. RegisteredIn(next, Conn) = RegisteredIn(table, Conn)
      /\ RegisteredIn(next, Outbound) = RegisteredIn(table, Outbound)
  BY DEF RegisteredIn, Conn
<1> QED  BY <1>1 DEF CountsHold

(* registerPeer *)
LEMMA OneMore ==
    ASSUME NEW table, NEW p, NEW o, CountsHold(table, p, o), NEW next, NEW c \in Conn,
           table[c].st \notin RegisteredSts, next[c].st \in RegisteredSts,
           \A d \in Conn \ {c} : next[d] = table[d]
    PROVE  CountsHold(next, p + 1, IF c \in Outbound THEN o + 1 ELSE o)
<1>1. RegisteredIn(next, Conn) = RegisteredIn(table, Conn) \cup {c} /\ c \notin RegisteredIn(table, Conn)
  BY DEF RegisteredIn
<1>2. /\ c \in Outbound => /\ RegisteredIn(next, Outbound) = RegisteredIn(table, Outbound) \cup {c}
                           /\ c \notin RegisteredIn(table, Outbound)
      /\ c \notin Outbound => RegisteredIn(next, Outbound) = RegisteredIn(table, Outbound)
  BY DEF RegisteredIn, Conn
<1>3. p + 1 = Cardinality(RegisteredIn(next, Conn))
  BY <1>1, PlacesFinite, FS_AddElement DEF CountsHold
<1>4. c \in Outbound => o + 1 = Cardinality(RegisteredIn(next, Outbound))
  BY <1>2, PlacesFinite, FS_AddElement DEF CountsHold
<1> QED  BY <1>2, <1>3, <1>4 DEF CountsHold

(* The deferred calls of handleConn. *)
LEMMA OneLess ==
    ASSUME NEW table, NEW p, NEW o, CountsHold(table, p, o), NEW next, NEW c \in Conn,
           table[c].st \in RegisteredSts, next[c].st \notin RegisteredSts,
           \A d \in Conn \ {c} : next[d] = table[d]
    PROVE  CountsHold(next, p - 1, IF c \in Outbound THEN o - 1 ELSE o)
<1>1. RegisteredIn(next, Conn) = RegisteredIn(table, Conn) \ {c} /\ c \in RegisteredIn(table, Conn)
  BY DEF RegisteredIn
<1>2. /\ c \in Outbound => /\ RegisteredIn(next, Outbound) = RegisteredIn(table, Outbound) \ {c}
                           /\ c \in RegisteredIn(table, Outbound)
      /\ c \notin Outbound => RegisteredIn(next, Outbound) = RegisteredIn(table, Outbound)
  BY DEF RegisteredIn, Conn
<1>3. p - 1 = Cardinality(RegisteredIn(next, Conn))
  BY <1>1, PlacesFinite, FS_RemoveElement DEF CountsHold
<1>4. c \in Outbound => o - 1 = Cardinality(RegisteredIn(next, Outbound))
  BY <1>2, PlacesFinite, FS_RemoveElement DEF CountsHold
<1> QED  BY <1>2, <1>3, <1>4 DEF CountsHold
-----------------------------------------------------------------------------
(* The actions *)

(* The connection c goes on as new, and is registered as before. *)
LEMMA Moves ==
    ASSUME PeerInv, NEW c \in Conn, NEW new \in Places, conn' = [conn EXCEPT ![c] = new],
           conn[c].st # "free", new.st # "free", new.addr = conn[c].addr, new.chain,
           new.st \in RegisteredSts <=> conn[c].st \in RegisteredSts,
           UNCHANGED <<knownOutbound, peers, outbound>>
    PROVE  PeerInv'
<1>1. MarksHold([conn EXCEPT ![c] = new], knownOutbound)
  BY MoveKeepsMarks DEF PeerInv
<1>2. conn \in [Conn -> Places]
  BY DEF PeerInv, MarksHold
<1>3. \A d \in Conn : conn'[d].st \in RegisteredSts <=> conn[d].st \in RegisteredSts
  BY <1>2
<1>4. CountsHold(conn', peers, outbound)
  BY <1>3, SameCounts DEF PeerInv
<1> QED  BY <1>1, <1>4 DEF PeerInv

(* An address asked for, by a loop, a call or a message that left the      *)
(* connections as now.                                                     *)
LEMMA StepAddNode ==
    ASSUME PeerInv, NEW a \in Addr, NEW ctx \in {"none", "server", "call", "ended"}, NEW recent, NEW now,
           MarksHold(now, knownOutbound), CountsHold(now, peers, outbound),
           \A c \in Outbound : conn[c] = Free => now[c] = Free,
           AddNode(a, ctx, recent, now)
    PROVE  PeerInv'
<1>1. UNCHANGED <<peers, outbound>>
  BY DEF AddNode
<1>2. CASE conn' = now /\ UNCHANGED knownOutbound
  BY <1>1, <1>2 DEF PeerInv
<1>3. ASSUME NEW c \in Outbound, conn[c] = Free, a \notin knownOutbound,
             knownOutbound' = knownOutbound \cup {a},
             conn' = [now EXCEPT ![c] = Started(a, "dialing", ctx)]
      PROVE  PeerInv'
  <2>1. now[c] = Free /\ c \in Conn /\ now \in [Conn -> Places]
    BY <1>3 DEF MarksHold, Conn
  <2>2. MarksHold(conn', knownOutbound')
    BY <1>3, <2>1, DialMarks, FreePlace
  <2> DEFINE new == Started(a, "dialing", ctx)
  <2>3. new.st = "dialing"
    BY StartedPlace
  <2> HIDE DEF new
  <2>4. conn' = [now EXCEPT ![c] = new]
    BY <1>3 DEF new
  <2>5. \A d \in Conn : conn'[d].st \in RegisteredSts <=> now[d].st \in RegisteredSts
    BY <2>1, <2>3, <2>4, FreePlace DEF RegisteredSts
  <2>6. CountsHold(conn', peers, outbound)
    BY <2>5, SameCounts
  <2> QED  BY <1>1, <2>2, <2>6 DEF PeerInv
<1>4. \/ conn' = now /\ UNCHANGED knownOutbound
      \/ \E c \in Outbound : /\ conn[c] = Free /\ a \notin knownOutbound
                             /\ knownOutbound' = knownOutbound \cup {a}
                             /\ conn' = [now EXCEPT ![c] = Started(a, "dialing", ctx)]
  BY Zenon DEF AddNode
<1> QED  BY <1>2, <1>3, <1>4

LEMMA StepAsks ==
    ASSUME PeerInv, NEW a \in Addr, ConnectSeed(a) \/ RpcAddNode(a) \/ ForceSync(a)
    PROVE  PeerInv'
<1>1. \E ctx \in {"server", "call"}, recent \in {throttled, {}} : AddNode(a, ctx, recent, conn)
  BY Zenon DEF ConnectSeed, RpcAddNode, ForceSync
<1> QED  BY <1>1, StepAddNode DEF PeerInv

LEMMA StepCallEnds ==
    ASSUME PeerInv, NEW c \in Outbound, CallEnds(c)
    PROVE  PeerInv'
<1> DEFINE new == [conn[c] EXCEPT !.ctx = "ended"]
<1>1. c \in Conn /\ conn[c] \in Places /\ conn[c].chain
  BY DEF PeerInv, MarksHold, Conn
<1>2. conn[c].st # "free"
  BY <1>1 DEF PeerInv, MarksHold, CallEnds, Free
<1>3. new \in Places /\ new.st = conn[c].st /\ new.addr = conn[c].addr /\ new.chain
  BY <1>1 DEF Places
<1>4. conn' = [conn EXCEPT ![c] = new] /\ UNCHANGED <<knownOutbound, peers, outbound>>
  BY DEF CallEnds, addrVars
<1> HIDE DEF new
<1> QED  BY <1>1, <1>2, <1>3, <1>4, Moves

LEMMA StepDial ==
    ASSUME PeerInv, NEW c \in Outbound, DialConnects(c) \/ DialFails(c)
    PROVE  PeerInv'
<1>1. /\ c \in Conn /\ conn[c] \in Places /\ conn[c].chain /\ conn[c].st = "dialing"
      /\ UNCHANGED <<peers, outbound>>
  BY DEF PeerInv, MarksHold, DialConnects, DialFails, Conn
<1>2. CASE DialConnects(c)
  <2> DEFINE new == [conn[c] EXCEPT !.st = "checking"]
  <2>1. new \in Places /\ new.st = "checking" /\ new.addr = conn[c].addr /\ new.chain
    BY <1>1 DEF Places
  <2>2. conn' = [conn EXCEPT ![c] = new] /\ UNCHANGED knownOutbound
    BY <1>2 DEF DialConnects
  <2> HIDE DEF new
  <2> QED  BY <1>1, <2>1, <2>2, Moves DEF RegisteredSts
<1>3. CASE DialFails(c)
  <2>1. conn' = [conn EXCEPT ![c] = Free] /\ knownOutbound' = knownOutbound \ {conn[c].addr}
    BY <1>3 DEF DialFails
  <2>2. MarksHold([conn EXCEPT ![c] = Free],
                  IF c \in Outbound THEN knownOutbound \ {conn[c].addr} ELSE knownOutbound)
    BY <1>1, EndKeepsMarks DEF PeerInv
  <2>3. \A d \in Conn : conn'[d].st \in RegisteredSts <=> conn[d].st \in RegisteredSts
    BY <1>1, <2>1, FreePlace DEF PeerInv, MarksHold, RegisteredSts
  <2>4. CountsHold(conn', peers, outbound)
    BY <2>3, SameCounts DEF PeerInv
  <2> QED  BY <1>1, <2>1, <2>2, <2>4 DEF PeerInv
<1> QED  BY <1>2, <1>3

LEMMA StepAccept ==
    ASSUME PeerInv, NEW c \in Inbound, NEW a \in Caller, Accept(c, a)
    PROVE  PeerInv'
<1>1. c \in Conn /\ a \in Addr
  BY PeerAssumption DEF Conn
<1>2. conn[c] = Free /\ UNCHANGED <<knownOutbound, peers, outbound>>
  BY DEF Accept, addrVars
<1> DEFINE new == Started(a, "checking", "server")
<1>3. conn' = [conn EXCEPT ![c] = new]
  BY DEF Accept
<1>4. MarksHold(conn', knownOutbound)
  BY <1>1, <1>3, AcceptKeepsMarks DEF PeerInv
<1>5. new.st = "checking"
  BY <1>1, StartedPlace
<1> HIDE DEF new
<1>6. \A d \in Conn : conn'[d].st \in RegisteredSts <=> conn[d].st \in RegisteredSts
  BY <1>2, <1>3, <1>5, FreePlace DEF PeerInv, MarksHold, RegisteredSts
<1>7. CountsHold(conn', peers, outbound)
  BY <1>6, SameCounts DEF PeerInv
<1> QED  BY <1>2, <1>4, <1>7 DEF PeerInv
(* The goroutine of c ends and gives back what it has. *)
LEMMA StepEnds ==
    ASSUME PeerInv, NEW c \in Conn, conn[c].st # "free", Ends(c)
    PROVE  MarksHold(conn', knownOutbound')
  BY EndKeepsMarks DEF PeerInv, Ends

LEMMA StepRegisterPeer ==
    ASSUME PeerInv, NEW c \in Conn, RegisterPeer(c)
    PROVE  PeerInv'
<1>1. conn[c] \in Places /\ conn[c].chain /\ conn[c].st = "checking" /\ conn \in [Conn -> Places]
  BY DEF PeerInv, MarksHold, RegisterPeer
<1>2. CASE Ends(c) /\ UNCHANGED <<peers, outbound>>
  <2>1. conn' = [conn EXCEPT ![c] = Free]
    BY <1>2 DEF Ends
  <2>2. \A d \in Conn : conn'[d].st \in RegisteredSts <=> conn[d].st \in RegisteredSts
    BY <1>1, <2>1, FreePlace DEF RegisteredSts
  <2>3. CountsHold(conn', peers, outbound)
    BY <2>2, SameCounts DEF PeerInv
  <2> QED  BY <1>1, <1>2, <2>3, StepEnds DEF PeerInv
<1>3. CASE /\ conn' = [conn EXCEPT ![c].st = "counted"] /\ UNCHANGED knownOutbound
           /\ peers' = peers + 1 /\ outbound' = IF c \in Outbound THEN outbound + 1 ELSE outbound
  <2> DEFINE new == [conn[c] EXCEPT !.st = "counted"]
  <2>1. new \in Places /\ new.st = "counted" /\ new.addr = conn[c].addr /\ new.chain
    BY <1>1 DEF Places
  <2>2. conn' = [conn EXCEPT ![c] = new]
    BY <1>3
  <2> HIDE DEF new
  <2>3. MarksHold(conn', knownOutbound)
    BY <1>1, <2>1, <2>2, MoveKeepsMarks DEF PeerInv
  <2>4. conn[c].st \notin RegisteredSts /\ conn'[c].st \in RegisteredSts
    BY <1>1, <2>1, <2>2 DEF RegisteredSts
  <2>5. \A d \in Conn \ {c} : conn'[d] = conn[d]
    BY <1>1, <2>2
  <2>6. CountsHold(conn', peers + 1, IF c \in Outbound THEN outbound + 1 ELSE outbound)
    BY <2>4, <2>5, OneMore DEF PeerInv
  <2> QED  BY <1>3, <2>3, <2>6 DEF PeerInv
<1> QED  BY <1>2, <1>3 DEF RegisterPeer, addrVars

(* The loop returns. *)
LEMMA StepLeaves ==
    ASSUME PeerInv, NEW c \in Conn, conn[c].st \in {"counted", "reading"}, Leaves(c)
    PROVE  PeerInv'
<1>1. conn[c].addr \in Addr
  BY DEF PeerInv, MarksHold
<1> DEFINE new == Started(conn[c].addr, "leaving", "ended")
<1>2. new \in Places /\ new.st = "leaving" /\ new.addr = conn[c].addr /\ new.chain
  BY <1>1, StartedPlace
<1>3. conn' = [conn EXCEPT ![c] = new] /\ UNCHANGED <<knownOutbound, peers, outbound>>
  BY DEF Leaves, Gone, addrVars
<1> HIDE DEF new
<1> QED  BY <1>2, <1>3, Moves DEF RegisteredSts

(* The loop goes on: what may have changed is the handshake and the state. *)
LEMMA StepGoesOn ==
    ASSUME PeerInv, NEW c \in Conn, conn[c].st \in {"counted", "reading"},
           NEW new, conn' = [conn EXCEPT ![c] = new],
           \E st \in {"counted", "reading"}, version \in BOOLEAN, verack \in BOOLEAN :
               new = [conn[c] EXCEPT !.version = version, !.verack = verack, !.st = st],
           UNCHANGED <<knownOutbound, peers, outbound>>
    PROVE  PeerInv'
<1>1. conn[c] \in Places /\ conn[c].chain
  BY DEF PeerInv, MarksHold
<1>2. PICK st \in {"counted", "reading"}, version \in BOOLEAN, verack \in BOOLEAN :
          new = [conn[c] EXCEPT !.version = version, !.verack = verack, !.st = st]
  OBVIOUS
<1>3. new \in Places /\ new.st = st /\ new.addr = conn[c].addr /\ new.chain
  BY <1>1, <1>2 DEF Places
<1> QED  BY <1>3, Moves DEF RegisteredSts

(* Only the state changes. *)
LEMMA StepState ==
    ASSUME PeerInv, NEW c \in Conn, conn[c].st \in {"counted", "reading"}, NEW st \in {"counted", "reading"},
           conn' = [conn EXCEPT ![c].st = st], UNCHANGED <<knownOutbound, peers, outbound>>
    PROVE  PeerInv'
<1> DEFINE new == [conn[c] EXCEPT !.st = st]
<1>1. conn[c] \in Places /\ conn[c].chain
  BY DEF PeerInv, MarksHold
<1>2. new \in Places /\ new.st = st /\ new.addr = conn[c].addr /\ new.chain
  BY <1>1 DEF Places
<1>3. conn' = [conn EXCEPT ![c] = new]
  OBVIOUS
<1> HIDE DEF new
<1> QED  BY <1>2, <1>3, Moves DEF RegisteredSts

LEMMA StepLoopTop ==
    ASSUME PeerInv, NEW c \in Conn, LoopTop(c)
    PROVE  PeerInv'
<1>1. CASE Leaves(c)
  BY <1>1, StepLeaves DEF LoopTop
<1>2. CASE conn' = [conn EXCEPT ![c].st = "reading"] /\ UNCHANGED <<knownOutbound, peers, outbound>>
  BY <1>2, StepState DEF LoopTop
<1> QED  BY <1>1, <1>2 DEF LoopTop, addrVars

LEMMA StepReadFails ==
    ASSUME PeerInv, NEW c \in Conn, ReadFails(c)
    PROVE  PeerInv'
  BY StepLeaves DEF ReadFails

LEMMA StepHandshake ==
    ASSUME PeerInv, NEW c \in Conn, VerAck(c) \/ \E right \in BOOLEAN : Version(c, right)
    PROVE  PeerInv'
<1>1. conn[c] \in Places /\ conn[c].st = "reading"
  BY DEF PeerInv, MarksHold, VerAck, Version, Reads
<1>2. conn[c].version \in BOOLEAN /\ conn[c].verack \in BOOLEAN
  BY <1>1 DEF Places
<1>3. CASE Leaves(c)
  BY <1>1, <1>3, StepLeaves
<1>4. ASSUME NEW version \in BOOLEAN, NEW verack \in BOOLEAN, Completes(c, version, verack)
      PROVE  PeerInv'
  <2> DEFINE new == [conn[c] EXCEPT !.version = version, !.verack = verack, !.st = "counted"]
  <2>1. conn' = [conn EXCEPT ![c] = new] /\ UNCHANGED <<knownOutbound, peers, outbound>>
    BY <1>4 DEF Completes, Shaken
  <2>2. \E st \in {"counted", "reading"}, v \in BOOLEAN, w \in BOOLEAN :
           new = [conn[c] EXCEPT !.version = v, !.verack = w, !.st = st]
    OBVIOUS
  <2> HIDE DEF new
  <2> QED  BY <1>1, <2>1, <2>2, StepGoesOn
<1> QED  BY <1>2, <1>3, <1>4 DEF VerAck, Version

LEMMA StepOtherMessage ==
    ASSUME PeerInv, NEW c \in Conn, OtherMessage(c)
    PROVE  PeerInv'
<1>1. CASE Leaves(c)
  BY <1>1, StepLeaves DEF OtherMessage, Reads
<1>2. CASE conn' = [conn EXCEPT ![c].st = "counted"] /\ UNCHANGED <<knownOutbound, peers, outbound>>
  BY <1>2, StepState DEF OtherMessage, Reads
<1> QED  BY <1>1, <1>2 DEF OtherMessage, addrVars

LEMMA StepAddrMessage ==
    ASSUME PeerInv, NEW c \in Conn, NEW a \in Addr, AddrMessage(c, a)
    PROVE  PeerInv'
<1>1. conn[c] \in Places /\ conn[c].chain /\ conn[c].st = "reading" /\ conn \in [Conn -> Places]
  BY DEF PeerInv, MarksHold, AddrMessage, Reads
<1> DEFINE new == [conn[c] EXCEPT !.st = "counted"]
           now == [conn EXCEPT ![c] = new]
<1>2. new \in Places /\ new.st = "counted" /\ new.addr = conn[c].addr /\ new.chain
  BY <1>1 DEF Places
<1>3. now = [conn EXCEPT ![c].st = "counted"] /\ conn[c].ctx \in {"none", "server", "call", "ended"}
  BY <1>1 DEF Places
<1>4. AddNode(a, conn[c].ctx, throttled, now)
  BY <1>3 DEF AddrMessage
<1> HIDE DEF new
<1>5. MarksHold(now, knownOutbound)
  BY <1>1, <1>2, MoveKeepsMarks DEF PeerInv
<1>6. \A d \in Conn : now[d].st \in RegisteredSts <=> conn[d].st \in RegisteredSts
  BY <1>1, <1>2 DEF RegisteredSts
<1>7. CountsHold(now, peers, outbound)
  BY <1>6, SameCounts DEF PeerInv
<1>8. \A d \in Outbound : conn[d] = Free => now[d] = Free
  BY <1>1, FreePlace DEF Conn
<1> HIDE DEF now
<1> QED  BY <1>3, <1>4, <1>5, <1>7, <1>8, StepAddNode

LEMMA StepLeave ==
    ASSUME PeerInv, NEW c \in Conn, Leave(c)
    PROVE  PeerInv'
<1>1. conn[c].st = "leaving" /\ conn \in [Conn -> Places] /\ conn' = [conn EXCEPT ![c] = Free]
  BY DEF PeerInv, MarksHold, Leave, Ends
<1>2. conn[c].st \in RegisteredSts /\ conn'[c].st \notin RegisteredSts
  BY <1>1, FreePlace DEF RegisteredSts
<1>3. \A d \in Conn \ {c} : conn'[d] = conn[d]
  BY <1>1
<1>4. CountsHold(conn', peers - 1, IF c \in Outbound THEN outbound - 1 ELSE outbound)
  BY <1>2, <1>3, OneLess DEF PeerInv
<1>5. MarksHold(conn', knownOutbound')
  BY <1>1, StepEnds DEF Leave
<1> QED  BY <1>4, <1>5 DEF PeerInv, Leave

(* closeActivePeerConnections closes connections; their goroutines see to  *)
(* the rest.                                                               *)
LEMMA StepCloseActive ==
    ASSUME PeerInv, CloseActive
    PROVE  PeerInv'
<1> DEFINE closed(c) == [conn[c] EXCEPT !.shut = TRUE]
<1>1. \A c \in Conn : conn[c] \in Places
  BY DEF PeerInv, MarksHold
<1>2. \A c \in Conn : /\ closed(c) \in Places /\ closed(c).st = conn[c].st
                      /\ closed(c).addr = conn[c].addr /\ closed(c).chain = conn[c].chain
  BY <1>1 DEF Places
<1>3. /\ conn' = [c \in Conn |-> IF Registered(c) THEN closed(c) ELSE conn[c]]
      /\ UNCHANGED <<knownOutbound, peers, outbound>>
  BY DEF CloseActive, addrVars
<1> HIDE DEF closed
<1>4. \A c \in Conn : /\ conn'[c] \in Places /\ conn'[c].st = conn[c].st
                      /\ conn'[c].addr = conn[c].addr /\ conn'[c].chain = conn[c].chain
                      /\ conn[c].st = "free" => conn'[c] = conn[c]
  BY <1>1, <1>2, <1>3 DEF Registered
<1>5. MarksHold(conn', knownOutbound)
  <2>1. conn' \in [Conn -> Places]
    BY <1>3, <1>4
  <2>2. \A c \in Conn : conn'[c].chain /\ IF conn'[c].st = "free" THEN conn'[c] = Free ELSE conn'[c].addr \in Addr
    BY <1>4 DEF PeerInv, MarksHold
  <2>3. \A c \in Outbound : conn'[c].st # "free" => conn'[c].addr \in knownOutbound
    BY <1>4 DEF PeerInv, MarksHold, Conn
  <2>4. \A c, d \in Outbound : conn'[c].st # "free" /\ conn'[c].addr = conn'[d].addr => c = d
    BY <1>4 DEF PeerInv, MarksHold, Conn
  <2> QED  BY <2>1, <2>2, <2>3, <2>4 DEF MarksHold
<1>6. CountsHold(conn', peers, outbound)
  BY <1>4, SameCounts DEF PeerInv
<1> QED  BY <1>3, <1>5, <1>6 DEF PeerInv

LEMMA StepQuiet ==
    ASSUME PeerInv, UNCHANGED <<conn, knownOutbound, peers, outbound>>
    PROVE  PeerInv'
  BY DEF PeerInv
-----------------------------------------------------------------------------
(* The theorem *)

LEMMA InitPeerInv == Init => PeerInv
<1> SUFFICES ASSUME Init PROVE PeerInv
  OBVIOUS
<1>1. MarksHold(conn, knownOutbound)
  BY FreePlace DEF Init, MarksHold, Conn
<1>2. RegisteredIn(conn, Conn) = {} /\ RegisteredIn(conn, Outbound) = {}
  BY FreePlace DEF Init, RegisteredIn, RegisteredSts, Conn
<1> QED  BY <1>1, <1>2, FS_EmptySet DEF Init, PeerInv, CountsHold

LEMMA StepPeerInv == PeerInv /\ [Next]_vars => PeerInv'
<1> SUFFICES ASSUME PeerInv, [Next]_vars PROVE PeerInv'
  OBVIOUS
<1>1. CASE UNCHANGED vars
  BY <1>1, StepQuiet DEF vars
<1>2. CASE Cancel \/ Down
  BY <1>2, StepQuiet DEF Cancel, Down, addrVars
<1>3. CASE CloseActive
  BY <1>3, StepCloseActive
<1>4. ASSUME NEW a \in Addr, ConnectSeed(a) \/ RpcAddNode(a) \/ ForceSync(a)
      PROVE  PeerInv'
  BY <1>4, StepAsks
<1>5. ASSUME NEW a \in Addr, ThrottleExpires(a)
      PROVE  PeerInv'
  BY <1>5, StepQuiet DEF ThrottleExpires
<1>6. ASSUME NEW c \in Outbound, DialFails(c) \/ DialConnects(c)
      PROVE  PeerInv'
  BY <1>6, StepDial
<1>7. ASSUME NEW c \in Outbound, CallEnds(c)
      PROVE  PeerInv'
  BY <1>7, StepCallEnds
<1>8. ASSUME NEW c \in Inbound, NEW a \in Caller, Accept(c, a)
      PROVE  PeerInv'
  BY <1>8, StepAccept
<1>9. ASSUME NEW c \in Conn, Handle(c) \/ ReadFails(c)
      PROVE  PeerInv'
  BY <1>9, StepRegisterPeer, StepLoopTop, StepLeave, StepReadFails DEF Handle
<1>10. ASSUME NEW c \in Conn, VerAck(c) \/ \E right \in BOOLEAN : Version(c, right)
       PROVE  PeerInv'
  BY <1>10, StepHandshake
<1>11. ASSUME NEW c \in Conn, OtherMessage(c)
       PROVE  PeerInv'
  BY <1>11, StepOtherMessage
<1>12. ASSUME NEW c \in Conn, NEW a \in Addr, AddrMessage(c, a)
       PROVE  PeerInv'
  BY <1>12, StepAddrMessage
<1> QED  BY <1>1, <1>2, <1>3, <1>4, <1>5, <1>6, <1>7, <1>8, <1>9, <1>10, <1>11, <1>12 DEF Next

(***************************************************************************)
(* For any addresses, places and limits, and whatever dials, calls,        *)
(* messages and shutdown do to each other: an address has one dial or      *)
(* outbound connection at a time, whoever is served shares the chain, and  *)
(* the counters that capacity is checked against are the registered        *)
(* connections.                                                            *)
(***************************************************************************)
THEOREM ConnectionsAlwaysSound == Spec => []ConnectionsSound
<1>1. PeerInv => ConnectionsSound
  BY PeerInvSound
<1> QED  BY InitPeerInv, StepPeerInv, <1>1, PTL DEF Spec
=============================================================================
