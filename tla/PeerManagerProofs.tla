------------------------- MODULE PeerManagerProofs --------------------------
(***************************************************************************)
(* What PeerManager counts, for any number of peers, ports and calls under *)
(* way.                                                                    *)
(***************************************************************************)
EXTENDS PeerManager, FiniteSetTheorems, TLAPS

(* Calls of q at p that are past both checks.                              *)
Past(p, q) == {c \in Call : At(c, "verify") /\ calls[c].to = p /\ calls[c].peerAddr = q}

(* The two maps agree, being written under one lock.                       *)
Banned ==
  \A p \in Process, q \in Port : q \in blacklisted[p] <=> invalidCount[p][q] >= BanLimit

(* Once a peer is blacklisted its count can only take in the calls that    *)
(* are past the checks, and each of these makes way for what it adds.      *)
Bounded ==
  \A p \in Process, q \in Port :
    invalidCount[p][q] >= BanLimit =>
      invalidCount[p][q] + Cardinality(Past(p, q)) <= BanLimit - 1 + Cardinality(Call)

(* A port on a connection, in a call or in a count has a history.          *)
Blame ==
  /\ \A p \in Process, a \in Address : local[p][a] # Nil => p \in held[local[p][a]]
  /\ \A c \in Call : calls[c] # Nil /\ ~ calls[c].intact => held[calls[c].peerAddr] \cap Liar # {}
  /\ \A p \in Process, q \in Port : invalidCount[p][q] > 0 => held[q] \cap Liar # {}

IInv == TypeOK /\ Banned /\ Bounded /\ Blame

-----------------------------------------------------------------------------
(* Past(p, q) is one of finitely many sets of calls.                       *)
LEMMA PastFinite ==
  ASSUME NEW p, NEW q
  PROVE  /\ IsFiniteSet(Past(p, q))
         /\ Cardinality(Past(p, q)) \in Nat
         /\ Cardinality(Call) \in Nat
         /\ Cardinality(Past(p, q)) <= Cardinality(Call)
<1>1. Past(p, q) \subseteq Call
  BY DEF Past
<1>2. IsFiniteSet(Call)
  BY PeerAssumption
<1> QED
  BY <1>1, <1>2, FS_Subset, FS_CardinalityType

(* The same for the next state.                                            *)
LEMMA PastFiniteNext ==
  ASSUME NEW p, NEW q
  PROVE  /\ IsFiniteSet(Past(p, q)')
         /\ Cardinality(Past(p, q)') \in Nat
         /\ Cardinality(Past(p, q)') <= Cardinality(Call)
<1>1. Past(p, q)' \subseteq Call
  BY DEF Past
<1>2. IsFiniteSet(Call)
  BY PeerAssumption
<1> QED
  BY <1>1, <1>2, FS_Subset, FS_CardinalityType

(* Fewer calls past the checks, and no change of count: still bounded.     *)
LEMMA StaysBounded ==
  ASSUME TypeOK, Bounded, UNCHANGED invalidCount,
         \A p \in Process, q \in Port :
           invalidCount[p][q] >= BanLimit => Past(p, q)' \subseteq Past(p, q)
  PROVE  Bounded'
<1> SUFFICES ASSUME NEW p \in Process, NEW q \in Port,
                    invalidCount[p][q] >= BanLimit
             PROVE  invalidCount[p][q] + Cardinality(Past(p, q)') <= BanLimit - 1 + Cardinality(Call)
  BY DEF Bounded
<1>1. Cardinality(Past(p, q)') <= Cardinality(Past(p, q))
  BY PastFinite, FS_Subset
<1>2. invalidCount[p][q] \in Nat /\ BanLimit \in Nat
  BY PeerAssumption DEF TypeOK
<1>3. invalidCount[p][q] + Cardinality(Past(p, q)) <= BanLimit - 1 + Cardinality(Call)
  BY DEF Bounded
<1> QED
  BY <1>1, <1>2, <1>3, PastFinite, PastFiniteNext

-----------------------------------------------------------------------------
(* The first state.                                                        *)
LEMMA InitInv == Init => IInv
<1> SUFFICES ASSUME Init PROVE IInv
  OBVIOUS
<1>1. TypeOK
  BY DEF Init, TypeOK
<1>2. Banned
  BY PeerAssumption DEF Init, Banned
<1>3. Bounded
  BY PeerAssumption DEF Init, Bounded
<1>4. Blame
  BY DEF Init, Blame
<1> QED
  BY <1>1, <1>2, <1>3, <1>4 DEF IInv

(* Connections come and go; counts and calls do not change.                *)
LEMMA ConnectionInv ==
  ASSUME IInv, NEW p \in Process,
         \/ \E text \in Text : AddPeer(p, text)
         \/ \E a \in Address : Disconnect(p, a) \/ \E q \in Port : Connect(p, a, q)
  PROVE  IInv'
<1> USE DEF IInv
<1>1. UNCHANGED <<invalidCount, blacklisted, calls>>
  BY DEF AddPeer, Disconnect, Connect
<1>2. TypeOK'
  <2>1. CASE \E text \in Text : AddPeer(p, text)
    BY <2>1, PeerAssumption DEF TypeOK, AddPeer
  <2>2. CASE \E a \in Address : Disconnect(p, a)
    BY <2>2 DEF TypeOK, Disconnect
  <2>3. CASE \E a \in Address, q \in Port : Connect(p, a, q)
    BY <2>3 DEF TypeOK, Connect
  <2> QED
    BY <2>1, <2>2, <2>3
<1>3. Banned'
  BY <1>1 DEF Banned
<1>4. Bounded'
  <2>1. \A r, q : Past(r, q)' = Past(r, q)
    BY <1>1 DEF Past, At
  <2> QED
    BY <1>1, <2>1, StaysBounded
<1>5. Blame'
  <2>1. CASE \E text \in Text : AddPeer(p, text)
    BY <2>1 DEF Blame, AddPeer
  <2>2. CASE \E a \in Address : Disconnect(p, a)
    BY <2>2 DEF Blame, TypeOK, Disconnect
  <2>3. CASE \E a \in Address, q \in Port : Connect(p, a, q)
    <3> PICK a \in Address, q \in Port : Connect(p, a, q)
      BY <2>3
    <3>1. \A k \in Port : held[k] \subseteq held'[k]
      BY DEF Connect, TypeOK
    <3>2. p \in held'[q]
      BY DEF Connect, TypeOK
    <3>3. \A r \in Process, b \in Address : local'[r][b] # Nil => r \in held'[local'[r][b]]
      BY <3>1, <3>2 DEF Connect, TypeOK, Blame
    <3>4. \A c \in Call : calls[c] # Nil => calls[c].peerAddr \in Port
      BY DEF TypeOK, Calls
    <3>5. \A k \in Port : held[k] \cap Liar # {} => held'[k] \cap Liar # {}
      BY <3>1
    <3> QED
      BY <1>1, <3>3, <3>4, <3>5 DEF Blame
  <2> QED
    BY <2>1, <2>2, <2>3
<1> QED
  BY <1>2, <1>3, <1>4, <1>5

(* A restart forgets counts and calls together.                            *)
LEMMA RestartInv ==
  ASSUME IInv, NEW p \in Process, Restart(p)
  PROVE  IInv'
<1> USE DEF IInv
<1>1. TypeOK'
  BY DEF TypeOK, Restart
<1>2. /\ \A r \in Process, q \in Port : invalidCount'[r][q] = IF r = p THEN 0 ELSE invalidCount[r][q]
      /\ \A r \in Process : blacklisted'[r] = IF r = p THEN {} ELSE blacklisted[r]
      /\ \A c \in Call : calls'[c] = Nil \/ calls'[c] = calls[c]
      /\ \A r \in Process, a \in Address : local'[r][a] \in {Nil, local[r][a]}
      /\ held' = held
  BY DEF TypeOK, Restart
<1>3. Banned'
  BY <1>2, PeerAssumption DEF Banned, TypeOK
<1>4. Bounded'
  <2> SUFFICES ASSUME NEW r \in Process, NEW q \in Port, invalidCount'[r][q] >= BanLimit
               PROVE  invalidCount'[r][q] + Cardinality(Past(r, q)') <= BanLimit - 1 + Cardinality(Call)
    BY DEF Bounded
  <2>1. r # p /\ invalidCount'[r][q] = invalidCount[r][q]
    BY <1>2, PeerAssumption
  <2>2. Past(r, q)' \subseteq Past(r, q)
    BY <1>2 DEF Past, At
  <2>3. Cardinality(Past(r, q)') <= Cardinality(Past(r, q))
    BY <2>2, PastFinite, FS_Subset
  <2>4. invalidCount[r][q] + Cardinality(Past(r, q)) <= BanLimit - 1 + Cardinality(Call)
    BY <2>1 DEF Bounded
  <2>5. invalidCount[r][q] \in Nat /\ BanLimit \in Nat
    BY PeerAssumption DEF TypeOK
  <2> QED
    BY <2>1, <2>3, <2>4, <2>5, PastFinite, PastFiniteNext
<1>5. Blame'
  <2>1. \A r \in Process, a \in Address : local'[r][a] # Nil => r \in held'[local'[r][a]]
    BY <1>2 DEF Blame
  <2>2. \A c \in Call : calls'[c] # Nil /\ ~ calls'[c].intact => held'[calls'[c].peerAddr] \cap Liar # {}
    BY <1>2 DEF Blame
  <2>3. \A r \in Process, q \in Port : invalidCount'[r][q] > 0 => held'[q] \cap Liar # {}
    BY <1>2 DEF Blame
  <2> QED
    BY <2>1, <2>2, <2>3 DEF Blame
<1> QED
  BY <1>1, <1>3, <1>4, <1>5

(* A call begins: not past any check, and blamed on its own port.          *)
LEMMA SubmitInv ==
  ASSUME IInv, NEW c \in Call, NEW p \in Process, NEW a \in Address, NEW intact \in BOOLEAN,
         Submit(c, p, a, intact)
  PROVE  IInv'
<1> USE DEF IInv
<1> DEFINE call == [to |-> Listener[a], peerAddr |-> PeerAddr(p, a), intact |-> intact, at |-> "submit"]
<1>1. call \in Calls
  BY PeerAssumption DEF Submit, PeerAddr, TypeOK, Calls, Points
<1>2. calls' = [calls EXCEPT ![c] = call]
  BY DEF Submit
<1>3. UNCHANGED <<peers, local, invalidCount, blacklisted, held>>
  BY DEF Submit
<1>4. TypeOK'
  BY <1>1, <1>2, <1>3 DEF TypeOK
<1>5. Banned'
  BY <1>3 DEF Banned
<1>6. Bounded'
  <2>1. \A r, q : Past(r, q)' \subseteq Past(r, q)
    BY <1>2 DEF Past, At, TypeOK
  <2> QED
    BY <1>3, <2>1, StaysBounded
<1>7. Blame'
  <2>1. ~ intact => held[call.peerAddr] \cap Liar # {}
    BY DEF Submit, Blame, PeerAddr
  <2>2. \A d \in Call : calls'[d] # Nil /\ ~ calls'[d].intact => held[calls'[d].peerAddr] \cap Liar # {}
    BY <1>2, <2>1 DEF Blame, TypeOK
  <2> QED
    BY <1>3, <2>2 DEF Blame
<1> QED
  BY <1>4, <1>5, <1>6, <1>7

(* A check lets no call past it whose peer is blacklisted.                 *)
LEMMA CheckInv ==
  ASSUME IInv, NEW c \in Call,
         Checks(c, "submit", "handle") \/ Checks(c, "handle", "verify")
  PROVE  IInv'
<1> USE DEF IInv
<1>1. UNCHANGED <<peers, local, invalidCount, blacklisted, held>>
  BY DEF Checks
<1>2. calls[c] \in Calls /\ calls[c] # Nil
  BY DEF Checks, At, TypeOK
<1>3. \/ calls' = [calls EXCEPT ![c] = Nil]
      \/ /\ calls[c].peerAddr \notin blacklisted[calls[c].to]
         /\ \E next \in Points : calls' = [calls EXCEPT ![c].at = next]
  BY DEF Checks, IsBlacklisted, Points
<1>4. TypeOK'
  BY <1>1, <1>2, <1>3 DEF TypeOK, Calls
<1>5. Banned'
  BY <1>1 DEF Banned
<1>6. Bounded'
  <2> SUFFICES ASSUME NEW r \in Process, NEW q \in Port, invalidCount[r][q] >= BanLimit
               PROVE  Past(r, q)' \subseteq Past(r, q)
    BY <1>1, StaysBounded
  <2>1. q \in blacklisted[r]
    BY DEF Banned
  <2>2. \A d \in Call \ {c} : calls'[d] = calls[d]
    BY <1>3 DEF TypeOK
  <2>3. calls'[c] # Nil => /\ calls[c].peerAddr \notin blacklisted[calls[c].to]
                           /\ calls'[c].to = calls[c].to /\ calls'[c].peerAddr = calls[c].peerAddr
    BY <1>2, <1>3 DEF TypeOK, Calls
  <2>4. c \notin Past(r, q)'
    BY <2>1, <2>3 DEF Past, At
  <2> QED
    BY <2>2, <2>4 DEF Past, At
<1>7. Blame'
  <2>1. \A d \in Call \ {c} : calls'[d] = calls[d]
    BY <1>3 DEF TypeOK
  <2>2. calls'[c] # Nil => calls'[c].intact = calls[c].intact /\ calls'[c].peerAddr = calls[c].peerAddr
    BY <1>2, <1>3 DEF TypeOK, Calls
  <2>3. \A d \in Call : calls'[d] # Nil /\ ~ calls'[d].intact => held[calls'[d].peerAddr] \cap Liar # {}
    BY <1>2, <2>1, <2>2 DEF Blame
  <2> QED
    BY <1>1, <2>3 DEF Blame
<1> QED
  BY <1>4, <1>5, <1>6, <1>7

(* One more on the count is one call less past the checks.                 *)
LEMMA RejectInv ==
  ASSUME IInv, NEW c \in Call, RejectInvalid(c)
  PROVE  IInv'
<1> USE DEF IInv
<1> DEFINE p == calls[c].to
           q == calls[c].peerAddr
<1>1. p \in Process /\ q \in Port /\ calls[c] # Nil /\ ~ calls[c].intact
  BY DEF RejectInvalid, At, TypeOK, Calls
<1>2. /\ invalidCount' = [invalidCount EXCEPT ![p][q] = @ + 1]
      /\ blacklisted' = IF invalidCount[p][q] + 1 >= BanLimit
                        THEN [blacklisted EXCEPT ![p] = @ \cup {q}] ELSE blacklisted
      /\ calls' = [calls EXCEPT ![c] = Nil]
      /\ UNCHANGED <<peers, local, held>>
  BY DEF RejectInvalid, IncrementInvalidCount
<1>3. TypeOK'
  BY <1>1, <1>2 DEF TypeOK
<1>4. /\ invalidCount'[p][q] = invalidCount[p][q] + 1
      /\ \A r \in Process, k \in Port :
           r # p \/ k # q => invalidCount'[r][k] = invalidCount[r][k]
  BY <1>1, <1>2 DEF TypeOK
<1>5. invalidCount \in [Process -> [Port -> Nat]] /\ BanLimit \in Nat \ {0}
  BY PeerAssumption DEF TypeOK
<1>6. Banned'
  <2> SUFFICES ASSUME NEW r \in Process, NEW k \in Port
               PROVE  k \in blacklisted'[r] <=> invalidCount'[r][k] >= BanLimit
    BY DEF Banned
  <2>1. k \in blacklisted'[r] <=>
          k \in blacklisted[r] \/ (r = p /\ k = q /\ invalidCount[p][q] + 1 >= BanLimit)
    BY <1>1, <1>2 DEF TypeOK
  <2>2. k \in blacklisted[r] <=> invalidCount[r][k] >= BanLimit
    BY DEF Banned
  <2> QED
    BY <1>4, <1>5, <2>1, <2>2
<1>7. Bounded'
  <2> SUFFICES ASSUME NEW r \in Process, NEW k \in Port, invalidCount'[r][k] >= BanLimit
               PROVE  invalidCount'[r][k] + Cardinality(Past(r, k)') <= BanLimit - 1 + Cardinality(Call)
    BY DEF Bounded
  <2>1. Past(r, k)' = Past(r, k) \ {c}
    BY <1>2 DEF Past, At, TypeOK
  <2>2. CASE r = p /\ k = q
    <3>1. c \in Past(p, q)
      BY DEF Past, RejectInvalid
    <3>2. Cardinality(Past(r, k)') = Cardinality(Past(r, k)) - 1
      BY <2>1, <2>2, <3>1, PastFinite, FS_RemoveElement
    <3>3. CASE invalidCount[p][q] >= BanLimit
      <4>1. invalidCount[p][q] + Cardinality(Past(p, q)) <= BanLimit - 1 + Cardinality(Call)
        BY <1>1, <3>3 DEF Bounded
      <4> QED
        BY <1>1, <1>4, <1>5, <2>2, <3>2, <4>1, PastFinite
    <3>4. CASE invalidCount[p][q] < BanLimit
      <4>1. invalidCount[p][q] \in Nat
        BY <1>1, <1>5
      <4>2. invalidCount'[r][k] = invalidCount[p][q] + 1
        BY <1>4, <2>2
      <4>3. invalidCount'[r][k] = BanLimit
        BY <1>5, <3>4, <4>1, <4>2
      <4> QED
        BY <1>5, <3>2, <4>3, PastFinite
    <3> QED
      BY <1>1, <1>5, <3>3, <3>4
  <2>3. CASE r # p \/ k # q
    <3>1. Cardinality(Past(r, k)') <= Cardinality(Past(r, k))
      BY <2>1, PastFinite, FS_Subset
    <3>2. invalidCount[r][k] + Cardinality(Past(r, k)) <= BanLimit - 1 + Cardinality(Call)
      BY <1>4, <2>3 DEF Bounded
    <3> QED
      BY <1>4, <1>5, <2>3, <3>1, <3>2, PastFinite, PastFiniteNext
  <2> QED
    BY <2>2, <2>3
<1>8. Blame'
  <2>1. held[q] \cap Liar # {}
    BY <1>1 DEF Blame
  <2>2. \A d \in Call : calls'[d] = Nil \/ calls'[d] = calls[d]
    BY <1>2 DEF TypeOK
  <2>3. \A r \in Process, k \in Port : invalidCount'[r][k] > 0 => held[k] \cap Liar # {}
    BY <1>4, <2>1 DEF Blame
  <2> QED
    BY <1>2, <2>2, <2>3 DEF Blame
<1> QED
  BY <1>3, <1>6, <1>7, <1>8

(* A call that ends without being counted.                                 *)
LEMMA OtherInv ==
  ASSUME IInv, NEW c \in Call, HandleOther(c)
  PROVE  IInv'
<1> USE DEF IInv
<1>1. calls' = [calls EXCEPT ![c] = Nil] /\ UNCHANGED <<peers, local, invalidCount, blacklisted, held>>
  BY DEF HandleOther
<1>2. TypeOK'
  BY <1>1 DEF TypeOK
<1>3. Banned'
  BY <1>1 DEF Banned
<1>4. Bounded'
  <2>1. \A r, q : Past(r, q)' \subseteq Past(r, q)
    BY <1>1 DEF Past, At, TypeOK
  <2> QED
    BY <1>1, <2>1, StaysBounded
<1>5. Blame'
  BY <1>1 DEF Blame, TypeOK
<1> QED
  BY <1>2, <1>3, <1>4, <1>5

(* Every step keeps the invariant.                                         *)
LEMMA NextInv == IInv /\ [Next]_vars => IInv'
<1> SUFFICES ASSUME IInv, [Next]_vars PROVE IInv'
  OBVIOUS
<1>1. CASE UNCHANGED vars
  <2>1. UNCHANGED <<peers, local, invalidCount, blacklisted, calls, held>>
    BY <1>1 DEF vars
  <2>2. \A r, q : Past(r, q)' = Past(r, q)
    BY <2>1 DEF Past, At
  <2> QED
    BY <2>1, <2>2 DEF IInv, TypeOK, Banned, Bounded, Blame
<1>2. CASE Next
  BY <1>2, ConnectionInv, RestartInv, SubmitInv, CheckInv, RejectInv, OtherInv DEF Next
<1> QED
  BY <1>1, <1>2

(* The invariant of peermanager.go, from which the theorems follow.        *)
LEMMA Invariant == Spec => []IInv
BY InitInv, NextInv, PTL DEF Spec

-----------------------------------------------------------------------------
(* The maps and the calls stay well typed.                                 *)
THEOREM PeersTypeCorrect == Spec => []TypeOK
BY Invariant, PTL DEF IInv

(* A peer gets no more invalid blocks counted than the limit and the calls *)
(* it had under way when it was reached, however checks, counts, breaks    *)
(* and restarts interleave.                                                *)
THEOREM BanIsBounded == Spec => []BanBound
<1>1. IInv => BanBound
  <2> SUFFICES ASSUME IInv, NEW p \in Process, NEW q \in Port
               PROVE  invalidCount[p][q] <= BanLimit - 1 + Cardinality(Call)
    BY DEF BanBound
  <2>1. invalidCount[p][q] \in Nat /\ BanLimit \in Nat
    BY PeerAssumption DEF IInv, TypeOK
  <2>2. CASE invalidCount[p][q] >= BanLimit
    BY <2>1, <2>2, PastFinite DEF IInv, Bounded
  <2> QED
    BY <2>1, <2>2, PastFinite
<1> QED
  BY <1>1, Invariant, PTL

(* Nobody is refused for a port that only honest processes have had.       *)
THEOREM OnlyLiarsRefused == Spec => []OnlyLiarsPorts
<1>1. IInv => OnlyLiarsPorts
  <2> SUFFICES ASSUME IInv, NEW p \in Process, NEW q \in blacklisted[p]
               PROVE  held[q] \cap Liar # {}
    BY DEF OnlyLiarsPorts
  <2>1. q \in Port /\ invalidCount[p][q] >= BanLimit /\ invalidCount[p][q] \in Nat
    BY DEF IInv, TypeOK, Banned
  <2> QED
    BY <2>1, PeerAssumption DEF IInv, Blame
<1> QED
  BY <1>1, Invariant, PTL
=============================================================================
