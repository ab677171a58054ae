---------------------------- MODULE PeerManager -----------------------------
(***************************************************************************)
(* Peers and their invalid blocks (internal/server/peermanager.go) under   *)
(* concurrent calls, connections that break and processes that restart.    *)
(*                                                                         *)
(* A node knows the peers it calls by the address it dials, and those that *)
(* call it by the remote address of their connection: host and ephemeral   *)
(* port.  The host adds nothing where ports are told apart, so a port      *)
(* stands for both; a connection that is made again has another port, and  *)
(* a port that is free may be given to anybody.                            *)
(*                                                                         *)
(* Every method of PeerManager holds the mutex from beginning to end and   *)
(* is one step; a handler that calls two of them is two steps.             *)
(***************************************************************************)
EXTENDS Naturals, FiniteSets

CONSTANTS Process,
          Liar,      \* processes that spoil blocks (modes 1, 2 and 4)
          Selfish,   \* processes in mode 3
          Text,      \* peer addresses as a user writes them
          Address,   \* addresses with a port
          Listener,  \* who listens at an address
          Complete,  \* the text with the default port; Nil for a bad one
          Port,      \* ports for outgoing connections
          Call,      \* calls of SubmitBlock that can be under way at a time
          BanLimit,  \* 3
          Nil

ASSUME PeerAssumption ==
  /\ Liar \subseteq Process /\ Selfish \subseteq Process
  /\ Listener \in [Address -> Process]
  /\ Nil \notin Address /\ Nil \notin Port /\ Nil \notin Process
  /\ Complete \in [Text -> Address \cup {Nil}]
  /\ IsFiniteSet(Call)
  /\ BanLimit \in Nat \ {0}

VARIABLES
  peers,         \* peers[p]: the keys of peerClients
  local,         \* local[p][a]: the port p's connection to a has, or Nil
  invalidCount,  \* invalidCount[p][port]
  blacklisted,   \* blacklisted[p]: a set of ports
  calls,         \* calls[c]: a call of SubmitBlock, or Nil
  held           \* history: held[port]: the processes that have had it

vars == <<peers, local, invalidCount, blacklisted, calls, held>>

Points == {"submit", "handle", "verify"}
Calls == [to : Process, peerAddr : Port, intact : BOOLEAN, at : Points]

(* NewPeerManager *)
Init ==
  /\ peers = [p \in Process |-> {}]
  /\ local = [p \in Process |-> [a \in Address |-> Nil]]
  /\ invalidCount = [p \in Process |-> [q \in Port |-> 0]]
  /\ blacklisted = [p \in Process |-> {}]
  /\ calls = [c \in Call |-> Nil]
  /\ held = [q \in Port |-> {}]

-----------------------------------------------------------------------------
(* AddPeers is a sequence of these; a bad address is logged and skipped.   *)
AddPeer(p, text) ==
  LET a == Complete[text] IN
  /\ a # Nil /\ a \notin peers[p]
  /\ peers' = [peers EXCEPT ![p] = @ \cup {a}]
  /\ UNCHANGED <<local, invalidCount, blacklisted, calls, held>>

(* grpc.Dial returns at once; it connects, and reconnects, in background.  *)
Connect(p, a, q) ==
  /\ a \in peers[p] /\ local[p][a] = Nil
  /\ \A r \in Process, b \in Address : local[r][b] # q
  /\ local' = [local EXCEPT ![p][a] = q]
  /\ held' = [held EXCEPT ![q] = @ \cup {p}]
  /\ UNCHANGED <<peers, invalidCount, blacklisted, calls>>

(* The handlers of its calls go on: none of them looks at its context.     *)
Disconnect(p, a) ==
  /\ local[p][a] # Nil
  /\ local' = [local EXCEPT ![p][a] = Nil]
  /\ UNCHANGED <<peers, invalidCount, blacklisted, calls, held>>

(* PeerManager is in memory only.                                          *)
Restart(p) ==
  /\ peers' = [peers EXCEPT ![p] = {}]
  /\ local' = [r \in Process |-> [a \in Address |->
                 IF r = p \/ Listener[a] = p THEN Nil ELSE local[r][a]]]
  /\ invalidCount' = [invalidCount EXCEPT ![p] = [q \in Port |-> 0]]
  /\ blacklisted' = [blacklisted EXCEPT ![p] = {}]
  /\ calls' = [c \in Call |-> IF calls[c] # Nil /\ calls[c].to = p THEN Nil ELSE calls[c]]
  /\ UNCHANGED held

-----------------------------------------------------------------------------
(***************************************************************************)
(* SubmitBlock and the beginning of HandleBlockSubmission.                 *)
(***************************************************************************)
(* Faulty variant: the remote address is not looked up.                    *)
UnknownPeer(p, a) == CHOOSE q \in Port : TRUE

PeerAddr(p, a) == local[p][a]

Submit(c, p, a, intact) ==
  /\ calls[c] = Nil
  /\ a \in peers[p] /\ local[p][a] # Nil
  /\ ~ intact => p \in Liar
  /\ calls' = [calls EXCEPT ![c] =
       [to |-> Listener[a], peerAddr |-> PeerAddr(p, a), intact |-> intact, at |-> "submit"]]
  /\ UNCHANGED <<peers, local, invalidCount, blacklisted, held>>

At(c, point) == calls[c] # Nil /\ calls[c].at = point

IsBlacklisted(p, q) == q \in blacklisted[p]

(* IsBlacklisted in SubmitBlock, and again in HandleBlockSubmission.       *)
Checks(c, point, next) ==
  /\ At(c, point)
  /\ IF IsBlacklisted(calls[c].to, calls[c].peerAddr)
     THEN calls' = [calls EXCEPT ![c] = Nil]
     ELSE calls' = [calls EXCEPT ![c].at = next]
  /\ UNCHANGED <<peers, local, invalidCount, blacklisted, held>>

(* Faulty variant: one more invalid block before the peer is blacklisted.  *)
IncrementLate(p, q) ==
  /\ invalidCount' = [invalidCount EXCEPT ![p][q] = @ + 1]
  /\ blacklisted' = IF invalidCount[p][q] >= BanLimit
                    THEN [blacklisted EXCEPT ![p] = @ \cup {q}] ELSE blacklisted

IncrementInvalidCount(p, q) ==
  /\ invalidCount' = [invalidCount EXCEPT ![p][q] = @ + 1]
  /\ blacklisted' = IF invalidCount[p][q] + 1 >= BanLimit
                    THEN [blacklisted EXCEPT ![p] = @ \cup {q}] ELSE blacklisted

RejectInvalid(c) ==
  /\ At(c, "verify")
  /\ ~ calls[c].intact
  /\ IncrementInvalidCount(calls[c].to, calls[c].peerAddr)
  /\ calls' = [calls EXCEPT ![c] = Nil]
  /\ UNCHANGED <<peers, local, held>>

(* A valid block, or one that mode 3 ignores for its height, unverified.   *)
HandleOther(c) ==
  /\ At(c, "verify")
  /\ calls[c].intact \/ calls[c].to \in Selfish
  /\ calls' = [calls EXCEPT ![c] = Nil]
  /\ UNCHANGED <<peers, local, invalidCount, blacklisted, held>>

Next ==
  \/ \E p \in Process :
       \/ \E text \in Text : AddPeer(p, text)
       \/ \E a \in Address : Disconnect(p, a) \/ \E q \in Port : Connect(p, a, q)
       \/ Restart(p)
       \/ \E c \in Call, a \in Address, intact \in BOOLEAN : Submit(c, p, a, intact)
  \/ \E c \in Call :
       \/ Checks(c, "submit", "handle") \/ Checks(c, "handle", "verify")
       \/ RejectInvalid(c) \/ HandleOther(c)

Spec == Init /\ [][Next]_vars

-----------------------------------------------------------------------------
(***************************************************************************)
(* Properties.                                                             *)
(***************************************************************************)
TypeOK ==
  /\ peers \in [Process -> SUBSET Address]
  /\ local \in [Process -> [Address -> Port \cup {Nil}]]
  /\ invalidCount \in [Process -> [Port -> Nat]]
  /\ blacklisted \in [Process -> SUBSET Port]
  /\ calls \in [Call -> Calls \cup {Nil}]
  /\ held \in [Port -> SUBSET Process]

(* The check and the count are two locked sections with the verification   *)
(* of a block between them.  Calls that passed the check are counted even  *)
(* when the peer is blacklisted meanwhile, but no more than those that     *)
(* were under way then.                                                    *)
BanBound ==
  \A p \in Process, q \in Port :
    invalidCount[p][q] <= BanLimit - 1 + Cardinality(Call)

(* Connections break, ports change hands and processes restart: whoever is *)
(* refused has a port that a process which spoils blocks has had.          *)
OnlyLiarsPorts ==
  \A p \in Process : \A q \in blacklisted[p] : held[q] \cap Liar # {}
=============================================================================
