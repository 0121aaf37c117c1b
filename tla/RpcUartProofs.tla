--------------------------- MODULE RpcUartProofs ---------------------------
(***************************************************************************)
(* Proofs about RpcUart.  The invariants are stated for one direction of   *)
(* the line, from a node n to its peer m, as operators of the parts of the *)
(* state that they speak of; the lemmas about them are then about values.  *)
(***************************************************************************)
EXTENDS RpcUart, FiniteSetTheorems, SequenceTheorems, TLAPS

\* The two nodes' packets have different checksums.  Otherwise a frame that
\* lost its packet on the line passes for the acknowledgment of the other
\* node's packet.
CrcApart ==
    \A n \in Nodes : \A p \in 1 .. MaxSends[n] :
        \A q \in 1 .. MaxSends[Peer(n)] : Crc(n, p) # Crc(Peer(n), q)

-----------------------------------------------------------------------------
(* Types and control.                                                      *)
Tokens == [kind : {"DELIMITER", "PACKET", "CHECKSUM", "DAMAGED"}, val : Nat]

RpcTypes ==
    /\ send \in [Nodes -> [pc : {"idle", "attempt", "close", "wait"},
                           attempts : 0 .. TxAttempts]]
    /\ tx_flip \in [Nodes -> {0, 1}]
    /\ ack_payload \in [Nodes -> Nat]
    /\ ack_sem \in [Nodes -> {0, 1}]
    /\ ack_tx_lock \in [Nodes -> {"none", "send", "work"}]
    /\ work \in [Nodes -> {"decode", "ack", "ack_close", "deliver"}]
    /\ ring \in [Nodes -> Seq(Tokens)]
    /\ rx_packet \in [Nodes -> Seq(Tokens)]
    /\ last_rx_crc \in [Nodes -> Nat]
    /\ rx_flip_any \in [Nodes -> BOOLEAN]
    /\ fields \in [Nodes -> Seq(Nat)]
    /\ results \in [Nodes -> Seq({"acked", "failed", "cut"})]
    /\ delivered \in [Nodes -> Seq(Nat)]
    /\ lost \in Nat /\ altered \in Nat /\ late \in Nat
    /\ restarts \in [Nodes -> Nat]

ControlOK(n, pc, attempts, lock, w, f, res, payload, x) ==
    /\ pc = "attempt" => attempts < TxAttempts
    /\ pc = "close" <=> lock = "send"
    /\ w = "ack_close" <=> lock = "work"
    /\ Len(f) <= MaxSends[n] /\ \A p \in 1 .. Len(f) : CrcOf(f[p]) = Crc(n, p)
    /\ pc = "idle" => Len(res) = Len(f)
    /\ pc # "idle" => Len(f) = Len(res) + 1 /\ payload = f[Len(f)]
    /\ w # "decode" => FrameValid(n, x)
RpcControl ==
    \A n \in Nodes :
        ControlOK(n, send[n].pc, send[n].attempts, ack_tx_lock[n], work[n], fields[n],
                  results[n], ack_payload[n], rx_packet[n])

-----------------------------------------------------------------------------
(* A frame on its way.                                                     *)

\* The tokens end with a frame that holds t so far.
Ends(r, t) ==
    /\ Len(r) >= 1 /\ r[Len(r)] = t
    /\ Len(r) = 1 \/ r[Len(r) - 1] = Delimiter

\* The tokens hold the frame of t, and the frame of t and u.
Opens(r, j) == j = 0 \/ r[j] = Delimiter
Holds1(r, t) ==
    \E j \in 0 .. Len(r) - 2 : Opens(r, j) /\ r[j + 1] = t /\ r[j + 2] = Delimiter
Holds2(r, t, u) ==
    \E j \in 0 .. Len(r) - 3 :
        Opens(r, j) /\ r[j + 1] = t /\ r[j + 2] = u /\ r[j + 3] = Delimiter

\* The attempt in progress has met nothing yet: its frame is being written, or
\* is in the peer's ring, or is being acknowledged, or the acknowledgment is on
\* its way or there.
InFlight(pc, t, u, r, b, w, x, sem) ==
    \/ pc = "close" /\ Ends(r, t)
    \/ /\ pc = "wait"
       /\ \/ Holds2(r, t, u)
          \/ w = "ack" /\ x = <<t, u>>
          \/ w = "ack_close" /\ x = <<t, u>> /\ Ends(b, u)
          \/ Holds1(b, u)
          \/ sem = 1

Flying(n) ==
    InFlight(send[n].pc, Packet(Len(fields[n])), Checksum(ack_payload[n]),
             ring[Peer(n)], ring[n], work[Peer(n)], rx_packet[Peer(n)], ack_sem[n])

Trouble(n) == lost + late + restarts[n] + restarts[Peer(n)]

\* Every attempt but the one in flight has met some trouble.
Budget(n) ==
    /\ send[n].pc # "idle" =>
        \/ Trouble(n) >= send[n].attempts
        \/ Flying(n) /\ Trouble(n) + 1 >= send[n].attempts
    /\ \A p \in DOMAIN results[n] :
        results[n][p] = "failed" => Trouble(n) >= TxAttempts

RetriesInv == RpcTypes /\ RpcControl /\ \A n \in Nodes : Budget(n)

-----------------------------------------------------------------------------
(* Peers, tokens and what the line does to them.                           *)

\* There are two nodes, each the peer of the other.
LEMMA PeerFacts ==
    ASSUME NEW n \in Nodes
    PROVE  /\ Peer(n) \in Nodes /\ Peer(n) # n /\ Peer(Peer(n)) = n
           /\ \A k \in Nodes : k = n \/ k = Peer(n)
<1>1. PICK a, b \in Nodes : a # b /\ Nodes = {a, b}
  BY RpcUartAssumption
<1>2. \A k \in Nodes : Peer(k) \in Nodes /\ Peer(k) # k
  <2>1. TAKE k \in Nodes
  <2>2. \E m \in Nodes : m # k
    BY <1>1
  <2> QED
    BY <2>2 DEF Peer
<1> QED
  BY <1>1, <1>2

\* The four kinds of tokens differ.
LEMMA TokenFacts ==
    /\ Delimiter \in Tokens /\ Damaged \in Tokens
    /\ \A v \in Nat : Packet(v) \in Tokens /\ Checksum(v) \in Tokens
    /\ Delimiter.kind = "DELIMITER" /\ Damaged.kind = "DAMAGED"
    /\ \A v : Packet(v).kind = "PACKET" /\ Packet(v).val = v
    /\ \A v : Checksum(v).kind = "CHECKSUM" /\ Checksum(v).val = v
    /\ \A t \in Tokens : t.kind = "PACKET" => t = Packet(t.val)
    /\ \A t \in Tokens : t.kind = "CHECKSUM" => t = Checksum(t.val)
  BY DEF Delimiter, Damaged, Packet, Checksum, Token, Tokens

\* Sequences of the same length and elements are equal.
LEMMA SameSeq ==
    \A r, q \in Seq(Tokens) :
        Len(r) = Len(q) /\ (\A j \in 1 .. Len(r) : r[j] = q[j]) => r = q
  BY SeqEqual, Zenon

\* A part of length one is its token.
LEMMA SingleOf ==
    ASSUME NEW s \in Seq(Tokens), NEW i \in 1 .. Len(s)
    PROVE  SubSeq(s, i, i) = <<s[i]>>
<1>1. SubSeq(s, i, i) \in Seq(Tokens) /\ Len(SubSeq(s, i, i)) = 1
  OBVIOUS
<1>2. SubSeq(s, i, i)[1] = s[i]
  OBVIOUS
<1>3. <<s[i]>> \in Seq(Tokens) /\ Len(<<s[i]>>) = 1 /\ <<s[i]>>[1] = s[i]
  OBVIOUS
<1>4. \A j \in 1 .. Len(SubSeq(s, i, i)) : SubSeq(s, i, i)[j] = <<s[i]>>[j]
  BY <1>1, <1>2, <1>3
<1> QED
  BY <1>1, <1>3, <1>4, SameSeq, Zenon

\* What becomes of two tokens on the line: they arrive, or one of them is lost
\* or damaged.
PairOf(t, u) == {<<t, u>>, <<t>>, <<u>>, <<t, Damaged>>, <<Damaged, u>>}

\* What a damaged checksum field may become is a token.
LEMMA AnyFieldTokens ==
    ASSUME NEW f \in AnyField
    PROVE  Checksum(f) \in Tokens
<1>1. PICK n \in Nodes : f \in {Field(Crc(n, p), flip) : p \in 1 .. MaxSends[n], flip \in {0, 1}}
  BY DEF AnyField
<1>2. PICK p \in 1 .. MaxSends[n], flip \in {0, 1} : f = Field(Crc(n, p), flip)
  BY <1>1
<1>3. Crc(n, p) \in Nat
  BY RpcUartAssumption
<1>4. f \in Nat
  BY <1>2, <1>3 DEF Field
<1> QED
  BY <1>4, TokenFacts

\* Two tokens that are written become one of these, or a checksum field among
\* them becomes another one.
LEMMA EmitPair ==
    ASSUME NEW n \in Nodes, NEW t \in Tokens, NEW u \in Tokens,
           ring \in [Nodes -> Seq(Tokens)], lost \in Nat, altered \in Nat,
           Emit(n, <<t, u>>)
    PROVE  \E us \in Seq(Tokens) :
            /\ ring' = [ring EXCEPT ![Peer(n)] = @ \o us]
            /\ (us = <<t, u>> /\ lost' = lost) \/ lost' = lost + 1
            /\ (us \in PairOf(t, u) /\ altered' = altered) \/ altered' = altered + 1
<1>1. \A us \in PairOf(t, u) : us \in Seq(Tokens)
  <2>1. Damaged \in Tokens
    BY TokenFacts
  <2>2. <<t, u>> \in Seq(Tokens) /\ <<t>> \in Seq(Tokens) /\ <<u>> \in Seq(Tokens)
    OBVIOUS
  <2>3. <<t, Damaged>> \in Seq(Tokens) /\ <<Damaged, u>> \in Seq(Tokens)
    BY <2>1
  <2> QED
    BY <2>2, <2>3 DEF PairOf
<1>2. Without(<<t, u>>, 1) = <<u>> /\ Without(<<t, u>>, 2) = <<t>>
  <2>1. SubSeq(<<t, u>>, 1, 0) = <<>> /\ SubSeq(<<t, u>>, 3, 2) = <<>>
    OBVIOUS
  <2> DEFINE s == <<t, u>>
  <2>0. s \in Seq(Tokens) /\ Len(s) = 2 /\ s[1] = t /\ s[2] = u
    OBVIOUS
  <2>2. SubSeq(s, 1, 1) = <<t>> /\ SubSeq(s, 2, 2) = <<u>>
    <3> HIDE DEF s
    <3> QED
      BY <2>0, SingleOf
  <2>4. <<>> \o <<u>> = <<u>> /\ <<t>> \o <<>> = <<t>>
    OBVIOUS
  <2>5. Without(<<t, u>>, 1) = SubSeq(<<t, u>>, 1, 0) \o SubSeq(<<t, u>>, 2, 2)
    BY DEF Without
  <2>6. Without(<<t, u>>, 2) = SubSeq(<<t, u>>, 1, 1) \o SubSeq(<<t, u>>, 3, 2)
    BY DEF Without
  <2> QED
    BY <2>1, <2>2, <2>4, <2>5, <2>6
<1>3. [<<t, u>> EXCEPT ![1] = Damaged] = <<Damaged, u>>
      /\ [<<t, u>> EXCEPT ![2] = Damaged] = <<t, Damaged>>
  OBVIOUS
<1>4. DOMAIN <<t, u>> = {1, 2}
  OBVIOUS
<1>5. CASE /\ lost' = lost /\ altered' = altered
           /\ ring' = [ring EXCEPT ![Peer(n)] = @ \o <<t, u>>]
  BY <1>1, <1>5 DEF PairOf
<1>6. CASE /\ lost' = lost + 1 /\ altered' = altered
           /\ \E i \in DOMAIN <<t, u>> :
                \E us \in {Without(<<t, u>>, i), [<<t, u>> EXCEPT ![i] = Damaged]} :
                    ring' = [ring EXCEPT ![Peer(n)] = @ \o us]
  <2>1. PICK i \in {1, 2} :
            \E us \in {Without(<<t, u>>, i), [<<t, u>> EXCEPT ![i] = Damaged]} :
                ring' = [ring EXCEPT ![Peer(n)] = @ \o us]
    BY <1>4, <1>6
  <2>2. PICK us \in {Without(<<t, u>>, i), [<<t, u>> EXCEPT ![i] = Damaged]} :
            ring' = [ring EXCEPT ![Peer(n)] = @ \o us]
    BY <2>1
  <2>3. us \in PairOf(t, u)
    BY <1>2, <1>3 DEF PairOf
  <2> QED
    BY <1>1, <1>6, <2>2, <2>3
<1>7. CASE /\ lost' = lost + 1 /\ altered' = altered + 1
           /\ \E i \in DOMAIN <<t, u>> : \E f \in AnyField :
                ring' = [ring EXCEPT ![Peer(n)] = @ \o [<<t, u>> EXCEPT ![i] = Checksum(f)]]
  <2>1. PICK i \in {1, 2}, f \in AnyField :
            ring' = [ring EXCEPT ![Peer(n)] = @ \o [<<t, u>> EXCEPT ![i] = Checksum(f)]]
    BY <1>4, <1>7
  <2>2. Checksum(f) \in Tokens
    BY AnyFieldTokens
  <2>3. [<<t, u>> EXCEPT ![i] = Checksum(f)] \in Seq(Tokens)
    BY <2>2
  <2> QED
    BY <1>7, <2>1, <2>3
<1> QED
  BY <1>5, <1>6, <1>7 DEF Emit

\* Either way a change of the two tokens is counted.
LEMMA EmitPairCount ==
    ASSUME NEW n \in Nodes, NEW t \in Tokens, NEW u \in Tokens,
           ring \in [Nodes -> Seq(Tokens)], lost \in Nat, altered \in Nat,
           Emit(n, <<t, u>>)
    PROVE  \E us \in Seq(Tokens) :
            /\ ring' = [ring EXCEPT ![Peer(n)] = @ \o us]
            /\ (us = <<t, u>> /\ lost' = lost) \/ lost' = lost + 1
<1>1. PICK us \in Seq(Tokens) :
        /\ ring' = [ring EXCEPT ![Peer(n)] = @ \o us]
        /\ (us = <<t, u>> /\ lost' = lost) \/ lost' = lost + 1
        /\ (us \in PairOf(t, u) /\ altered' = altered) \/ altered' = altered + 1
  BY EmitPair, Zenon
<1> QED
  BY <1>1, Zenon

\* No checksum field becomes another one when none has at the end of the step.
LEMMA EmitPairTrue ==
    ASSUME NEW n \in Nodes, NEW t \in Tokens, NEW u \in Tokens,
           ring \in [Nodes -> Seq(Tokens)], lost \in Nat, altered \in Nat,
           Emit(n, <<t, u>>), altered' = 0
    PROVE  \E us \in PairOf(t, u) :
            us \in Seq(Tokens) /\ ring' = [ring EXCEPT ![Peer(n)] = @ \o us]
<1>1. altered' # altered + 1
  OBVIOUS
<1> QED
  BY <1>1, EmitPair, Zenon

\* The same of one token.
LEMMA EmitOne ==
    ASSUME NEW n \in Nodes, NEW t \in Tokens,
           ring \in [Nodes -> Seq(Tokens)], lost \in Nat, t.kind # "CHECKSUM",
           Emit(n, <<t>>)
    PROVE  \E us \in {<<t>>, <<>>, <<Damaged>>} :
            /\ us \in Seq(Tokens)
            /\ ring' = [ring EXCEPT ![Peer(n)] = @ \o us]
            /\ (us = <<t>> /\ lost' = lost) \/ lost' = lost + 1
            /\ altered' = altered
<1>1. \A us \in {<<t>>, <<>>, <<Damaged>>} : us \in Seq(Tokens)
  <2>1. Damaged \in Tokens
    BY TokenFacts
  <2>2. <<t>> \in Seq(Tokens) /\ <<>> \in Seq(Tokens)
    OBVIOUS
  <2>3. <<Damaged>> \in Seq(Tokens)
    BY <2>1
  <2> QED
    BY <2>2, <2>3
<1>2. Without(<<t>>, 1) = <<>>
  BY DEF Without
<1>3. [<<t>> EXCEPT ![1] = Damaged] = <<Damaged>>
  OBVIOUS
<1>4. DOMAIN <<t>> = {1} /\ <<t>>[1] = t
  OBVIOUS
<1> QED
  BY <1>1, <1>2, <1>3, <1>4 DEF Emit

-----------------------------------------------------------------------------
(* Types and control are kept.                                             *)
RpcBase == RpcTypes /\ RpcControl

\* What each part of a node writes are tokens.
LEMMA Written ==
    ASSUME RpcBase, NEW n \in Nodes
    PROVE  /\ Packet(Len(fields[n])) \in Tokens
           /\ Checksum(ack_payload[n]) \in Tokens
           /\ work[n] # "decode" => rx_packet[n][2] \in Tokens
<1>1. work[n] # "decode" => Len(rx_packet[n]) = 2
  BY DEF RpcBase, RpcControl, ControlOK, FrameValid
<1>2. rx_packet[n] \in Seq(Tokens) /\ fields[n] \in Seq(Nat) /\ ack_payload[n] \in Nat
  BY DEF RpcBase, RpcTypes
<1> QED
  BY <1>1, <1>2, TokenFacts

\* The frame that a node decodes, and what is left.
LEMMA DecodeParts ==
    ASSUME NEW r \in Seq(Tokens), NEW k \in DOMAIN r
    PROVE  /\ k \in 1 .. Len(r)
           /\ SubSeq(r, 1, k - 1) \in Seq(Tokens) /\ Len(SubSeq(r, 1, k - 1)) = k - 1
           /\ \A i \in 1 .. k - 1 : SubSeq(r, 1, k - 1)[i] = r[i]
           /\ SubSeq(r, k + 1, Len(r)) \in Seq(Tokens)
           /\ Len(SubSeq(r, k + 1, Len(r))) = Len(r) - k
           /\ \A i \in 1 .. Len(r) - k : SubSeq(r, k + 1, Len(r))[i] = r[k + i]
  OBVIOUS


\* The initial states have the types.
LEMMA BaseInit == RpcInit => RpcBase
<1> SUFFICES ASSUME RpcInit PROVE RpcBase
  OBVIOUS
<1>1. RpcTypes
  BY RpcUartAssumption DEF RpcInit, RpcTypes
<1>2. RpcControl
  BY RpcUartAssumption DEF RpcInit, RpcControl, ControlOK
<1> QED
  BY <1>1, <1>2 DEF RpcBase

\* Every step keeps the types.
LEMMA TypesStep == RpcBase /\ [RpcNext]_rpcVars => RpcTypes'
<1> SUFFICES ASSUME RpcBase, [RpcNext]_rpcVars
             PROVE  RpcTypes'
  OBVIOUS
<1>t. RpcTypes /\ RpcControl
  BY DEF RpcBase
<1>r. ring \in [Nodes -> Seq(Tokens)] /\ lost \in Nat /\ altered \in Nat /\ late \in Nat
      /\ rx_packet \in [Nodes -> Seq(Tokens)]
  BY <1>t DEF RpcTypes
<1>s. send \in [Nodes -> [pc : {"idle", "attempt", "close", "wait"},
                          attempts : 0 .. TxAttempts]]
  BY <1>t DEF RpcTypes
<1>f. fields \in [Nodes -> Seq(Nat)] /\ tx_flip \in [Nodes -> {0, 1}]
      /\ ack_payload \in [Nodes -> Nat]
  BY <1>t DEF RpcTypes
<1>d. delivered \in [Nodes -> Seq(Nat)]
      /\ results \in [Nodes -> Seq({"acked", "failed", "cut"})]
  BY <1>t DEF RpcTypes
<1>w. work \in [Nodes -> {"decode", "ack", "ack_close", "deliver"}]
      /\ ack_tx_lock \in [Nodes -> {"none", "send", "work"}]
      /\ ack_sem \in [Nodes -> {0, 1}]
  BY <1>t DEF RpcTypes
<1>l. last_rx_crc \in [Nodes -> Nat] /\ rx_flip_any \in [Nodes -> BOOLEAN]
      /\ restarts \in [Nodes -> Nat]
  BY <1>t DEF RpcTypes
<1>x. ASSUME NEW n \in Nodes, NEW us \in Seq(Tokens),
             ring' = [ring EXCEPT ![Peer(n)] = @ \o us],
             lost' \in {lost, lost + 1}, altered' \in {altered, altered + 1}
      PROVE  ring' \in [Nodes -> Seq(Tokens)] /\ lost' \in Nat /\ altered' \in Nat
  <2>1. Peer(n) \in Nodes
    BY PeerFacts
  <2>2. ring[Peer(n)] \o us \in Seq(Tokens)
    BY <2>1, <1>r
  <2> QED
    BY <2>1, <2>2, <1>r, <1>x
<1>0. CASE UNCHANGED rpcVars
  BY <1>0, <1>t DEF RpcTypes, rpcVars, sendVars, rxVars
<1>1. ASSUME NEW n \in Nodes, SendBegins(n) PROVE RpcTypes'
  <2>0. Len(fields[n]) + 1 \in 1 .. MaxSends[n]
    <3>1. Len(fields[n]) \in Nat /\ MaxSends[n] \in Nat
      BY <1>f, RpcUartAssumption
    <3>2. Len(fields[n]) < MaxSends[n]
      BY <1>1 DEF SendBegins
    <3> QED
      BY <3>1, <3>2
  <2>1. Crc(n, Len(fields[n]) + 1) \in Nat
    BY <2>0, RpcUartAssumption, Zenon
  <2> DEFINE crc == Crc(n, Len(fields[n]) + 1)
             v == Field(crc, tx_flip[n])
  <2>2. v \in Nat
    <3>1. tx_flip[n] \in {0, 1} /\ crc \in Nat
      BY <1>f, <2>1
    <3> QED
      BY <3>1 DEF Field
  <2>3. /\ ack_payload' = [ack_payload EXCEPT ![n] = v]
        /\ fields' = [fields EXCEPT ![n] = Append(@, v)]
        /\ tx_flip' = [tx_flip EXCEPT ![n] = 1 - @]
        /\ send' = [send EXCEPT ![n] = [pc |-> "attempt", attempts |-> 0]]
    BY <1>1 DEF SendBegins, TxFlip
  <2> HIDE DEF v
  <2>4. ack_payload' \in [Nodes -> Nat] /\ fields' \in [Nodes -> Seq(Nat)]
        /\ tx_flip' \in [Nodes -> {0, 1}]
    <3>1. Append(fields[n], v) \in Seq(Nat) /\ 1 - tx_flip[n] \in {0, 1}
      BY <2>2, <1>f, SMTT(60)
    <3>2. fields' \in [Nodes -> Seq(Nat)]
      BY <3>1, <2>3, <1>f
    <3>3. ack_payload' \in [Nodes -> Nat]
      BY <2>2, <2>3, <1>f
    <3>4. tx_flip' \in [Nodes -> {0, 1}]
      BY <3>1, <2>3, <1>f
    <3> QED
      BY <3>2, <3>3, <3>4
  <2>5. send' \in [Nodes -> [pc : {"idle", "attempt", "close", "wait"},
                             attempts : 0 .. TxAttempts]]
    BY <2>3, <1>s, RpcUartAssumption
  <2> QED
    BY <1>1, <2>4, <2>5, <1>t DEF SendBegins, RpcTypes, rxVars
<1>2. ASSUME NEW n \in Nodes, SendAttempt(n) PROVE RpcTypes'
  <2>1. send' \in [Nodes -> [pc : {"idle", "attempt", "close", "wait"},
                             attempts : 0 .. TxAttempts]]
    <3>1. send[n].attempts < TxAttempts
      BY <1>2, <1>t DEF SendAttempt, SendAt, RpcControl, ControlOK
    <3>2. send[n].attempts + 1 \in 0 .. TxAttempts
      BY <3>1, <1>s, RpcUartAssumption
    <3>3. send' = [send EXCEPT ![n] = [pc |-> "close", attempts |-> send[n].attempts + 1]]
      BY <1>2 DEF SendAttempt
    <3> QED
      BY <3>2, <3>3, <1>s
  <2>2. PICK us : us \in Seq(Tokens) /\ ring' = [ring EXCEPT ![Peer(n)] = @ \o us]
                  /\ lost' \in {lost, lost + 1} /\ altered' \in {altered, altered + 1}
    BY <1>2, <1>r, EmitPair, Written, TokenFacts DEF SendAttempt
  <2>3. ring' \in [Nodes -> Seq(Tokens)] /\ lost' \in Nat /\ altered' \in Nat
    BY <2>2, <1>x
  <2> QED
    BY <1>2, <2>1, <2>3, <1>t DEF SendAttempt, RpcTypes, rxVars
<1>3. ASSUME NEW n \in Nodes, SendClose(n) PROVE RpcTypes'
  <2>2. PICK us : us \in Seq(Tokens) /\ ring' = [ring EXCEPT ![Peer(n)] = @ \o us]
                  /\ lost' \in {lost, lost + 1} /\ altered' \in {altered, altered + 1}
    BY <1>3, <1>r, EmitPair, Written, TokenFacts DEF SendClose
  <2>3. ring' \in [Nodes -> Seq(Tokens)] /\ lost' \in Nat /\ altered' \in Nat
    BY <2>2, <1>x
  <2>4. send' \in [Nodes -> [pc : {"idle", "attempt", "close", "wait"},
                             attempts : 0 .. TxAttempts]]
    BY <1>3, <1>s DEF SendClose, SendGoto
  <2> QED
    BY <1>3, <2>3, <2>4, <1>t DEF SendClose, RpcTypes, rxVars
<1>4. ASSUME NEW n \in Nodes, SendAcked(n) PROVE RpcTypes'
  <2>1. send' \in [Nodes -> [pc : {"idle", "attempt", "close", "wait"},
                             attempts : 0 .. TxAttempts]]
    BY <1>4, <1>s, RpcUartAssumption DEF SendAcked, SendReturns
  <2>2. results' \in [Nodes -> Seq({"acked", "failed", "cut"})]
    BY <1>4, <1>d DEF SendAcked, SendReturns
  <2> QED
    BY <1>4, <2>1, <2>2, <1>t DEF SendAcked, RpcTypes, rxVars
<1>5. ASSUME NEW n \in Nodes, SendTimesOut(n) PROVE RpcTypes'
  <2>1. late' \in Nat
    BY <1>5, <1>r DEF SendTimesOut
  <2>2. \/ send' = [send EXCEPT ![n].pc = "attempt"] /\ results' = results
        \/ /\ send' = [send EXCEPT ![n] = [pc |-> "idle", attempts |-> 0]]
           /\ results' = [results EXCEPT ![n] = Append(@, "failed")]
    BY <1>5 DEF SendTimesOut, SendGoto, SendReturns
  <2>3. send' \in [Nodes -> [pc : {"idle", "attempt", "close", "wait"},
                             attempts : 0 .. TxAttempts]]
    BY <2>2, <1>s, RpcUartAssumption
  <2>4. results' \in [Nodes -> Seq({"acked", "failed", "cut"})]
    <3>1. results[n] \in Seq({"acked", "failed", "cut"})
      BY <1>d
    <3>2. Append(results[n], "failed") \in Seq({"acked", "failed", "cut"})
      BY <3>1
    <3>3. CASE results' = results
      BY <3>3, <1>d
    <3>4. CASE results' = [results EXCEPT ![n] = Append(@, "failed")]
      BY <3>2, <3>4, <1>d
    <3> QED
      BY <2>2, <3>3, <3>4
  <2> QED
    BY <1>5, <2>1, <2>3, <2>4, <1>t DEF SendTimesOut, RpcTypes, rxVars
<1>6. ASSUME NEW n \in Nodes, Decode(n) PROVE RpcTypes'
  <2>1. PICK k \in DOMAIN ring[n] :
            /\ ring' = [ring EXCEPT ![n] = SubSeq(@, k + 1, Len(@))]
            /\ ack_sem' = [ack_sem EXCEPT ![n] =
                    IF IsAck(n, SubSeq(ring[n], 1, k - 1)) THEN 1 ELSE @]
            /\ \/ /\ work' = [work EXCEPT ![n] = "ack"]
                  /\ rx_packet' = [rx_packet EXCEPT ![n] = SubSeq(ring[n], 1, k - 1)]
               \/ UNCHANGED <<work, rx_packet>>
    BY <1>6 DEF Decode, WorkGoto
  <2>2. ring[n] \in Seq(Tokens)
    BY <1>r
  <2>3. SubSeq(ring[n], 1, k - 1) \in Seq(Tokens)
        /\ SubSeq(ring[n], k + 1, Len(ring[n])) \in Seq(Tokens)
    BY <2>2, DecodeParts
  <2>4. ring' \in [Nodes -> Seq(Tokens)] /\ rx_packet' \in [Nodes -> Seq(Tokens)]
    BY <2>1, <2>3, <1>r
  <2>5. work' \in [Nodes -> {"decode", "ack", "ack_close", "deliver"}]
        /\ ack_sem' \in [Nodes -> {0, 1}]
    BY <2>1, <1>w
  <2> QED
    BY <1>6, <2>4, <2>5, <1>t DEF Decode, RpcTypes, sendVars
<1>7. ASSUME NEW n \in Nodes, AckOpen(n) PROVE RpcTypes'
  <2>1. work[n] # "decode"
    BY <1>7 DEF AckOpen, WorkAt
  <2>2. PICK us : us \in Seq(Tokens) /\ ring' = [ring EXCEPT ![Peer(n)] = @ \o us]
                  /\ lost' \in {lost, lost + 1} /\ altered' \in {altered, altered + 1}
    BY <1>7, <1>r, <2>1, EmitPair, Written, TokenFacts DEF AckOpen
  <2>3. ring' \in [Nodes -> Seq(Tokens)] /\ lost' \in Nat /\ altered' \in Nat
    BY <2>2, <1>x
  <2> QED
    BY <1>7, <2>3, <1>t DEF AckOpen, WorkGoto, RpcTypes, rxVars, sendVars
<1>8. ASSUME NEW n \in Nodes, AckClose(n) PROVE RpcTypes'
  <2>2. PICK us : us \in Seq(Tokens) /\ ring' = [ring EXCEPT ![Peer(n)] = @ \o us]
                  /\ lost' \in {lost, lost + 1} /\ altered' \in {altered, altered + 1}
    BY <1>8, <1>r, EmitOne, TokenFacts DEF AckClose
  <2>3. ring' \in [Nodes -> Seq(Tokens)] /\ lost' \in Nat /\ altered' \in Nat
    BY <2>2, <1>x
  <2> QED
    BY <1>8, <2>3, <1>t DEF AckClose, WorkGoto, RpcTypes, rxVars, sendVars
<1>9. ASSUME NEW n \in Nodes, Deliver(n) PROVE RpcTypes'
  <2>1. Len(rx_packet[n]) = 2 /\ rx_packet[n] \in Seq(Tokens)
    BY <1>9, <1>r, <1>t DEF Deliver, WorkAt, RpcControl, ControlOK, FrameValid
  <2>2. rx_packet[n][1] \in Tokens /\ rx_packet[n][2] \in Tokens
    BY <2>1
  <2>3. rx_packet[n][1].val \in Nat /\ rx_packet[n][2].val \in Nat
    BY <2>2 DEF Tokens
  <2>4. delivered' \in [Nodes -> Seq(Nat)]
    <3>1. delivered' = delivered \/ delivered' = [delivered EXCEPT ![Peer(n)] =
                                        Append(@, rx_packet[n][1].val)]
      BY <1>9 DEF Deliver
    <3>2. Peer(n) \in Nodes
      BY PeerFacts
    <3>3. Append(delivered[Peer(n)], rx_packet[n][1].val) \in Seq(Nat)
      BY <2>3, <3>2, <1>d
    <3> QED
      BY <3>1, <3>2, <3>3, <1>d
  <2>5. last_rx_crc' \in [Nodes -> Nat] /\ rx_flip_any' \in [Nodes -> BOOLEAN]
    BY <1>9, <2>3, <1>l DEF Deliver
  <2>6. rx_packet' \in [Nodes -> Seq(Tokens)]
        /\ work' \in [Nodes -> {"decode", "ack", "ack_close", "deliver"}]
    BY <1>9, <1>r, <1>w DEF Deliver, WorkGoto
  <2> QED
    BY <1>9, <2>4, <2>5, <2>6, <1>t DEF Deliver, RpcTypes, sendVars
<1>10. ASSUME NEW n \in Nodes, Restart(n) PROVE RpcTypes'
  <2>1. send' \in [Nodes -> [pc : {"idle", "attempt", "close", "wait"},
                             attempts : 0 .. TxAttempts]]
    BY <1>10, <1>s, RpcUartAssumption DEF Restart
  <2>2. results' \in [Nodes -> Seq({"acked", "failed", "cut"})]
    BY <1>10, <1>d DEF Restart
  <2>3. tx_flip' \in [Nodes -> {0, 1}] /\ ack_payload' \in [Nodes -> Nat]
    BY <1>10, <1>f DEF Restart
  <2>4. /\ ack_sem' \in [Nodes -> {0, 1}]
        /\ ack_tx_lock' \in [Nodes -> {"none", "send", "work"}]
        /\ work' \in [Nodes -> {"decode", "ack", "ack_close", "deliver"}]
    BY <1>10, <1>w DEF Restart
  <2>5. ring' \in [Nodes -> Seq(Tokens)] /\ rx_packet' \in [Nodes -> Seq(Tokens)]
    BY <1>10, <1>r DEF Restart
  <2>6. last_rx_crc' \in [Nodes -> Nat] /\ rx_flip_any' \in [Nodes -> BOOLEAN]
        /\ restarts' \in [Nodes -> Nat]
    BY <1>10, <1>l DEF Restart
  <2> QED
    BY <1>10, <2>1, <2>2, <2>3, <2>4, <2>5, <2>6, <1>t DEF Restart, RpcTypes
<1> QED
  BY <1>0, <1>1, <1>2, <1>3, <1>4, <1>5, <1>6, <1>7, <1>8, <1>9, <1>10
     DEF RpcNext, SendStep, WorkStep

\* The parts of a checksum field.
LEMMA FieldCrc ==
    ASSUME NEW crc \in Nat, NEW flip \in {0, 1}
    PROVE  /\ CrcOf(Field(crc, flip)) = crc
           /\ Field(crc, flip) % 2 = flip
  BY DEF CrcOf, Field

\* Every step keeps the control facts.
LEMMA ControlStep == RpcBase /\ [RpcNext]_rpcVars => RpcControl'
<1> SUFFICES ASSUME RpcBase, [RpcNext]_rpcVars, NEW k \in Nodes
             PROVE  ControlOK(k, send[k].pc, send[k].attempts, ack_tx_lock[k], work[k],
                              fields[k], results[k], ack_payload[k], rx_packet[k])'
  BY DEF RpcControl
<1> DEFINE Goal == ControlOK(k, send[k].pc, send[k].attempts, ack_tx_lock[k], work[k],
                             fields[k], results[k], ack_payload[k], rx_packet[k])
<1>c. Goal
  BY DEF RpcBase, RpcControl
<1>s. send \in [Nodes -> [pc : {"idle", "attempt", "close", "wait"},
                          attempts : 0 .. TxAttempts]]
  BY DEF RpcBase, RpcTypes
<1>f. fields \in [Nodes -> Seq(Nat)] /\ ack_payload \in [Nodes -> Nat]
      /\ results \in [Nodes -> Seq({"acked", "failed", "cut"})]
  BY DEF RpcBase, RpcTypes
<1>w. work \in [Nodes -> {"decode", "ack", "ack_close", "deliver"}]
      /\ ack_tx_lock \in [Nodes -> {"none", "send", "work"}]
      /\ rx_packet \in [Nodes -> Seq(Tokens)]
  BY DEF RpcBase, RpcTypes
<1>fk. fields[k] \in Seq(Nat) /\ results[k] \in Seq({"acked", "failed", "cut"})
  BY <1>f
<1> SUFFICES Goal'
  OBVIOUS
<1>same. ASSUME send'[k] = send[k], ack_tx_lock'[k] = ack_tx_lock[k], work'[k] = work[k],
                fields'[k] = fields[k], results'[k] = results[k],
                ack_payload'[k] = ack_payload[k], rx_packet'[k] = rx_packet[k]
         PROVE  Goal'
  BY <1>same, <1>c
<1>0. CASE UNCHANGED rpcVars
  BY <1>0, <1>same DEF rpcVars, sendVars, rxVars
<1>1. ASSUME NEW n \in Nodes, SendBegins(n) PROVE Goal'
  <2>0. CASE k # n
    BY <1>1, <2>0, <1>same, <1>s, <1>f DEF SendBegins, rxVars
  <2>1. CASE k = n
    <3> DEFINE v == Field(Crc(k, Len(fields[k]) + 1), tx_flip[k])
    <3>1. /\ ack_payload'[k] = v
          /\ fields'[k] = Append(fields[k], v)
          /\ send'[k] = [pc |-> "attempt", attempts |-> 0]
      BY <1>1, <2>1, <1>f, <1>s DEF SendBegins
    <3>0. CrcOf(v) = Crc(k, Len(fields[k]) + 1)
      <4>1. Len(fields[k]) + 1 \in 1 .. MaxSends[k]
        <5>1. Len(fields[k]) \in Nat /\ MaxSends[k] \in Nat
          BY <1>fk, RpcUartAssumption
        <5>2. Len(fields[k]) < MaxSends[k]
          BY <1>1, <2>1 DEF SendBegins
        <5> QED
          BY <5>1, <5>2
      <4>2. Crc(k, Len(fields[k]) + 1) \in Nat
        BY <4>1, RpcUartAssumption, Zenon
      <4>3. tx_flip[k] \in {0, 1}
        BY DEF RpcBase, RpcTypes
      <4> QED
        BY <4>2, <4>3, FieldCrc
    <3> HIDE DEF v
    <3>2. /\ send[k].pc = "idle" /\ Len(fields[k]) < MaxSends[k]
          /\ ack_tx_lock'[k] = ack_tx_lock[k] /\ work'[k] = work[k]
          /\ results'[k] = results[k] /\ rx_packet'[k] = rx_packet[k]
      BY <1>1, <2>1 DEF SendBegins, SendAt, rxVars
    <3>3. Len(Append(fields[k], v)) = Len(fields[k]) + 1
          /\ Append(fields[k], v)[Len(fields[k]) + 1] = v
      BY <1>fk
    <3>4. Len(fields[k]) \in Nat /\ MaxSends[k] \in Nat /\ 0 < TxAttempts
      BY <1>fk, RpcUartAssumption
    <3>5. \A p \in 1 .. Len(fields[k]) + 1 :
            CrcOf(Append(fields[k], v)[p]) = Crc(k, p)
      <4>1. TAKE p \in 1 .. Len(fields[k]) + 1
      <4>2. CASE p = Len(fields[k]) + 1
        BY <4>2, <3>0, <3>3
      <4>3. CASE p # Len(fields[k]) + 1
        <5>1. p \in 1 .. Len(fields[k])
          BY <3>4, <4>3
        <5>2. Append(fields[k], v)[p] = fields[k][p]
          BY <1>fk, <5>1
        <5> QED
          BY <5>1, <5>2, <1>c DEF ControlOK
      <4> QED
        BY <4>2, <4>3
    <3> QED
      BY <1>c, <3>1, <3>2, <3>3, <3>4, <3>5 DEF ControlOK
  <2> QED
    BY <2>0, <2>1
<1>2. ASSUME NEW n \in Nodes, SendAttempt(n) PROVE Goal'
  <2>0. CASE k # n
    BY <1>2, <2>0, <1>same, <1>s, <1>w DEF SendAttempt, rxVars
  <2>1. CASE k = n
    <3>1. /\ send'[k].pc = "close" /\ ack_tx_lock'[k] = "send"
          /\ send[k].pc = "attempt" /\ ack_tx_lock[k] = "none"
      BY <1>2, <2>1, <1>w, <1>s DEF SendAttempt, SendAt
    <3>2. /\ work'[k] = work[k] /\ fields'[k] = fields[k]
          /\ results'[k] = results[k] /\ rx_packet'[k] = rx_packet[k]
          /\ ack_payload'[k] = ack_payload[k]
      BY <1>2 DEF SendAttempt, rxVars
    <3> QED
      BY <1>c, <3>1, <3>2 DEF ControlOK
  <2> QED
    BY <2>0, <2>1
<1>3. ASSUME NEW n \in Nodes, SendClose(n) PROVE Goal'
  <2>0. CASE k # n
    BY <1>3, <2>0, <1>same, <1>s, <1>w DEF SendClose, SendGoto, rxVars
  <2>1. CASE k = n
    <3>1. /\ send'[k].pc = "wait" /\ ack_tx_lock'[k] = "none"
          /\ send[k].pc = "close"
      BY <1>3, <2>1, <1>w, <1>s DEF SendClose, SendGoto, SendAt
    <3>2. /\ work'[k] = work[k] /\ fields'[k] = fields[k]
          /\ results'[k] = results[k] /\ rx_packet'[k] = rx_packet[k]
          /\ ack_payload'[k] = ack_payload[k]
      BY <1>3 DEF SendClose, rxVars
    <3> QED
      BY <1>c, <3>1, <3>2 DEF ControlOK
  <2> QED
    BY <2>0, <2>1
<1>4. ASSUME NEW n \in Nodes, SendAcked(n) PROVE Goal'
  <2>0. CASE k # n
    BY <1>4, <2>0, <1>same, <1>s, <1>f DEF SendAcked, SendReturns, rxVars
  <2>1. CASE k = n
    <3>1. /\ send'[k].pc = "idle" /\ results'[k] = Append(results[k], "acked")
          /\ send[k].pc = "wait"
      BY <1>4, <2>1, <1>f, <1>s DEF SendAcked, SendReturns, SendAt
    <3>2. /\ work'[k] = work[k] /\ fields'[k] = fields[k]
          /\ ack_tx_lock'[k] = ack_tx_lock[k] /\ rx_packet'[k] = rx_packet[k]
          /\ ack_payload'[k] = ack_payload[k]
      BY <1>4 DEF SendAcked, rxVars
    <3>3. Len(results'[k]) = Len(results[k]) + 1
      BY <3>1, <1>fk
    <3> QED
      BY <1>c, <3>1, <3>2, <3>3 DEF ControlOK
  <2> QED
    BY <2>0, <2>1
<1>5. ASSUME NEW n \in Nodes, SendTimesOut(n) PROVE Goal'
  <2>0. /\ ack_tx_lock' = ack_tx_lock /\ work' = work /\ fields' = fields
        /\ ack_payload' = ack_payload /\ rx_packet' = rx_packet
    BY <1>5 DEF SendTimesOut, rxVars
  <2>1. \/ /\ send' = [send EXCEPT ![n].pc = "attempt"] /\ results' = results
           /\ send[n].attempts < TxAttempts
        \/ /\ send' = [send EXCEPT ![n] = [pc |-> "idle", attempts |-> 0]]
           /\ results' = [results EXCEPT ![n] = Append(@, "failed")]
    BY <1>5 DEF SendTimesOut, SendGoto, SendReturns
  <2>2. CASE k # n
    <3>1. send'[k] = send[k] /\ results'[k] = results[k]
      BY <2>1, <2>2, <1>s, <1>f
    <3> QED
      BY <2>0, <3>1, <1>same
  <2>3. CASE k = n
    <3>0. send[k].pc = "wait"
      BY <1>5, <2>3 DEF SendTimesOut, SendAt
    <3>1. \/ /\ send'[k].pc = "attempt" /\ send'[k].attempts = send[k].attempts
             /\ results'[k] = results[k] /\ send[k].attempts < TxAttempts
          \/ /\ send'[k].pc = "idle" /\ Len(results'[k]) = Len(results[k]) + 1
      BY <2>1, <2>3, <1>s, <1>f, <1>fk
    <3> QED
      BY <1>c, <2>0, <3>0, <3>1 DEF ControlOK
  <2> QED
    BY <2>2, <2>3
<1>6. ASSUME NEW n \in Nodes, Decode(n) PROVE Goal'
  <2>0. /\ send' = send /\ ack_tx_lock' = ack_tx_lock /\ fields' = fields
        /\ results' = results /\ ack_payload' = ack_payload
    BY <1>6 DEF Decode, sendVars
  <2>1. \/ UNCHANGED <<work, rx_packet>>
        \/ \E x : /\ FrameValid(n, x)
                  /\ work' = [work EXCEPT ![n] = "ack"]
                  /\ rx_packet' = [rx_packet EXCEPT ![n] = x]
    BY <1>6 DEF Decode, WorkGoto
  <2>2. work[n] = "decode"
    BY <1>6 DEF Decode, WorkAt
  <2>3. \/ work'[k] = work[k] /\ rx_packet'[k] = rx_packet[k]
        \/ work[k] = "decode" /\ work'[k] = "ack" /\ FrameValid(k, rx_packet'[k])
    BY <2>1, <2>2, <1>w
  <2> QED
    BY <1>c, <2>0, <2>3 DEF ControlOK
<1>7. ASSUME NEW n \in Nodes, AckOpen(n) PROVE Goal'
  <2>0. /\ send' = send /\ fields' = fields /\ rx_packet' = rx_packet
        /\ results' = results /\ ack_payload' = ack_payload
    BY <1>7 DEF AckOpen, sendVars, rxVars
  <2>1. \/ work'[k] = work[k] /\ ack_tx_lock'[k] = ack_tx_lock[k]
        \/ /\ work[k] = "ack" /\ work'[k] = "ack_close"
           /\ ack_tx_lock[k] = "none" /\ ack_tx_lock'[k] = "work"
    BY <1>7, <1>w DEF AckOpen, WorkAt, WorkGoto
  <2> QED
    BY <1>c, <2>0, <2>1 DEF ControlOK
<1>8. ASSUME NEW n \in Nodes, AckClose(n) PROVE Goal'
  <2>0. /\ send' = send /\ fields' = fields /\ rx_packet' = rx_packet
        /\ results' = results /\ ack_payload' = ack_payload
    BY <1>8 DEF AckClose, sendVars, rxVars
  <2>1. \/ work'[k] = work[k] /\ ack_tx_lock'[k] = ack_tx_lock[k]
        \/ /\ work[k] = "ack_close" /\ work'[k] = "deliver"
           /\ ack_tx_lock'[k] = "none"
    BY <1>8, <1>w DEF AckClose, WorkAt, WorkGoto
  <2> QED
    BY <1>c, <2>0, <2>1 DEF ControlOK
<1>9. ASSUME NEW n \in Nodes, Deliver(n) PROVE Goal'
  <2>0. /\ send' = send /\ fields' = fields /\ ack_tx_lock' = ack_tx_lock
        /\ results' = results /\ ack_payload' = ack_payload
    BY <1>9 DEF Deliver, sendVars
  <2>1. \/ work'[k] = work[k] /\ rx_packet'[k] = rx_packet[k]
        \/ work[k] = "deliver" /\ work'[k] = "decode"
    BY <1>9, <1>w DEF Deliver, WorkAt, WorkGoto
  <2> QED
    BY <1>c, <2>0, <2>1 DEF ControlOK
<1>10. ASSUME NEW n \in Nodes, Restart(n) PROVE Goal'
  <2>0. fields' = fields
    BY <1>10 DEF Restart
  <2>1. CASE k # n
    <3>1. send'[k] = send[k] /\ results'[k] = results[k]
          /\ ack_payload'[k] = ack_payload[k]
      BY <1>10, <2>1, <1>s, <1>f DEF Restart
    <3>2. work'[k] = work[k] /\ ack_tx_lock'[k] = ack_tx_lock[k]
          /\ rx_packet'[k] = rx_packet[k]
      BY <1>10, <2>1, <1>w DEF Restart
    <3> QED
      BY <2>0, <3>1, <3>2, <1>same
  <2>2. CASE k = n
    <3>1. send'[k].pc = "idle" /\ work'[k] = "decode" /\ ack_tx_lock'[k] = "none"
      BY <1>10, <2>2, <1>s, <1>w DEF Restart
    <3>2. results'[k] = IF send[k].pc = "idle" THEN results[k]
                        ELSE Append(results[k], "cut")
      BY <1>10, <2>2, <1>f DEF Restart, SendAt
    <3>3. Len(Append(results[k], "cut")) = Len(results[k]) + 1
      BY <1>fk
    <3> QED
      BY <1>c, <2>0, <3>1, <3>2, <3>3 DEF ControlOK
  <2> QED
    BY <2>1, <2>2
<1> QED
  BY <1>0, <1>1, <1>2, <1>3, <1>4, <1>5, <1>6, <1>7, <1>8, <1>9, <1>10
     DEF RpcNext, SendStep, WorkStep

\* The safety half of LockingSound: the variables have their types, and whoever
\* is in the middle of a frame holds ack_tx_lock.
THEOREM RpcTypeCorrect == RpcSpec => []RpcTypeOK
<1>1. RpcInit => RpcBase
  BY BaseInit
<1>2. RpcBase /\ [RpcNext]_rpcVars => RpcBase'
  BY TypesStep, ControlStep DEF RpcBase
<1>3. RpcBase => RpcTypeOK
  <2> SUFFICES ASSUME RpcBase, NEW n \in Nodes
               PROVE  /\ send[n].pc \in {"idle", "attempt", "close", "wait"}
                      /\ send[n].attempts \in 0 .. TxAttempts
                      /\ tx_flip[n] \in {0, 1} /\ ack_sem[n] \in {0, 1}
                      /\ work[n] \in {"decode", "ack", "ack_close", "deliver"}
                      /\ send[n].pc = "close" <=> ack_tx_lock[n] = "send"
                      /\ work[n] = "ack_close" <=> ack_tx_lock[n] = "work"
    BY DEF RpcTypeOK
  <2>1. send[n].pc \in {"idle", "attempt", "close", "wait"} /\ send[n].attempts \in 0 .. TxAttempts
    BY DEF RpcBase, RpcTypes
  <2>2. /\ tx_flip[n] \in {0, 1} /\ ack_sem[n] \in {0, 1}
        /\ work[n] \in {"decode", "ack", "ack_close", "deliver"}
    BY DEF RpcBase, RpcTypes
  <2>3. /\ send[n].pc = "close" <=> ack_tx_lock[n] = "send"
        /\ work[n] = "ack_close" <=> ack_tx_lock[n] = "work"
    BY DEF RpcBase, RpcControl, ControlOK
  <2> QED
    BY <2>1, <2>2, <2>3
<1> QED
  BY <1>1, <1>2, <1>3, PTL DEF RpcSpec

\* A node that holds its lock can go on, and so can its work queue when that is
\* busy.
LEMMA BusyGoesOn ==
    ASSUME RpcBase, NEW m \in Nodes, work[m] # "decode" \/ ack_tx_lock[m] # "none"
    PROVE  SendReady(m) \/ WorkReady(m)
<1>1. /\ work[m] \in {"decode", "ack", "ack_close", "deliver"}
      /\ ack_tx_lock[m] \in {"none", "send", "work"}
  BY DEF RpcBase, RpcTypes
<1>2. /\ send[m].pc = "close" <=> ack_tx_lock[m] = "send"
      /\ work[m] = "ack_close" <=> ack_tx_lock[m] = "work"
  BY DEF RpcBase, RpcControl, ControlOK
<1> QED
  BY <1>1, <1>2 DEF SendReady, WorkReady, SendAt, WorkAt

\* Deadlock freedom of the locks and the semaphore, for every number of nodes'
\* packets, attempts and losses: a send() that waits for ack_tx_lock finds it
\* free or held by someone who can go on, and one that waits for its
\* acknowledgment has it, or may time out, or there is something to decode, to
\* acknowledge or to hand over.
THEOREM RpcSendGoesOn == RpcSpec => []SendGoesOn
<1>1. RpcInit => RpcBase
  BY BaseInit
<1>2. RpcBase /\ [RpcNext]_rpcVars => RpcBase'
  BY TypesStep, ControlStep DEF RpcBase
<1>3. RpcBase => SendGoesOn
  <2> SUFFICES ASSUME RpcBase, NEW n \in Nodes, send[n].pc # "idle"
               PROVE  \E m \in Nodes : SendReady(m) \/ WorkReady(m)
    BY DEF SendGoesOn
  <2>1. send[n].pc \in {"attempt", "close", "wait"} /\ ack_sem[n] \in {0, 1}
    BY DEF RpcBase, RpcTypes
  <2>2. CASE send[n].pc = "attempt"
    <3>1. ack_tx_lock[n] = "none" => SendReady(n)
      BY <2>2 DEF SendReady, SendAt
    <3> QED
      BY <3>1, BusyGoesOn
  <2>3. CASE send[n].pc = "close"
    BY <2>3 DEF SendReady, SendAt
  <2>4. CASE send[n].pc = "wait" /\ Quiet
    BY <2>4 DEF SendReady, SendAt
  <2>5. CASE send[n].pc = "wait" /\ ~Quiet
    <3>1. PICK m \in Nodes : \/ \E k \in DOMAIN ring[m] : ring[m][k] = Delimiter
                             \/ work[m] # "decode"
                             \/ ack_tx_lock[m] # "none"
      BY <2>5 DEF Quiet
    <3>2. CASE work[m] # "decode" \/ ack_tx_lock[m] # "none"
      BY <3>2, BusyGoesOn
    <3>3. CASE work[m] = "decode" /\ \E k \in DOMAIN ring[m] : ring[m][k] = Delimiter
      BY <3>3 DEF WorkReady, WorkAt
    <3> QED
      BY <3>1, <3>2, <3>3
  <2> QED
    BY <2>1, <2>2, <2>3, <2>4, <2>5
<1> QED
  BY <1>1, <1>2, <1>3, PTL DEF RpcSpec

-----------------------------------------------------------------------------
(* Frames on the line.                                                     *)

\* A frame stays whole when more tokens follow.
LEMMA HoldsAppend ==
    ASSUME NEW r \in Seq(Tokens), NEW us \in Seq(Tokens), NEW t, NEW u
    PROVE  /\ Holds1(r, t) => Holds1(r \o us, t)
           /\ Holds2(r, t, u) => Holds2(r \o us, t, u)
<1>1. /\ Len(r \o us) = Len(r) + Len(us) /\ Len(r) \in Nat /\ Len(us) \in Nat
      /\ \A i \in 1 .. Len(r) : (r \o us)[i] = r[i]
  OBVIOUS
<1>2. ASSUME NEW j \in 0 .. Len(r), Opens(r, j) PROVE Opens(r \o us, j)
  BY <1>1, <1>2 DEF Opens
<1>3. ASSUME Holds1(r, t) PROVE Holds1(r \o us, t)
  <2>1. PICK j \in 0 .. Len(r) - 2 :
            Opens(r, j) /\ r[j + 1] = t /\ r[j + 2] = Delimiter
    BY <1>3 DEF Holds1
  <2>2. Opens(r \o us, j)
    BY <1>1, <1>2, <2>1
  <2>3. (r \o us)[j + 1] = t /\ (r \o us)[j + 2] = Delimiter
        /\ j \in 0 .. Len(r \o us) - 2
    BY <1>1, <2>1
  <2> QED
    BY <2>2, <2>3 DEF Holds1
<1>4. ASSUME Holds2(r, t, u) PROVE Holds2(r \o us, t, u)
  <2>1. PICK j \in 0 .. Len(r) - 3 :
            Opens(r, j) /\ r[j + 1] = t /\ r[j + 2] = u /\ r[j + 3] = Delimiter
    BY <1>4 DEF Holds2
  <2>2. Opens(r \o us, j)
    BY <1>1, <1>2, <2>1
  <2>3. (r \o us)[j + 1] = t /\ (r \o us)[j + 2] = u /\ (r \o us)[j + 3] = Delimiter
        /\ j \in 0 .. Len(r \o us) - 3
    BY <1>1, <2>1
  <2> QED
    BY <2>2, <2>3 DEF Holds2
<1> QED
  BY <1>3, <1>4

\* The place before the last.
LEMMA Before == \A l \in Nat : l >= 1 /\ l # 1 => l - 1 \in 1 .. l
  OBVIOUS

\* A frame is opened, and closed with one token or two.
LEMMA FrameWritten ==
    ASSUME NEW r \in Seq(Tokens), NEW t \in Tokens, NEW u \in Tokens
    PROVE  /\ Ends(r \o <<Delimiter, t>>, t)
           /\ Ends(r, t) => Holds1(r \o <<Delimiter>>, t)
           /\ Ends(r, t) => Holds2(r \o <<u, Delimiter>>, t, u)
<1>1. Delimiter \in Tokens
  BY TokenFacts
<1>2. Ends(r \o <<Delimiter, t>>, t)
  <2> DEFINE s == r \o <<Delimiter, t>>
  <2>1. Len(s) = Len(r) + 2 /\ s[Len(r) + 1] = Delimiter /\ s[Len(r) + 2] = t
        /\ Len(r) \in Nat
    BY <1>1
  <2> HIDE DEF s
  <2> QED
    BY <2>1 DEF Ends, s
<1>3. ASSUME Ends(r, t) PROVE Holds1(r \o <<Delimiter>>, t)
  <2> DEFINE s == r \o <<Delimiter>>
  <2>1. Len(s) = Len(r) + 1 /\ s[Len(r) + 1] = Delimiter /\ Len(r) \in Nat
        /\ \A i \in 1 .. Len(r) : s[i] = r[i]
    BY <1>1
  <2>2. Len(r) >= 1 /\ r[Len(r)] = t /\ (Len(r) = 1 \/ r[Len(r) - 1] = Delimiter)
    BY <1>3 DEF Ends
  <2> HIDE DEF s
  <2>3. Opens(s, Len(r) - 1) /\ s[Len(r)] = t /\ Len(r) - 1 \in 0 .. Len(s) - 2
    <3>1. s[Len(r)] = t /\ Len(r) - 1 \in 0 .. Len(s) - 2
      BY <2>1, <2>2
    <3>2. CASE Len(r) = 1
      BY <3>1, <3>2 DEF Opens
    <3>3. CASE Len(r) # 1
      <4>0. Len(r) \in Nat /\ Len(r) >= 1
        BY <2>1, <2>2, Zenon
      <4>1. Len(r) - 1 \in 1 .. Len(r)
        BY <4>0, <3>3, Before, Zenon
      <4>2. s[Len(r) - 1] = Delimiter
        BY <2>1, <2>2, <3>3, <4>1
      <4> QED
        BY <3>1, <4>2 DEF Opens
    <3> QED
      BY <3>2, <3>3
  <2>4. Holds1(s, t)
    BY <2>1, <2>3 DEF Holds1
  <2> QED
    BY <2>4 DEF s
<1>4. ASSUME Ends(r, t) PROVE Holds2(r \o <<u, Delimiter>>, t, u)
  <2> DEFINE s == r \o <<u, Delimiter>>
  <2>1. Len(s) = Len(r) + 2 /\ s[Len(r) + 1] = u /\ s[Len(r) + 2] = Delimiter
        /\ Len(r) \in Nat /\ \A i \in 1 .. Len(r) : s[i] = r[i]
    BY <1>1
  <2>2. Len(r) >= 1 /\ r[Len(r)] = t /\ (Len(r) = 1 \/ r[Len(r) - 1] = Delimiter)
    BY <1>4 DEF Ends
  <2> HIDE DEF s
  <2>3. Opens(s, Len(r) - 1) /\ s[Len(r)] = t /\ Len(r) - 1 \in 0 .. Len(s) - 3
    <3>1. s[Len(r)] = t /\ Len(r) - 1 \in 0 .. Len(s) - 3
      BY <2>1, <2>2
    <3>2. CASE Len(r) = 1
      BY <3>1, <3>2 DEF Opens
    <3>3. CASE Len(r) # 1
      <4>0. Len(r) \in Nat /\ Len(r) >= 1
        BY <2>1, <2>2, Zenon
      <4>1. Len(r) - 1 \in 1 .. Len(r)
        BY <4>0, <3>3, Before, Zenon
      <4>2. s[Len(r) - 1] = Delimiter
        BY <2>1, <2>2, <3>3, <4>1
      <4> QED
        BY <3>1, <4>2 DEF Opens
    <3> QED
      BY <3>2, <3>3
  <2>4. Holds2(s, t, u)
    BY <2>1, <2>3 DEF Holds2
  <2> QED
    BY <2>4 DEF s
<1> QED
  BY <1>2, <1>3, <1>4

\* Places after the first delimiter.
LEMMA Shift ==
    ASSUME NEW l \in Nat, NEW k \in 1 .. l, NEW j \in k .. l, NEW d \in Nat, j + d <= l,
           d > 0
    PROVE  j - k + d \in 1 .. l - k /\ k + (j - k + d) = j + d
  OBVIOUS

\* The first delimiter of what has been received.
FirstDelimiter(r, k) ==
    /\ r[k] = Delimiter
    /\ \A i \in 1 .. k - 1 : r[i] # Delimiter

\* A frame is decoded, or it is still there, as is one that is being written.
LEMMA HoldsDecode ==
    ASSUME NEW r \in Seq(Tokens), NEW k \in DOMAIN r, FirstDelimiter(r, k),
           NEW t \in Tokens, NEW u \in Tokens, t # Delimiter, u # Delimiter
    PROVE  /\ Ends(r, t) => Ends(SubSeq(r, k + 1, Len(r)), t)
           /\ Holds1(r, t) => \/ SubSeq(r, 1, k - 1) = <<t>>
                              \/ Holds1(SubSeq(r, k + 1, Len(r)), t)
           /\ Holds2(r, t, u) => \/ SubSeq(r, 1, k - 1) = <<t, u>>
                                 \/ Holds2(SubSeq(r, k + 1, Len(r)), t, u)
<1> DEFINE s == SubSeq(r, k + 1, Len(r))
           frame == SubSeq(r, 1, k - 1)
<1>0. /\ k \in 1 .. Len(r)
      /\ frame \in Seq(Tokens) /\ Len(frame) = k - 1
      /\ \A i \in 1 .. k - 1 : frame[i] = r[i]
      /\ Len(s) = Len(r) - k
      /\ \A i \in 1 .. Len(r) - k : s[i] = r[k + i]
  BY DecodeParts, Zenon
<1>00. Len(r) \in Nat
  OBVIOUS
<1>1. /\ k \in 1 .. Len(r) /\ Len(r) \in Nat
      /\ frame \in Seq(Tokens) /\ Len(frame) = k - 1
      /\ \A i \in 1 .. k - 1 : frame[i] = r[i]
      /\ Len(s) = Len(r) - k
      /\ \A i \in 1 .. Len(r) - k : s[i] = r[k + i]
  BY <1>0, <1>00, Zenon
<1>2. r[k] = Delimiter /\ \A i \in 1 .. k - 1 : r[i] # Delimiter
  BY DEF FirstDelimiter
<1> HIDE DEF s, frame
<1>3. ASSUME NEW j \in 1 .. Len(r), r[j] = Delimiter
      PROVE  j - k \in 0 .. Len(s) /\ Opens(s, j - k)
  <2>1. k <= j
    BY <1>1, <1>2, <1>3
  <2>2. j - k = 0 \/ s[j - k] = r[j]
    BY <1>1, <2>1
  <2> QED
    BY <1>1, <1>3, <2>1, <2>2 DEF Opens
<1>4. ASSUME Ends(r, t) PROVE Ends(s, t)
  <2>1. Len(r) >= 1 /\ r[Len(r)] = t /\ (Len(r) = 1 \/ r[Len(r) - 1] = Delimiter)
    BY <1>4 DEF Ends
  <2>2. k # Len(r)
    BY <1>2, <2>1
  <2>3. Len(r) # 1 /\ Len(r) - 1 \in 1 .. Len(r) /\ r[Len(r) - 1] = Delimiter
    BY <1>1, <2>1, <2>2
  <2>4. Len(r) - 1 - k \in 0 .. Len(s) /\ Opens(s, Len(r) - 1 - k)
    BY <1>3, <2>3
  <2>5. Len(s) = Len(r) - k /\ s[Len(r) - k] = t
    BY <1>1, <2>1, <2>2
  <2>6. Len(s) - 1 = Len(r) - 1 - k /\ Len(s) >= 1 /\ Len(s) \in Nat
    BY <1>1, <2>2
  <2>7. Len(s) = 1 \/ s[Len(s) - 1] = Delimiter
    <3>1. Opens(s, Len(s) - 1)
      BY <2>4, <2>6
    <3> QED
      BY <3>1, <2>6 DEF Opens
  <2>8. s[Len(s)] = t
    BY <2>5
  <2> QED
    BY <2>6, <2>7, <2>8 DEF Ends
<1>5. ASSUME Holds1(r, t) PROVE frame = <<t>> \/ Holds1(s, t)
  <2>1. PICK j \in 0 .. Len(r) - 2 :
            Opens(r, j) /\ r[j + 1] = t /\ r[j + 2] = Delimiter
    BY <1>5 DEF Holds1
  <2>2. CASE j = 0
    <3>1. r[1] = t /\ r[2] = Delimiter
      BY <2>1, <2>2
    <3>2. k = 2
      BY <1>1, <1>2, <3>1
    <3>3. Len(frame) = 1 /\ frame[1] = t
      BY <1>1, <3>1, <3>2
    <3>4. Len(<<t>>) = 1 /\ <<t>> \in Seq(Tokens) /\ <<t>>[1] = t
      OBVIOUS
    <3>5. \A i \in 1 .. Len(frame) : frame[i] = <<t>>[i]
      BY <3>3, <3>4
    <3> QED
      BY <1>1, <3>3, <3>4, <3>5, SameSeq, Zenon
  <2>3. CASE j # 0
    <3>1. j \in 1 .. Len(r) /\ r[j] = Delimiter
      BY <1>1, <2>1, <2>3 DEF Opens
    <3>2. j - k \in 0 .. Len(s) /\ Opens(s, j - k)
      BY <1>3, <3>1
    <3>3. s[j - k + 1] = t /\ s[j - k + 2] = Delimiter /\ j - k \in 0 .. Len(s) - 2
      <4>1. j - k + 1 \in 1 .. Len(r) - k /\ j - k + 2 \in 1 .. Len(r) - k
            /\ k + (j - k + 1) = j + 1 /\ k + (j - k + 2) = j + 2
            /\ j - k \in 0 .. Len(s) - 2
        <5>1. Len(r) \in Nat /\ k \in 1 .. Len(r) /\ Len(s) = Len(r) - k
          BY <1>1, Zenon
        <5>2. j \in k .. Len(r) /\ j + 1 <= Len(r) /\ j + 2 <= Len(r)
          BY <5>1, <3>1, <3>2
        <5>3. 1 \in Nat /\ 2 \in Nat /\ 3 \in Nat /\ 1 > 0 /\ 2 > 0 /\ 3 > 0
          OBVIOUS
        <5>4. j - k + 1 \in 1 .. Len(r) - k /\ k + (j - k + 1) = j + 1
          BY <5>1, <5>2, <5>3, Shift, Zenon
        <5>5. j - k + 2 \in 1 .. Len(r) - k /\ k + (j - k + 2) = j + 2
          BY <5>1, <5>2, <5>3, Shift, Zenon
        <5>6. j - k \in 0 .. Len(s) - 2
          BY <5>1, <5>2
        <5> QED
          BY <5>4, <5>5, <5>6
      <4>2. s[j - k + 1] = r[k + (j - k + 1)] /\ s[j - k + 2] = r[k + (j - k + 2)]
        BY <1>1, <4>1, Zenon
      <4> QED
        BY <4>1, <4>2, <2>1
    <3> QED
      BY <3>2, <3>3 DEF Holds1
  <2> QED
    BY <2>2, <2>3
<1>6. ASSUME Holds2(r, t, u) PROVE frame = <<t, u>> \/ Holds2(s, t, u)
  <2>1. PICK j \in 0 .. Len(r) - 3 :
            Opens(r, j) /\ r[j + 1] = t /\ r[j + 2] = u /\ r[j + 3] = Delimiter
    BY <1>6 DEF Holds2
  <2>2. CASE j = 0
    <3>1. r[1] = t /\ r[2] = u /\ r[3] = Delimiter
      BY <2>1, <2>2
    <3>2. k = 3
      BY <1>1, <1>2, <3>1
    <3>3. Len(frame) = 2 /\ frame[1] = t /\ frame[2] = u
      BY <1>1, <3>1, <3>2
    <3>4. Len(<<t, u>>) = 2 /\ <<t, u>> \in Seq(Tokens) /\ <<t, u>>[1] = t
          /\ <<t, u>>[2] = u
      OBVIOUS
    <3>5. \A i \in 1 .. Len(frame) : frame[i] = <<t, u>>[i]
      BY <3>3, <3>4
    <3> QED
      BY <1>1, <3>3, <3>4, <3>5, SameSeq, Zenon
  <2>3. CASE j # 0
    <3>1. j \in 1 .. Len(r) /\ r[j] = Delimiter
      BY <1>1, <2>1, <2>3, SMTT(60) DEF Opens
    <3>2. j - k \in 0 .. Len(s) /\ Opens(s, j - k)
      BY <1>3, <3>1
    <3>3. s[j - k + 1] = t /\ s[j - k + 2] = u /\ s[j - k + 3] = Delimiter
          /\ j - k \in 0 .. Len(s) - 3
      <4>1. j - k + 1 \in 1 .. Len(r) - k /\ j - k + 2 \in 1 .. Len(r) - k
            /\ j - k + 3 \in 1 .. Len(r) - k /\ k + (j - k + 3) = j + 3
            /\ k + (j - k + 1) = j + 1 /\ k + (j - k + 2) = j + 2
            /\ j - k \in 0 .. Len(s) - 3
        <5>1. Len(r) \in Nat /\ k \in 1 .. Len(r) /\ Len(s) = Len(r) - k
          BY <1>1, Zenon
        <5>2. j \in k .. Len(r) /\ j + 1 <= Len(r) /\ j + 2 <= Len(r) /\ j + 3 <= Len(r)
          BY <5>1, <3>1, <3>2
        <5>3. 1 \in Nat /\ 2 \in Nat /\ 3 \in Nat /\ 1 > 0 /\ 2 > 0 /\ 3 > 0
          OBVIOUS
        <5>4. j - k + 1 \in 1 .. Len(r) - k /\ k + (j - k + 1) = j + 1
          BY <5>1, <5>2, <5>3, Shift, Zenon
        <5>5. j - k + 2 \in 1 .. Len(r) - k /\ k + (j - k + 2) = j + 2
          BY <5>1, <5>2, <5>3, Shift, Zenon
        <5>6. j - k + 3 \in 1 .. Len(r) - k /\ k + (j - k + 3) = j + 3
          BY <5>1, <5>2, <5>3, Shift, Zenon
        <5>7. j - k \in 0 .. Len(s) - 3
          BY <5>1, <5>2
        <5> QED
          BY <5>4, <5>5, <5>6, <5>7
      <4>2. s[j - k + 1] = r[k + (j - k + 1)] /\ s[j - k + 2] = r[k + (j - k + 2)]
            /\ s[j - k + 3] = r[k + (j - k + 3)]
        BY <1>1, <4>1, Zenon
      <4> QED
        BY <4>1, <4>2, <2>1
    <3> QED
      BY <3>2, <3>3 DEF Holds2
  <2> QED
    BY <2>2, <2>3
<1> QED
  BY <1>4, <1>5, <1>6 DEF s, frame

-----------------------------------------------------------------------------
(* The attempts of send().                                                 *)

\* Where a frame is that is decoded.
LEMMA DecodeFacts ==
    ASSUME RpcBase, NEW n \in Nodes, Decode(n)
    PROVE  \E k \in DOMAIN ring[n] :
            LET frame == SubSeq(ring[n], 1, k - 1)
            IN  /\ FirstDelimiter(ring[n], k)
                /\ ring' = [ring EXCEPT ![n] = SubSeq(ring[n], k + 1, Len(ring[n]))]
                /\ ack_sem' = [ack_sem EXCEPT ![n] =
                                IF frame = <<Checksum(ack_payload[n])>> THEN 1 ELSE @]
                /\ \/ /\ FrameValid(n, frame)
                      /\ work' = [work EXCEPT ![n] = "ack"]
                      /\ rx_packet' = [rx_packet EXCEPT ![n] = frame]
                   \/ ~FrameValid(n, frame) /\ work' = work /\ rx_packet' = rx_packet
<1>1. PICK k \in DOMAIN ring[n] :
        LET frame == SubSeq(ring[n], 1, k - 1)
        IN  /\ ring[n][k] = Delimiter
            /\ \A i \in DOMAIN frame : frame[i] # Delimiter
            /\ ring' = [ring EXCEPT ![n] = SubSeq(@, k + 1, Len(@))]
            /\ ack_sem' = [ack_sem EXCEPT ![n] = IF IsAck(n, frame) THEN 1 ELSE @]
            /\ IF FrameValid(n, frame)
               THEN /\ WorkGoto(n, "ack")
                    /\ rx_packet' = [rx_packet EXCEPT ![n] = frame]
               ELSE UNCHANGED <<work, rx_packet>>
  BY DEF Decode
<1>2. ring[n] \in Seq(Tokens)
  BY DEF RpcBase, RpcTypes
<1>3. /\ SubSeq(ring[n], 1, k - 1) \in Seq(Tokens)
      /\ Len(SubSeq(ring[n], 1, k - 1)) = k - 1
      /\ \A i \in 1 .. k - 1 : SubSeq(ring[n], 1, k - 1)[i] = ring[n][i]
  BY <1>2, DecodeParts
<1>4. DOMAIN SubSeq(ring[n], 1, k - 1) = 1 .. k - 1
  BY <1>3
<1>5. FirstDelimiter(ring[n], k)
  BY <1>1, <1>3, <1>4 DEF FirstDelimiter
<1> QED
  BY <1>1, <1>5 DEF IsAck, WorkGoto

\* A frame of a packet and its checksum field is accepted.
LEMMA OwnFrameValid ==
    ASSUME NEW n \in Nodes, NEW p, NEW f, NEW x,
           x = <<Packet(p), Checksum(f)>>, CrcOf(f) = Crc(n, p)
    PROVE  FrameValid(Peer(n), x)
<1>1. Len(x) = 2 /\ x[1] = Packet(p) /\ x[2] = Checksum(f)
  OBVIOUS
<1>2. Peer(Peer(n)) = n
  BY PeerFacts
<1> QED
  BY <1>1, <1>2, TokenFacts DEF FrameValid

\* Every step keeps the account of the attempts.
LEMMA BudgetStep ==
    ASSUME RpcBase, NEW n \in Nodes, Budget(n), [RpcNext]_rpcVars
    PROVE  Budget(n)'
<1> DEFINE m == Peer(n)
           t == Packet(Len(fields[n]))
           u == Checksum(ack_payload[n])
<1>p. m \in Nodes /\ m # n /\ Peer(m) = n /\ \A k \in Nodes : k = n \/ k = m
  BY PeerFacts, Zenon
<1>r. /\ ring \in [Nodes -> Seq(Tokens)] /\ ring[n] \in Seq(Tokens)
      /\ ring[m] \in Seq(Tokens) /\ lost \in Nat /\ altered \in Nat
  BY <1>p DEF RpcBase, RpcTypes
<1>s. send \in [Nodes -> [pc : {"idle", "attempt", "close", "wait"},
                          attempts : 0 .. TxAttempts]]
  BY DEF RpcBase, RpcTypes
<1>w. work \in [Nodes -> {"decode", "ack", "ack_close", "deliver"}]
      /\ rx_packet \in [Nodes -> Seq(Tokens)] /\ ack_sem \in [Nodes -> {0, 1}]
  BY DEF RpcBase, RpcTypes
<1>q. results \in [Nodes -> Seq({"acked", "failed", "cut"})]
      /\ results[n] \in Seq({"acked", "failed", "cut"})
  BY DEF RpcBase, RpcTypes
<1>o. restarts \in [Nodes -> Nat] /\ late \in Nat
  BY DEF RpcBase, RpcTypes
<1>n. Trouble(n) \in Nat /\ send[n].attempts \in Nat /\ TxAttempts \in Nat
  BY <1>p, <1>r, <1>s, <1>o, RpcUartAssumption DEF Trouble
<1>c. \A k \in Nodes : ControlOK(k, send[k].pc, send[k].attempts, ack_tx_lock[k], work[k],
                                 fields[k], results[k], ack_payload[k], rx_packet[k])
  BY DEF RpcBase, RpcControl
<1>t. t \in Tokens /\ u \in Tokens /\ t # Delimiter /\ u # Delimiter /\ Delimiter \in Tokens
  BY Written, TokenFacts
<1> HIDE DEF t, u
<1>fl. Flying(n) <=> InFlight(send[n].pc, t, u, ring[m], ring[n], work[m], rx_packet[m],
                              ack_sem[n])
  BY DEF Flying, t, u
\* What does not concern this send(): the frame stays in flight, or there was
\* some trouble.
<1>keep. ASSUME send'[n] = send[n], results'[n] = results[n], Trouble(n)' \in Nat,
                Trouble(n)' >= Trouble(n),
                send[n].pc # "idle" /\ Flying(n) =>
                    Flying(n)' \/ Trouble(n)' >= Trouble(n) + 1
         PROVE  Budget(n)'
  BY <1>keep, <1>n DEF Budget
<1>fly. ASSUME send'[n] = send[n], fields'[n] = fields[n], ack_payload'[n] = ack_payload[n]
        PROVE  Flying(n)' <=> InFlight(send[n].pc, t, u, ring'[m], ring'[n], work'[m],
                                       rx_packet'[m], ack_sem'[n])
  BY <1>fly DEF Flying, t, u
<1>0. CASE UNCHANGED rpcVars
  <2>1. Trouble(n)' = Trouble(n) /\ Flying(n)' = Flying(n)
    BY <1>0 DEF rpcVars, sendVars, rxVars, Trouble, Flying
  <2> QED
    BY <1>0, <2>1, <1>keep, <1>n DEF rpcVars, sendVars
\* The steps of send() of this node.
<1>1. CASE SendBegins(n)
  <2>1. send'[n].attempts = 0 /\ results' = results /\ Trouble(n)' = Trouble(n)
    BY <1>1, <1>s DEF SendBegins, Trouble
  <2> QED
    BY <2>1, <1>n DEF Budget
<1>2. CASE SendAttempt(n)
  <2>1. PICK us \in Seq(Tokens) :
            /\ ring' = [ring EXCEPT ![Peer(n)] = @ \o us]
            /\ (us = <<Delimiter, t>> /\ lost' = lost) \/ lost' = lost + 1
    BY <1>2, <1>r, <1>t, EmitPairCount DEF SendAttempt, t
  <2>2. /\ send[n].pc = "attempt" /\ send'[n].pc = "close"
        /\ send'[n].attempts = send[n].attempts + 1
        /\ fields' = fields /\ results' = results /\ ack_payload' = ack_payload
        /\ late' = late /\ restarts' = restarts
    BY <1>2, <1>s DEF SendAttempt, SendAt
  <2>3. ~Flying(n)
    BY <2>2, <1>fl DEF InFlight
  <2>4. Trouble(n) >= send[n].attempts
    BY <2>2, <2>3 DEF Budget
  <2>5. CASE lost' = lost + 1
    <3>1. Trouble(n)' = Trouble(n) + 1
      BY <2>2, <2>5, <1>r, <1>o, <1>p DEF Trouble
    <3> QED
      BY <2>2, <2>4, <3>1, <1>n DEF Budget
  <2>6. CASE us = <<Delimiter, t>> /\ lost' = lost
    <3>1. Trouble(n)' = Trouble(n)
      BY <2>2, <2>6, <1>r, <1>o, <1>p DEF Trouble
    <3>2. ring'[m] = ring[m] \o <<Delimiter, t>>
      BY <2>1, <2>6, <1>p, <1>r
    <3>3. Ends(ring'[m], t)
      <4>1. Ends(ring[m] \o <<Delimiter, t>>, t)
        BY <1>r, <1>t, FrameWritten
      <4> QED
        BY <3>2, <4>1
    <3>4. Flying(n)'
      BY <3>3, <2>2 DEF Flying, InFlight, t
    <3> QED
      BY <2>2, <2>4, <3>1, <3>4, <1>n DEF Budget
  <2> QED
    BY <2>1, <2>5, <2>6
<1>3. CASE SendClose(n)
  <2>1. PICK us \in Seq(Tokens) :
            /\ ring' = [ring EXCEPT ![Peer(n)] = @ \o us]
            /\ (us = <<u, Delimiter>> /\ lost' = lost) \/ lost' = lost + 1
    BY <1>3, <1>r, <1>t, EmitPairCount DEF SendClose, u
  <2>2. /\ send[n].pc = "close" /\ send'[n].pc = "wait"
        /\ send'[n].attempts = send[n].attempts
        /\ fields' = fields /\ results' = results /\ ack_payload' = ack_payload
        /\ late' = late /\ restarts' = restarts
    BY <1>3, <1>s DEF SendClose, SendAt, SendGoto
  <2>5. CASE lost' = lost + 1
    <3>1. Trouble(n)' = Trouble(n) + 1
      BY <2>2, <2>5, <1>r, <1>o, <1>p DEF Trouble
    <3> QED
      BY <2>2, <3>1, <1>n DEF Budget
  <2>6. CASE us = <<u, Delimiter>> /\ lost' = lost
    <3>1. Trouble(n)' = Trouble(n)
      BY <2>2, <2>6, <1>r, <1>o, <1>p DEF Trouble
    <3>2. ring'[m] = ring[m] \o <<u, Delimiter>>
      BY <2>1, <2>6, <1>p, <1>r
    <3>3. Flying(n) => Holds2(ring'[m], t, u)
      <4>1. Flying(n) => Ends(ring[m], t)
        BY <1>fl, <2>2 DEF InFlight
      <4>2. Ends(ring[m], t) => Holds2(ring[m] \o <<u, Delimiter>>, t, u)
        BY <1>r, <1>t, FrameWritten
      <4> QED
        BY <4>1, <4>2, <3>2
    <3>4. Flying(n) => Flying(n)'
      BY <3>3, <2>2 DEF Flying, InFlight, t, u
    <3> QED
      BY <2>2, <3>1, <3>4, <1>n DEF Budget
  <2> QED
    BY <2>1, <2>5, <2>6
<1>4. CASE SendAcked(n)
  <2>1. /\ send'[n].pc = "idle" /\ results'[n] = Append(results[n], "acked")
        /\ Trouble(n)' = Trouble(n)
    BY <1>4, <1>s, <1>q DEF SendAcked, SendReturns, Trouble
  <2>2. \A i \in DOMAIN results'[n] : results'[n][i] = "failed" =>
            i \in DOMAIN results[n] /\ results[n][i] = "failed"
    BY <2>1, <1>q
  <2> QED
    BY <2>1, <2>2 DEF Budget
<1>5. CASE SendTimesOut(n)
  <2>1. /\ send[n].pc = "wait" /\ ack_sem[n] = 0
        /\ lost' = lost /\ restarts' = restarts
        /\ (Quiet /\ late' = late) \/ late' = late + 1
    BY <1>5 DEF SendTimesOut, SendAt
  <2>2. Trouble(n)' \in Nat /\ Trouble(n)' >= send[n].attempts
        /\ Trouble(n)' >= Trouble(n)
    <3>1. CASE late' = late + 1
      <4>1. Trouble(n)' = Trouble(n) + 1
        BY <2>1, <3>1, <1>r, <1>o, <1>p DEF Trouble
      <4> QED
        BY <4>1, <2>1, <1>n DEF Budget
    <3>2. CASE Quiet /\ late' = late
      <4>1. Trouble(n)' = Trouble(n)
        BY <2>1, <3>2 DEF Trouble
      <4>2. work[m] = "decode"
        BY <3>2, <1>p DEF Quiet
      <4>3. \A k \in Nodes : \A i \in DOMAIN ring[k] : ring[k][i] # Delimiter
        BY <3>2 DEF Quiet
      <4>4. DOMAIN ring[m] = 1 .. Len(ring[m]) /\ DOMAIN ring[n] = 1 .. Len(ring[n])
            /\ Len(ring[m]) \in Nat /\ Len(ring[n]) \in Nat
        BY <1>r
      <4>5. ~Holds2(ring[m], t, u)
        BY <4>3, <4>4, <1>p DEF Holds2
      <4>6. ~Holds1(ring[n], u)
        BY <4>3, <4>4 DEF Holds1
      <4>7. ~Flying(n)
        BY <4>2, <4>5, <4>6, <2>1, <1>fl DEF InFlight
      <4> QED
        BY <4>1, <4>7, <2>1, <1>n DEF Budget
    <3> QED
      BY <2>1, <3>1, <3>2
  <2>3. CASE send[n].attempts < TxAttempts
    <3>1. send'[n].attempts = send[n].attempts /\ results' = results
      BY <1>5, <2>3, <1>s DEF SendTimesOut, SendGoto
    <3> QED
      BY <3>1, <2>2, <1>n DEF Budget
  <2>4. CASE ~(send[n].attempts < TxAttempts)
    <3>1. send'[n].pc = "idle" /\ results'[n] = Append(results[n], "failed")
      BY <1>5, <2>4, <1>s, <1>q DEF SendTimesOut, SendReturns
    <3>2. Trouble(n)' >= TxAttempts
      BY <2>2, <2>4, <1>n
    <3> QED
      BY <3>1, <3>2 DEF Budget
  <2> QED
    BY <2>3, <2>4
\* The work queue of this node.
<1>6. CASE Decode(n)
  <2>1. PICK k \in DOMAIN ring[n] :
            /\ FirstDelimiter(ring[n], k)
            /\ ring' = [ring EXCEPT ![n] = SubSeq(ring[n], k + 1, Len(ring[n]))]
            /\ ack_sem' = [ack_sem EXCEPT ![n] =
                            IF SubSeq(ring[n], 1, k - 1) = <<u>> THEN 1 ELSE @]
            /\ \/ /\ work' = [work EXCEPT ![n] = "ack"]
                  /\ rx_packet' = [rx_packet EXCEPT ![n] = SubSeq(ring[n], 1, k - 1)]
               \/ work' = work /\ rx_packet' = rx_packet
    BY <1>6, DecodeFacts DEF u
  <2>2. /\ send' = send /\ fields' = fields /\ ack_payload' = ack_payload
        /\ results' = results /\ Trouble(n)' = Trouble(n)
    BY <1>6 DEF Decode, sendVars, Trouble
  <2>3. /\ ring'[m] = ring[m] /\ ring'[n] = SubSeq(ring[n], k + 1, Len(ring[n]))
        /\ work'[m] = work[m] /\ rx_packet'[m] = rx_packet[m]
    BY <2>1, <1>p, <1>r, <1>w
  <2>4. /\ SubSeq(ring[n], 1, k - 1) = <<u>> => ack_sem'[n] = 1
        /\ ack_sem[n] = 1 => ack_sem'[n] = 1
    BY <2>1, <1>w
  <2>5. /\ Ends(ring[n], u) => Ends(ring'[n], u)
        /\ Holds1(ring[n], u) => SubSeq(ring[n], 1, k - 1) = <<u>> \/ Holds1(ring'[n], u)
    BY <2>1, <2>3, <1>r, <1>t, HoldsDecode
  <2>6. Flying(n) => Flying(n)'
    BY <2>2, <2>3, <2>4, <2>5, <1>fl, <1>fly DEF InFlight
  <2> QED
    BY <2>2, <2>6, <1>keep, <1>n
<1>7. CASE AckOpen(n) \/ AckClose(n)
  <2>1. send[n].pc # "close"
    BY <1>7, <1>c DEF AckOpen, AckClose, WorkAt, ControlOK
  <2>2. PICK us \in Seq(Tokens) : /\ ring' = [ring EXCEPT ![Peer(n)] = @ \o us]
                                  /\ lost' \in {lost, lost + 1}
    <3>1. CASE AckOpen(n)
      <4>1. work[n] # "decode"
        BY <3>1 DEF AckOpen, WorkAt
      <4> QED
        BY <3>1, <4>1, <1>r, <1>t, Written, EmitPair DEF AckOpen
    <3>2. CASE AckClose(n)
      BY <3>2, <1>r, <1>t, EmitOne, TokenFacts DEF AckClose
    <3> QED
      BY <1>7, <3>1, <3>2
  <2>3. /\ send' = send /\ fields' = fields /\ ack_payload' = ack_payload
        /\ results' = results /\ restarts' = restarts /\ late' = late
        /\ ack_sem' = ack_sem /\ rx_packet' = rx_packet
        /\ work'[m] = work[m]
    BY <1>7, <1>p, <1>w DEF AckOpen, AckClose, sendVars, rxVars, WorkGoto
  <2>4. ring'[m] = ring[m] \o us /\ ring'[n] = ring[n]
    BY <2>2, <1>p, <1>r
  <2>5. Holds2(ring[m], t, u) => Holds2(ring'[m], t, u)
    BY <2>2, <2>4, <1>r, HoldsAppend
  <2>6. Flying(n) => Flying(n)'
    BY <2>1, <2>3, <2>4, <2>5, <1>fl, <1>fly DEF InFlight
  <2>7. Trouble(n)' \in Nat /\ Trouble(n)' >= Trouble(n)
    BY <2>2, <2>3, <1>p, <1>r, <1>o, SMTT(60) DEF Trouble
  <2> QED
    BY <2>3, <2>6, <2>7, <1>keep
<1>8. CASE Deliver(n)
  <2>1. /\ send' = send /\ fields' = fields /\ ack_payload' = ack_payload
        /\ results' = results /\ Trouble(n)' = Trouble(n)
        /\ ack_sem' = ack_sem /\ ring' = ring
    BY <1>8 DEF Deliver, sendVars, Trouble
  <2>2. work'[m] = work[m] /\ rx_packet'[m] = rx_packet[m]
    BY <1>8, <1>p, <1>w DEF Deliver, WorkGoto
  <2>3. Flying(n) => Flying(n)'
    BY <2>1, <2>2, <1>fl, <1>fly
  <2> QED
    BY <2>1, <2>3, <1>keep, <1>n
\* Restarts.
<1>9. ASSUME NEW k \in Nodes, Restart(k) PROVE Budget(n)'
  <2>1. Trouble(n)' = Trouble(n) + 1
    <3>1. restarts' = [restarts EXCEPT ![k] = @ + 1] /\ lost' = lost /\ late' = late
      BY <1>9 DEF Restart
    <3>2. \/ restarts'[n] = restarts[n] + 1 /\ restarts'[m] = restarts[m]
          \/ restarts'[n] = restarts[n] /\ restarts'[m] = restarts[m] + 1
      BY <3>1, <1>o, <1>p
    <3>3. restarts[n] \in Nat /\ restarts[m] \in Nat
      BY <1>o, <1>p
    <3> QED
      BY <3>1, <3>2, <3>3, <1>r, <1>o DEF Trouble
  <2>2. CASE k = n
    <3>1. send'[n].pc = "idle"
      BY <1>9, <2>2, <1>s DEF Restart
    <3>2. results'[n] = results[n] \/ results'[n] = Append(results[n], "cut")
      BY <1>9, <2>2, <1>q DEF Restart
    <3>3. \A i \in DOMAIN results'[n] : results'[n][i] = "failed" =>
            i \in DOMAIN results[n] /\ results[n][i] = "failed"
      <4>1. CASE results'[n] = results[n]
        BY <4>1
      <4>2. CASE results'[n] = Append(results[n], "cut")
        BY <4>2, <1>q
      <4> QED
        BY <3>2, <4>1, <4>2
    <3> QED
      BY <2>1, <3>1, <3>3, <1>n DEF Budget
  <2>3. CASE k # n
    <3>1. send'[n] = send[n] /\ results'[n] = results[n]
      BY <1>9, <2>3, <1>s, <1>q DEF Restart
    <3> QED
      BY <2>1, <3>1, <1>n, <1>keep
  <2> QED
    BY <2>2, <2>3
\* The peer: its send(), and its work queue.
<1>10. CASE SendBegins(m) \/ SendAcked(m) \/ SendTimesOut(m)
  <2>1. /\ send'[n] = send[n] /\ fields'[n] = fields[n]
        /\ results'[n] = results[n] /\ ack_payload'[n] = ack_payload[n]
        /\ ack_sem'[n] = ack_sem[n]
    <3>1. fields \in [Nodes -> Seq(Nat)] /\ ack_payload \in [Nodes -> Nat]
      BY DEF RpcBase, RpcTypes
    <3>2. CASE SendBegins(m)
      BY <3>1, <3>2, <1>p, <1>s, <1>q, <1>w DEF SendBegins
    <3>3. CASE SendAcked(m)
      BY <3>1, <3>3, <1>p, <1>s, <1>q, <1>w DEF SendAcked, SendReturns
    <3>4. CASE SendTimesOut(m)
      BY <3>1, <3>4, <1>p, <1>s, <1>q, <1>w DEF SendTimesOut, SendReturns, SendGoto
    <3> QED
      BY <1>10, <3>2, <3>3, <3>4
  <2>2. /\ ring' = ring /\ work' = work /\ rx_packet' = rx_packet
        /\ lost' = lost /\ restarts' = restarts /\ late' \in {late, late + 1}
    BY <1>10 DEF SendBegins, SendAcked, SendTimesOut, rxVars
  <2>3. Flying(n) => Flying(n)'
    BY <2>1, <2>2, <1>fl, <1>fly
  <2>4. Trouble(n)' \in Nat /\ Trouble(n)' >= Trouble(n)
    BY <2>2, <1>p, <1>r, <1>o DEF Trouble
  <2> QED
    BY <2>1, <2>3, <2>4, <1>keep
<1>11. CASE SendAttempt(m) \/ SendClose(m)
  <2>1. work[m] # "ack_close"
    BY <1>11, <1>c, <1>p DEF SendAttempt, SendClose, SendAt, ControlOK
  <2>2. PICK us \in Seq(Tokens) : /\ ring' = [ring EXCEPT ![Peer(m)] = @ \o us]
                                  /\ lost' \in {lost, lost + 1}
    <3>1. CASE SendAttempt(m)
      BY <3>1, <1>p, <1>r, <1>t, Written, EmitPair DEF SendAttempt
    <3>2. CASE SendClose(m)
      BY <3>2, <1>p, <1>r, <1>t, Written, EmitPair DEF SendClose
    <3> QED
      BY <1>11, <3>1, <3>2
  <2>3. /\ fields' = fields /\ ack_payload' = ack_payload
        /\ results' = results /\ restarts' = restarts /\ late' = late
        /\ rx_packet' = rx_packet /\ work' = work
    BY <1>11 DEF SendAttempt, SendClose, sendVars, rxVars
  <2>4. send'[n] = send[n] /\ ack_sem'[n] = ack_sem[n]
    BY <1>11, <1>p, <1>s, <1>w DEF SendAttempt, SendClose, SendGoto
  <2>5. ring'[n] = ring[n] \o us /\ ring'[m] = ring[m]
    BY <2>2, <1>p, <1>r
  <2>6. Holds1(ring[n], u) => Holds1(ring'[n], u)
    BY <2>2, <2>5, <1>r, HoldsAppend
  <2>7. Flying(n) => Flying(n)'
    BY <2>1, <2>3, <2>4, <2>5, <2>6, <1>fl, <1>fly DEF InFlight
  <2>8. Trouble(n)' \in Nat /\ Trouble(n)' >= Trouble(n)
    BY <2>2, <2>3, <1>p, <1>r, <1>o, SMTT(60) DEF Trouble
  <2> QED
    BY <2>3, <2>4, <2>7, <2>8, <1>keep
<1>12. CASE Decode(m)
  <2>1. PICK k \in DOMAIN ring[m] :
            /\ FirstDelimiter(ring[m], k)
            /\ ring' = [ring EXCEPT ![m] = SubSeq(ring[m], k + 1, Len(ring[m]))]
            /\ ack_sem' = [ack_sem EXCEPT ![m] =
                            IF SubSeq(ring[m], 1, k - 1) = <<Checksum(ack_payload[m])>>
                            THEN 1 ELSE @]
            /\ \/ /\ FrameValid(m, SubSeq(ring[m], 1, k - 1))
                  /\ work' = [work EXCEPT ![m] = "ack"]
                  /\ rx_packet' = [rx_packet EXCEPT ![m] = SubSeq(ring[m], 1, k - 1)]
               \/ /\ ~FrameValid(m, SubSeq(ring[m], 1, k - 1))
                  /\ work' = work /\ rx_packet' = rx_packet
    BY <1>12, <1>p, DecodeFacts, Zenon
  <2>2. /\ send' = send /\ fields' = fields /\ ack_payload' = ack_payload
        /\ results' = results /\ Trouble(n)' = Trouble(n) /\ work[m] = "decode"
    BY <1>12 DEF Decode, sendVars, Trouble, WorkAt
  <2>3. /\ ring'[n] = ring[n] /\ ring'[m] = SubSeq(ring[m], k + 1, Len(ring[m]))
        /\ ack_sem'[n] = ack_sem[n]
    BY <2>1, <1>p, <1>r, <1>w
  <2>5. /\ Ends(ring[m], t) => Ends(ring'[m], t)
        /\ Holds2(ring[m], t, u) => SubSeq(ring[m], 1, k - 1) = <<t, u>>
                                    \/ Holds2(ring'[m], t, u)
    BY <2>1, <2>3, <1>r, <1>t, HoldsDecode
  <2>6. ASSUME send[n].pc # "idle", SubSeq(ring[m], 1, k - 1) = <<t, u>>
        PROVE  work'[m] = "ack" /\ rx_packet'[m] = <<t, u>>
    <3>1. CrcOf(ack_payload[n]) = Crc(n, Len(fields[n]))
      <4>1. fields[n] \in Seq(Nat) /\ Len(results[n]) \in Nat
        BY <1>q DEF RpcBase, RpcTypes
      <4>2. /\ Len(fields[n]) = Len(results[n]) + 1
            /\ ack_payload[n] = fields[n][Len(fields[n])]
            /\ \A p \in 1 .. Len(fields[n]) : CrcOf(fields[n][p]) = Crc(n, p)
        BY <2>6, <1>c DEF ControlOK
      <4>3. Len(fields[n]) \in 1 .. Len(fields[n])
        BY <4>1, <4>2
      <4> QED
        BY <4>2, <4>3
    <3>2. FrameValid(m, SubSeq(ring[m], 1, k - 1))
      BY <2>6, <3>1, OwnFrameValid DEF t, u
    <3> QED
      BY <2>1, <2>6, <3>2, <1>w, <1>p
  <2>7. Flying(n) /\ send[n].pc # "idle" => Flying(n)'
    BY <2>2, <2>3, <2>5, <2>6, <1>fl, <1>fly DEF InFlight
  <2> QED
    BY <2>2, <2>7, <1>keep, <1>n
<1>13. CASE AckOpen(m)
  <2>1. work[m] = "ack" /\ work'[m] = "ack_close" /\ rx_packet[m][2] \in Tokens
    BY <1>13, <1>p, <1>w, Written DEF AckOpen, WorkAt, WorkGoto
  <2>2. PICK us \in Seq(Tokens) :
            /\ ring' = [ring EXCEPT ![Peer(m)] = @ \o us]
            /\ (us = <<Delimiter, rx_packet[m][2]>> /\ lost' = lost) \/ lost' = lost + 1
    <3>1. Emit(m, <<Delimiter, rx_packet[m][2]>>)
      BY <1>13 DEF AckOpen
    <3>2. \E us \in Seq(Tokens) :
            /\ ring' = [ring EXCEPT ![Peer(m)] = @ \o us]
            /\ (us = <<Delimiter, rx_packet[m][2]>> /\ lost' = lost) \/ lost' = lost + 1
      <4> HIDE DEF m
      <4> QED
        BY <3>1, <2>1, <1>p, <1>r, <1>t, EmitPairCount, Zenon
    <3> QED
      BY <3>2, Zenon
  <2>3. /\ send' = send /\ fields' = fields /\ ack_payload' = ack_payload
        /\ results' = results /\ restarts' = restarts /\ late' = late
        /\ rx_packet' = rx_packet /\ ack_sem' = ack_sem
    BY <1>13 DEF AckOpen, sendVars, rxVars
  <2>4. ring'[n] = ring[n] \o us /\ ring'[m] = ring[m]
    BY <2>2, <1>p, <1>r
  <2>5. Holds1(ring[n], u) => Holds1(ring'[n], u)
    BY <2>2, <2>4, <1>r, HoldsAppend
  <2>6. Trouble(n)' \in Nat /\ Trouble(n)' >= Trouble(n)
        /\ (lost' = lost + 1 => Trouble(n)' >= Trouble(n) + 1)
    BY <2>2, <2>3, <1>p, <1>r, <1>o, SMTT(60) DEF Trouble
  <2>7. ASSUME us = <<Delimiter, rx_packet[m][2]>>, rx_packet[m] = <<t, u>>
        PROVE  Ends(ring'[n], u)
    <3>1. rx_packet[m][2] = u
      BY <2>7
    <3>2. Ends(ring[n] \o <<Delimiter, u>>, u)
      BY <1>r, <1>t, FrameWritten
    <3> QED
      BY <2>4, <2>7, <3>1, <3>2
  <2>8. Flying(n) => Flying(n)' \/ lost' = lost + 1
    BY <2>1, <2>2, <2>3, <2>4, <2>5, <2>7, <1>fl, <1>fly DEF InFlight
  <2> QED
    BY <2>3, <2>6, <2>8, <1>keep
<1>14. CASE AckClose(m)
  <2>1. work[m] = "ack_close" /\ work'[m] = "deliver"
    BY <1>14, <1>p, <1>w DEF AckClose, WorkAt, WorkGoto
  <2>2. PICK us \in Seq(Tokens) :
            /\ ring' = [ring EXCEPT ![Peer(m)] = @ \o us]
            /\ (us = <<Delimiter>> /\ lost' = lost) \/ lost' = lost + 1
    BY <1>14, <1>p, <1>r, <1>t, EmitOne, TokenFacts DEF AckClose
  <2>3. /\ send' = send /\ fields' = fields /\ ack_payload' = ack_payload
        /\ results' = results /\ restarts' = restarts /\ late' = late
        /\ rx_packet' = rx_packet /\ ack_sem' = ack_sem
    BY <1>14 DEF AckClose, sendVars, rxVars
  <2>4. ring'[n] = ring[n] \o us /\ ring'[m] = ring[m]
    BY <2>2, <1>p, <1>r
  <2>5. Holds1(ring[n], u) => Holds1(ring'[n], u)
    BY <2>2, <2>4, <1>r, HoldsAppend
  <2>6. Trouble(n)' \in Nat /\ Trouble(n)' >= Trouble(n)
        /\ (lost' = lost + 1 => Trouble(n)' >= Trouble(n) + 1)
    BY <2>2, <2>3, <1>p, <1>r, <1>o, SMTT(60) DEF Trouble
  <2>7. ASSUME us = <<Delimiter>>, Ends(ring[n], u)
        PROVE  Holds1(ring'[n], u)
    <3>1. Ends(ring[n], u) => Holds1(ring[n] \o <<Delimiter>>, u)
      BY <1>r, <1>t, FrameWritten
    <3> QED
      BY <2>4, <2>7, <3>1
  <2>8. Flying(n) => Flying(n)' \/ lost' = lost + 1
    BY <2>1, <2>2, <2>3, <2>4, <2>5, <2>7, <1>fl, <1>fly DEF InFlight
  <2> QED
    BY <2>3, <2>6, <2>8, <1>keep
<1>15. CASE Deliver(m)
  <2>1. /\ send' = send /\ fields' = fields /\ ack_payload' = ack_payload
        /\ results' = results /\ Trouble(n)' = Trouble(n)
        /\ ack_sem' = ack_sem /\ ring' = ring /\ work[m] = "deliver"
    BY <1>15 DEF Deliver, sendVars, Trouble, WorkAt
  <2>3. Flying(n) => Flying(n)'
    BY <2>1, <1>fl, <1>fly DEF InFlight
  <2> QED
    BY <2>1, <2>3, <1>keep, <1>n
<1>16. CASE \E k \in Nodes : SendBegins(k) \/ SendStep(k) \/ WorkStep(k) \/ Restart(k)
  <2>1. PICK k \in Nodes : SendBegins(k) \/ SendStep(k) \/ WorkStep(k) \/ Restart(k)
    BY <1>16
  <2>2. k = n \/ k = m
    BY <1>p
  <2> HIDE DEF m
  <2> QED
    BY <2>1, <2>2, <1>1, <1>2, <1>3, <1>4, <1>5, <1>6, <1>7, <1>8, <1>9, <1>10, <1>11,
       <1>12, <1>13, <1>14, <1>15 DEF SendStep, WorkStep
<1> QED
  BY <1>0, <1>16 DEF RpcNext

\* send() fails only if each attempt met some trouble of its own.
THEOREM RpcRetriesSuffice == RpcSpec => []RetriesSuffice
<1>1. RpcInit => RetriesInv
  <2> SUFFICES ASSUME RpcInit PROVE RetriesInv
    OBVIOUS
  <2>1. RpcBase
    BY BaseInit
  <2>2. \A n \in Nodes : Budget(n)
    BY DEF RpcInit, Budget
  <2> QED
    BY <2>1, <2>2 DEF RetriesInv, RpcBase
<1>2. RetriesInv /\ [RpcNext]_rpcVars => RetriesInv'
  <2> SUFFICES ASSUME RetriesInv, [RpcNext]_rpcVars PROVE RetriesInv'
    OBVIOUS
  <2>1. RpcBase
    BY DEF RetriesInv, RpcBase
  <2>2. RpcTypes' /\ RpcControl'
    BY <2>1, TypesStep, ControlStep
  <2>3. ASSUME NEW n \in Nodes PROVE Budget(n)'
    BY <2>1, BudgetStep DEF RetriesInv
  <2> QED
    BY <2>2, <2>3 DEF RetriesInv
<1>3. RetriesInv => RetriesSuffice
  BY DEF RetriesInv, Budget, RetriesSuffice, Trouble
<1> QED
  BY <1>1, <1>2, <1>3, PTL DEF RpcSpec

-----------------------------------------------------------------------------
(* What is on the line from n to its peer m: r is m's ring, f and g are the *)
(* checksum fields of n and of m, busy tells whether m handles a frame, x   *)
(* that frame, d the packets delivered, c and any what m remembers of the   *)
(* last one (last_rx_crc, rx_flip_any), km the restarts of m.               *)
IsPacket(t) == t.kind = "PACKET"
IsChecksum(t) == t.kind = "CHECKSUM"
FieldsOf(f) == {f[p] : p \in 1 .. Len(f)}

\* The packets come in order, and a checksum field after a packet is its own,
\* or that of an acknowledgment.
RingOK(r, f, g, closing) ==
    /\ \A i \in 1 .. Len(r) : IsPacket(r[i]) => r[i].val \in 1 .. Len(f)
    /\ \A i \in 1 .. Len(r) : \A j \in i .. Len(r) :
        IsPacket(r[i]) /\ IsPacket(r[j]) => r[i].val <= r[j].val
    /\ \A i \in 1 .. Len(r) : IsChecksum(r[i]) => r[i].val \in FieldsOf(f) \cup FieldsOf(g)
    /\ \A i \in 1 .. Len(r) - 1 : IsPacket(r[i]) /\ IsChecksum(r[i + 1]) =>
        r[i + 1].val = f[r[i].val] \/ r[i + 1].val \in FieldsOf(g)
    /\ closing /\ Len(r) > 0 /\ IsPacket(r[Len(r)]) => r[Len(r)].val = Len(f)

\* All that is to come is at least p.
AtLeast(r, p) == \A i \in 1 .. Len(r) : IsPacket(r[i]) => p <= r[i].val

\* The frame that m handles is a packet of n with its field.
HandledOK(r, f, busy, x) ==
    busy => /\ x[1].val \in 1 .. Len(f) /\ x = <<Packet(x[1].val), Checksum(f[x[1].val])>>
            /\ AtLeast(r, x[1].val)

\* What was delivered is in order, and before what is to come.
OrderOK(r, f, busy, x, d) ==
    \A i \in 1 .. Len(d) :
        /\ d[i] \in 1 .. Len(f)
        /\ \A j \in i .. Len(d) : d[i] <= d[j]
        /\ busy => d[i] <= x[1].val
        /\ AtLeast(r, d[i])

Copies(d, p) == {i \in 1 .. Len(d) : d[i] = p}
CopiesOK(r, f, busy, x, d, c, any, km) ==
    /\ \A p \in 1 .. Len(f) : Cardinality(Copies(d, p)) <= 1 + km
    /\ any => \A p \in 1 .. Len(f) : Cardinality(Copies(d, p)) <= km
    /\ ~any =>
        \E q \in 1 .. Len(f) :      \* the last packet that was handled
            /\ c = f[q]
            /\ \A i \in 1 .. Len(d) : d[i] <= q
            /\ busy => q <= x[1].val
            /\ AtLeast(r, q)
            /\ \A p \in q + 1 .. Len(f) : Cardinality(Copies(d, p)) <= km

LineOK(r, f, g, closing, busy, x, d, c, any, km) ==
    /\ RingOK(r, f, g, closing)
    /\ HandledOK(r, f, busy, x)
    /\ OrderOK(r, f, busy, x, d)
    /\ CopiesOK(r, f, busy, x, d, c, any, km)

Line(n) ==
    LineOK(ring[Peer(n)], fields[n], fields[Peer(n)], send[n].pc = "close",
           work[Peer(n)] # "decode", rx_packet[Peer(n)], delivered[n],
           last_rx_crc[Peer(n)], rx_flip_any[Peer(n)], restarts[Peer(n)])

LineInv == RpcBase /\ \A n \in Nodes : Line(n)

-----------------------------------------------------------------------------
(* Acknowledgments of n's packets: b is n's ring, res the results of its    *)
(* send() calls.                                                            *)
ArrivedIn(d, busy, x, p) ==
    (\E i \in 1 .. Len(d) : d[i] = p) \/ (busy /\ x[1] = Packet(p))

\* The packet was delivered, or will be: it is not taken for a duplicate.
Seen(f, busy, x, d, c, any, p) ==
    \/ \E i \in 1 .. Len(d) : d[i] = p
    \/ busy /\ x[1] = Packet(p) /\ (any \/ c # f[p])

IsAckOf(t, f) == IsChecksum(t) /\ t.val \in FieldsOf(f)

\* One of the first p packets has the field v and has arrived.
Known(f, busy, x, d, v, p) == \E q \in 1 .. p : f[q] = v /\ ArrivedIn(d, busy, x, q)

\* Whatever is acknowledged, a packet with the same field has arrived.
AckOK(b, f, pc, sem, res, busy, x, d, c, any) ==
    /\ ~any => \E i \in 1 .. Len(d) : f[d[i]] = c
    /\ \A i \in 1 .. Len(b) : IsAckOf(b[i], f) => Known(f, busy, x, d, b[i].val, Len(f))
    /\ sem = 1 /\ pc \in {"close", "wait"} => Known(f, busy, x, d, f[Len(f)], Len(f))
    /\ \A p \in 1 .. Len(res) : res[p] = "acked" => Known(f, busy, x, d, f[p], p)

\* The sequence bit alternates.
FlipOK(f, flip) ==
    /\ \A p \in 1 .. Len(f) - 1 : f[p] % 2 # f[p + 1] % 2
    /\ Len(f) > 0 => f[Len(f)] % 2 # flip

\* While all send() calls were acknowledged, only the last two packets and
\* their acknowledgments are on their way, in order.
AllAcked(res, l) == \A p \in 1 .. l : res[p] = "acked"
CurrentOK(b, r, f, pc, sem, busy, x, d, c, any) ==
    LET p == Len(f)
    IN  /\ AtLeast(r, p - 1)
        /\ busy => x[1].val >= p - 1
        /\ \A i \in 1 .. Len(b) : IsAckOf(b[i], f) =>
            \/ p > 1 /\ b[i].val = f[p - 1]
            \/ /\ b[i].val = f[p] /\ Seen(f, busy, x, d, c, any, p)
               /\ \A j \in i .. Len(b) : IsAckOf(b[j], f) => b[j].val = f[p]
        /\ sem = 1 /\ pc \in {"close", "wait"} =>
            /\ Seen(f, busy, x, d, c, any, p)
            /\ \A i \in 1 .. Len(b) : IsAckOf(b[i], f) => b[i].val = f[p]
        /\ busy /\ x[1].val = p => Seen(f, busy, x, d, c, any, p)
        /\ ~busy /\ ~any =>
            \/ c = f[p] /\ \E i \in 1 .. Len(d) : d[i] = p
            \/ p > 1 /\ c = f[p - 1] /\ \A i \in 1 .. Len(d) : d[i] # p
DoneOK(b, r, f, busy, x, d, c, any) ==
    LET p == Len(f)
    IN  /\ AtLeast(r, p)
        /\ busy => x[1].val = p
        /\ \A i \in 1 .. Len(b) : IsAckOf(b[i], f) => b[i].val = f[p]
        /\ ~busy /\ ~any => c = f[p]
CleanOK(b, r, f, pc, sem, res, busy, x, d, c, any) ==
    /\ pc # "idle" /\ AllAcked(res, Len(res)) =>
        CurrentOK(b, r, f, pc, sem, busy, x, d, c, any)
    /\ pc = "idle" /\ Len(f) > 0 /\ AllAcked(res, Len(res)) =>
        DoneOK(b, r, f, busy, x, d, c, any)
    /\ \A p \in 1 .. Len(res) : AllAcked(res, p) => Seen(f, busy, x, d, c, any, p)

Acks(n) ==
    LET m == Peer(n)
        busy == work[m] # "decode"
    IN  /\ restarts[n] = 0 => FlipOK(fields[n], tx_flip[n])
        /\ restarts[m] = 0 =>
            AckOK(ring[n], fields[n], send[n].pc, ack_sem[n], results[n], busy,
                  rx_packet[m], delivered[n], last_rx_crc[m], rx_flip_any[m])
        /\ restarts[n] = 0 /\ restarts[m] = 0 =>
            CleanOK(ring[n], ring[m], fields[n], send[n].pc, ack_sem[n], results[n], busy,
                    rx_packet[m], delivered[n], last_rx_crc[m], rx_flip_any[m])

AckInv == LineInv /\ \A n \in Nodes : Acks(n)

-----------------------------------------------------------------------------
(* What a step does to the line.                                           *)

\* A further field.
LEMMA AppendField ==
    ASSUME NEW f \in Seq(Nat), NEW v \in Nat
    PROVE  /\ Append(f, v) \in Seq(Nat) /\ Len(Append(f, v)) = Len(f) + 1
           /\ Len(f) \in Nat
           /\ \A p \in 1 .. Len(f) : Append(f, v)[p] = f[p]
           /\ Append(f, v)[Len(f) + 1] = v
           /\ FieldsOf(Append(f, v)) = FieldsOf(f) \cup {v}
<1>1. /\ Append(f, v) \in Seq(Nat) /\ Len(Append(f, v)) = Len(f) + 1
      /\ Len(f) \in Nat
      /\ \A p \in 1 .. Len(f) : Append(f, v)[p] = f[p]
      /\ Append(f, v)[Len(f) + 1] = v
  OBVIOUS
<1> DEFINE h == Append(f, v)
<1>2. ASSUME NEW p \in 1 .. Len(f) + 1 PROVE h[p] \in FieldsOf(f) \cup {v}
  <2>1. p \in 1 .. Len(f) \/ p = Len(f) + 1
    BY <1>1
  <2> QED
    BY <1>1, <2>1 DEF FieldsOf
<1>3. 1 .. Len(f) \subseteq 1 .. Len(f) + 1 /\ Len(f) + 1 \in 1 .. Len(f) + 1
  BY <1>1
<1>4. FieldsOf(h) = {h[p] : p \in 1 .. Len(f) + 1}
  BY <1>1 DEF FieldsOf
<1> HIDE DEF h
<1>5. FieldsOf(f) \cup {v} \subseteq FieldsOf(h)
  BY <1>1, <1>3, <1>4 DEF FieldsOf, h
<1>6. FieldsOf(h) = FieldsOf(f) \cup {v}
  BY <1>2, <1>4, <1>5
<1> QED
  BY <1>1, <1>6 DEF h

\* The line when a packet is about to be sent.
LEMMA RingBegin ==
    ASSUME NEW r \in Seq(Tokens), NEW f \in Seq(Nat), NEW v \in Nat, NEW g,
           NEW closing, RingOK(r, f, g, closing)
    PROVE  RingOK(r, Append(f, v), g, FALSE)
<1> DEFINE h == Append(f, v)
<1>1. /\ Len(h) = Len(f) + 1 /\ Len(f) \in Nat /\ FieldsOf(h) = FieldsOf(f) \cup {v}
      /\ \A p \in 1 .. Len(f) : h[p] = f[p]
  BY AppendField
<1> HIDE DEF h
<1>2. \A p \in 1 .. Len(f) : p \in 1 .. Len(h)
  BY <1>1
<1>0. Len(r) \in Nat
  OBVIOUS
<1>3. \A i \in 1 .. Len(r) - 1 : i \in 1 .. Len(r) /\ i + 1 \in 1 .. Len(r)
  BY <1>0
<1> QED
  BY <1>1, <1>2, <1>3 DEF RingOK, h

\* The line when the peer is about to send a packet.
LEMMA RingBeginPeer ==
    ASSUME NEW r, NEW f, NEW g \in Seq(Nat), NEW v \in Nat, NEW closing,
           RingOK(r, f, g, closing)
    PROVE  RingOK(r, f, Append(g, v), closing)
<1> DEFINE h == Append(g, v)
<1>1. FieldsOf(h) = FieldsOf(g) \cup {v}
  BY AppendField
<1> HIDE DEF h
<1> QED
  BY <1>1 DEF RingOK, h

\* A token that n may write: its current packet, the checksum field of that
\* when the packet went just before, or an acknowledgment.
Fits(t, f, g, closing) ==
    /\ IsPacket(t) => Len(f) >= 1 /\ t.val = Len(f)
    /\ IsChecksum(t) =>
        \/ t.val \in FieldsOf(g)
        \/ closing /\ Len(f) >= 1 /\ t.val = f[Len(f)]

\* Such a token keeps the line right.
LEMMA RingToken ==
    ASSUME NEW r \in Seq(Tokens), NEW f \in Seq(Nat), NEW g, NEW closing \in BOOLEAN,
           RingOK(r, f, g, closing), NEW t \in Tokens, Fits(t, f, g, closing)
    PROVE  /\ \A close2 : RingOK(r \o <<t>>, f, g, close2)
           /\ \A p \in 1 .. Len(f) : AtLeast(r, p) => AtLeast(r \o <<t>>, p)
<1> DEFINE s == r \o <<t>>
<1>1. /\ s \in Seq(Tokens) /\ Len(s) = Len(r) + 1 /\ Len(r) \in Nat /\ Len(f) \in Nat
      /\ \A i \in 1 .. Len(r) : s[i] = r[i]
      /\ s[Len(r) + 1] = t
  OBVIOUS
<1> HIDE DEF s
<1>i. \A i \in 1 .. Len(s) : i \in 1 .. Len(r) \/ i = Len(r) + 1
  BY <1>1
<1>2. ASSUME NEW p \in 1 .. Len(f), AtLeast(r, p) PROVE AtLeast(s, p)
  <2>1. IsPacket(t) => p <= t.val
    BY <1>1 DEF Fits
  <2> QED
    BY <1>1, <1>i, <1>2, <2>1 DEF AtLeast
<1>3. ASSUME NEW i \in 1 .. Len(s), IsPacket(s[i])
      PROVE  s[i].val \in 1 .. Len(f)
  <2>1. CASE i \in 1 .. Len(r)
    BY <1>1, <1>3, <2>1 DEF RingOK
  <2>2. CASE i = Len(r) + 1
    BY <1>1, <1>3, <2>2 DEF Fits
  <2> QED
    BY <1>i, <2>1, <2>2
<1>4. ASSUME NEW i \in 1 .. Len(s), NEW j \in i .. Len(s), IsPacket(s[i]), IsPacket(s[j])
      PROVE  s[i].val <= s[j].val
  <2>0. j \in 1 .. Len(s)
    BY <1>1
  <2>1. CASE j \in 1 .. Len(r)
    <3>1. i \in 1 .. Len(r) /\ j \in i .. Len(r)
      BY <1>1, <2>1
    <3>2. s[i] = r[i] /\ s[j] = r[j]
      BY <1>1, <2>1, <3>1
    <3> QED
      BY <1>4, <3>1, <3>2 DEF RingOK
  <2>2. CASE j = Len(r) + 1
    <3>1. s[j].val = Len(f)
      BY <1>1, <1>4, <2>2 DEF Fits
    <3>2. s[i].val \in 1 .. Len(f)
      BY <1>3, <1>4
    <3> QED
      BY <1>1, <3>1, <3>2
  <2> QED
    BY <1>i, <2>0, <2>1, <2>2
<1>f. Len(f) >= 1 => f[Len(f)] \in FieldsOf(f)
  <2>1. Len(f) >= 1 => Len(f) \in 1 .. Len(f)
    BY <1>1
  <2> QED
    BY <2>1 DEF FieldsOf
<1>5. ASSUME NEW i \in 1 .. Len(s), IsChecksum(s[i])
      PROVE  s[i].val \in FieldsOf(f) \cup FieldsOf(g)
  <2>1. CASE i \in 1 .. Len(r)
    BY <1>1, <1>5, <2>1 DEF RingOK
  <2>2. CASE i = Len(r) + 1
    BY <1>1, <1>5, <1>f, <2>2 DEF Fits
  <2> QED
    BY <1>i, <2>1, <2>2
<1>6. ASSUME NEW i \in 1 .. Len(s) - 1, IsPacket(s[i]), IsChecksum(s[i + 1])
      PROVE  s[i + 1].val = f[s[i].val] \/ s[i + 1].val \in FieldsOf(g)
  <2>0. i \in 1 .. Len(r) /\ s[i] = r[i]
    BY <1>1
  <2>1. CASE i # Len(r)
    <3>1. i \in 1 .. Len(r) - 1 /\ i + 1 \in 1 .. Len(r)
      BY <1>1, <2>0, <2>1
    <3>2. s[i + 1] = r[i + 1]
      BY <1>1, <3>1
    <3> QED
      BY <1>6, <2>0, <3>1, <3>2 DEF RingOK
  <2>2. CASE i = Len(r)
    <3>1. s[i + 1] = t /\ Len(r) > 0
      BY <1>1, <2>0, <2>2
    <3>2. closing => r[i].val = Len(f)
      BY <1>6, <2>0, <2>2, <3>1 DEF RingOK
    <3> QED
      BY <1>6, <2>0, <3>1, <3>2 DEF Fits
  <2> QED
    BY <2>1, <2>2
<1>7. IsPacket(s[Len(s)]) => s[Len(s)].val = Len(f)
  BY <1>1 DEF Fits
<1>8. \A close2 : RingOK(s, f, g, close2)
  BY <1>3, <1>4, <1>5, <1>6, <1>7 DEF RingOK
<1> QED
  BY <1>2, <1>8 DEF s

\* The same of two tokens, whatever the line does to them.
LEMMA RingPair ==
    ASSUME NEW r \in Seq(Tokens), NEW f \in Seq(Nat), NEW g, NEW closing \in BOOLEAN,
           RingOK(r, f, g, closing), NEW t \in Tokens, NEW u \in Tokens,
           Fits(t, f, g, closing), Fits(u, f, g, FALSE),
           NEW us \in PairOf(t, u)
    PROVE  /\ \A close2 : RingOK(r \o us, f, g, close2)
           /\ \A p \in 1 .. Len(f) : AtLeast(r, p) => AtLeast(r \o us, p)
<1>1. Damaged \in Tokens /\ ~IsPacket(Damaged) /\ ~IsChecksum(Damaged)
  BY TokenFacts DEF IsPacket, IsChecksum
<1>2. \A close2 : Fits(Damaged, f, g, close2)
  BY <1>1 DEF Fits
<1>3. \A close2 : Fits(u, f, g, close2)
  BY DEF Fits
<1>4. ASSUME NEW a \in Tokens, NEW b \in Tokens, Fits(a, f, g, closing), Fits(b, f, g, FALSE)
      PROVE  /\ \A close2 : RingOK(r \o <<a, b>>, f, g, close2)
             /\ \A p \in 1 .. Len(f) : AtLeast(r, p) => AtLeast(r \o <<a, b>>, p)
  <2> DEFINE s == r \o <<a>>
  <2>1. /\ RingOK(s, f, g, FALSE)
        /\ \A p \in 1 .. Len(f) : AtLeast(r, p) => AtLeast(s, p)
    BY <1>4, RingToken
  <2>2. s \in Seq(Tokens)
    OBVIOUS
  <2>3. s \o <<b>> = r \o <<a, b>>
    <3> DEFINE v == s \o <<b>>
               w == r \o <<a, b>>
    <3>1. /\ v \in Seq(Tokens) /\ Len(v) = Len(r) + 2 /\ Len(r) \in Nat
          /\ (\A i \in 1 .. Len(r) : v[i] = r[i]) /\ v[Len(r) + 1] = a /\ v[Len(r) + 2] = b
      OBVIOUS
    <3>2. /\ w \in Seq(Tokens) /\ Len(w) = Len(r) + 2
          /\ (\A i \in 1 .. Len(r) : w[i] = r[i]) /\ w[Len(r) + 1] = a /\ w[Len(r) + 2] = b
      OBVIOUS
    <3> HIDE DEF v, w
    <3>3. \A i \in 1 .. Len(v) : i \in 1 .. Len(r) \/ i = Len(r) + 1 \/ i = Len(r) + 2
      BY <3>1
    <3>4. \A i \in 1 .. Len(v) : v[i] = w[i]
      BY <3>1, <3>2, <3>3
    <3>5. v = w
      BY <3>1, <3>2, <3>4, SameSeq
    <3> QED
      BY <3>5 DEF v, w
  <2> HIDE DEF s
  <2>4. /\ \A close2 : RingOK(s \o <<b>>, f, g, close2)
        /\ \A p \in 1 .. Len(f) : AtLeast(s, p) => AtLeast(s \o <<b>>, p)
    BY <1>4, <2>1, <2>2, RingToken
  <2> QED
    BY <2>1, <2>3, <2>4
<1>5. ASSUME NEW a \in Tokens, Fits(a, f, g, closing)
      PROVE  /\ \A close2 : RingOK(r \o <<a>>, f, g, close2)
             /\ \A p \in 1 .. Len(f) : AtLeast(r, p) => AtLeast(r \o <<a>>, p)
  BY <1>5, RingToken
<1>6. CASE us = <<t, u>>
  BY <1>6, <1>4
<1>7. CASE us = <<t>>
  BY <1>7, <1>5
<1>8. CASE us = <<u>>
  BY <1>8, <1>3, <1>5
<1>9. CASE us = <<t, Damaged>>
  BY <1>9, <1>1, <1>2, <1>4
<1>10. CASE us = <<Damaged, u>>
  BY <1>10, <1>1, <1>2, <1>4
<1> QED
  BY <1>6, <1>7, <1>8, <1>9, <1>10 DEF PairOf

\* The last place of what is left.
LEMMA LastLeft ==
    \A l \in Nat : \A k \in 1 .. l :
        l - k > 0 => l - k \in 1 .. l - k /\ k + (l - k) = l /\ l > 0
  OBVIOUS

\* The line once the frame before its first delimiter is decoded.
LEMMA RingCut ==
    ASSUME NEW r \in Seq(Tokens), NEW k \in DOMAIN r, NEW f, NEW g, NEW closing,
           RingOK(r, f, g, closing)
    PROVE  /\ RingOK(SubSeq(r, k + 1, Len(r)), f, g, closing)
           /\ \A p : AtLeast(r, p) => AtLeast(SubSeq(r, k + 1, Len(r)), p)
<1> DEFINE s == SubSeq(r, k + 1, Len(r))
<1>0. /\ k \in 1 .. Len(r) /\ Len(s) = Len(r) - k
      /\ \A i \in 1 .. Len(r) - k : s[i] = r[k + i]
  BY DecodeParts, Zenon
<1>00. Len(r) \in Nat
  OBVIOUS
<1> HIDE DEF s
<1>1. \A i \in 1 .. Len(s) : k + i \in 1 .. Len(r) /\ s[i] = r[k + i]
  BY <1>0, <1>00
<1>2. \A i \in 1 .. Len(s) : \A j \in i .. Len(s) : k + j \in k + i .. Len(r) /\ s[j] = r[k + j]
  BY <1>0, <1>00
<1>3. \A i \in 1 .. Len(s) - 1 : k + i \in 1 .. Len(r) - 1 /\ s[i + 1] = r[(k + i) + 1]
                                /\ s[i] = r[k + i]
  <2>1. TAKE i \in 1 .. Len(s) - 1
  <2>2. i + 1 \in 1 .. Len(r) - k /\ k + (i + 1) = (k + i) + 1 /\ i \in 1 .. Len(r) - k
        /\ k + i \in 1 .. Len(r) - 1
    BY <1>0, <1>00
  <2>3. s[i + 1] = r[k + (i + 1)] /\ s[i] = r[k + i]
    BY <1>0, <2>2, Zenon
  <2> QED
    BY <2>2, <2>3
<1>4. Len(s) > 0 => Len(r) > 0 /\ s[Len(s)] = r[Len(r)]
  <2>1. SUFFICES ASSUME Len(s) > 0 PROVE Len(r) > 0 /\ s[Len(s)] = r[Len(r)]
    OBVIOUS
  <2>2. Len(s) \in 1 .. Len(s) /\ k + Len(s) = Len(r) /\ Len(r) > 0
    <3>1. Len(s) = Len(r) - k /\ k \in 1 .. Len(r)
      BY <1>0, Zenon
    <3> QED
      BY <3>1, <1>00, <2>1, LastLeft, Zenon
  <2> QED
    BY <1>1, <2>2
<1>5. \A p : AtLeast(r, p) => AtLeast(s, p)
  BY <1>1 DEF AtLeast
<1>6. RingOK(s, f, g, closing)
  <2>1. \A i \in 1 .. Len(s) : IsPacket(s[i]) => s[i].val \in 1 .. Len(f)
    BY <1>1 DEF RingOK
  <2>2. ASSUME NEW i \in 1 .. Len(s), NEW j \in i .. Len(s), IsPacket(s[i]), IsPacket(s[j])
        PROVE  s[i].val <= s[j].val
    BY <1>1, <1>2, <2>2 DEF RingOK
  <2>3. \A i \in 1 .. Len(s) : IsChecksum(s[i]) => s[i].val \in FieldsOf(f) \cup FieldsOf(g)
    BY <1>1 DEF RingOK
  <2>4. ASSUME NEW i \in 1 .. Len(s) - 1, IsPacket(s[i]), IsChecksum(s[i + 1])
        PROVE  s[i + 1].val = f[s[i].val] \/ s[i + 1].val \in FieldsOf(g)
    BY <1>3, <2>4 DEF RingOK
  <2>5. closing /\ Len(s) > 0 /\ IsPacket(s[Len(s)]) => s[Len(s)].val = Len(f)
    BY <1>4 DEF RingOK
  <2> QED
    BY <2>1, <2>2, <2>3, <2>4, <2>5 DEF RingOK
<1> QED
  BY <1>5, <1>6 DEF s

\* A packet that was never delivered has no copies, and a set of places is
\* finite.
LEMMA CopiesFacts ==
    ASSUME NEW d \in Seq(Nat), NEW p
    PROVE  /\ IsFiniteSet(Copies(d, p)) /\ Cardinality(Copies(d, p)) \in Nat
           /\ (\A i \in 1 .. Len(d) : d[i] # p) => Cardinality(Copies(d, p)) = 0
<1>1. Len(d) \in Nat
  OBVIOUS
<1>2. IsFiniteSet(1 .. Len(d))
  BY <1>1, FS_Interval
<1>3. Copies(d, p) \subseteq 1 .. Len(d)
  BY DEF Copies
<1>4. IsFiniteSet(Copies(d, p))
  BY <1>2, <1>3, FS_Subset
<1>5. Cardinality(Copies(d, p)) \in Nat
  BY <1>4, FS_CardinalityType
<1>6. ASSUME \A i \in 1 .. Len(d) : d[i] # p PROVE Cardinality(Copies(d, p)) = 0
  <2>1. Copies(d, p) = {}
    BY <1>6 DEF Copies
  <2> QED
    BY <2>1, FS_EmptySet
<1> QED
  BY <1>4, <1>5, <1>6

\* One more packet is delivered.
LEMMA CopiesAppend ==
    ASSUME NEW d \in Seq(Nat), NEW v \in Nat, NEW p
    PROVE  Cardinality(Copies(Append(d, v), p)) =
            IF v = p THEN Cardinality(Copies(d, p)) + 1 ELSE Cardinality(Copies(d, p))
<1> DEFINE e == Append(d, v)
<1>1. /\ Len(e) = Len(d) + 1 /\ Len(d) \in Nat /\ e[Len(d) + 1] = v
      /\ \A i \in 1 .. Len(d) : e[i] = d[i]
  OBVIOUS
<1> HIDE DEF e
<1>2. \A i : i \in 1 .. Len(e) <=> i \in 1 .. Len(d) \/ i = Len(d) + 1
  BY <1>1
<1>3. Len(d) + 1 \notin Copies(d, p)
  <2>1. Len(d) + 1 \notin 1 .. Len(d)
    BY <1>1
  <2> QED
    BY <2>1 DEF Copies
<1>4. CASE v = p
  <2>1. Copies(e, p) = Copies(d, p) \cup {Len(d) + 1}
    BY <1>1, <1>2, <1>4 DEF Copies
  <2> QED
    BY <2>1, <1>3, <1>4, CopiesFacts, FS_AddElement DEF e
<1>5. CASE v # p
  <2>1. Copies(e, p) = Copies(d, p)
    BY <1>1, <1>2, <1>5 DEF Copies
  <2> QED
    BY <2>1, <1>5 DEF e
<1> QED
  BY <1>4, <1>5

\* A packet is about to be sent.
LEMMA LineBegin ==
    ASSUME NEW r \in Seq(Tokens), NEW f \in Seq(Nat), NEW v \in Nat, NEW g, NEW closing,
           NEW busy \in BOOLEAN, NEW x, NEW d \in Seq(Nat), NEW c, NEW any \in BOOLEAN,
           NEW km \in Nat,
           LineOK(r, f, g, closing, busy, x, d, c, any, km)
    PROVE  LineOK(r, Append(f, v), g, FALSE, busy, x, d, c, any, km)
<1> DEFINE h == Append(f, v)
<1>1. /\ Len(h) = Len(f) + 1 /\ Len(f) \in Nat
      /\ \A p \in 1 .. Len(f) : h[p] = f[p]
  BY AppendField
<1>2. RingOK(r, h, g, FALSE)
  BY RingBegin DEF LineOK
<1> HIDE DEF h
<1>3. \A p \in 1 .. Len(f) : p \in 1 .. Len(h)
  BY <1>1
<1>4. HandledOK(r, h, busy, x)
  BY <1>1, <1>3 DEF LineOK, HandledOK
<1>5. OrderOK(r, h, busy, x, d)
  BY <1>3 DEF LineOK, OrderOK
<1>6. Cardinality(Copies(d, Len(f) + 1)) = 0
  <2>1. \A i \in 1 .. Len(d) : d[i] # Len(f) + 1
    BY <1>1 DEF LineOK, OrderOK
  <2> QED
    BY <2>1, CopiesFacts
<1>7. \A p \in 1 .. Len(h) : p \in 1 .. Len(f) \/ p = Len(f) + 1
  BY <1>1
<1>8. CopiesOK(r, h, busy, x, d, c, any, km)
  <2>1. CopiesOK(r, f, busy, x, d, c, any, km)
    BY DEF LineOK
  <2>2. \A p \in 1 .. Len(h) : Cardinality(Copies(d, p)) <= 1 + km
    BY <1>6, <1>7, <2>1 DEF CopiesOK
  <2>3. any => \A p \in 1 .. Len(h) : Cardinality(Copies(d, p)) <= km
    BY <1>6, <1>7, <2>1 DEF CopiesOK
  <2>4. ASSUME ~any
        PROVE  \E q \in 1 .. Len(h) :
                /\ c = h[q]
                /\ \A i \in 1 .. Len(d) : d[i] <= q
                /\ busy => q <= x[1].val
                /\ AtLeast(r, q)
                /\ \A p \in q + 1 .. Len(h) : Cardinality(Copies(d, p)) <= km
    <3>1. PICK q \in 1 .. Len(f) :
                /\ c = f[q]
                /\ \A i \in 1 .. Len(d) : d[i] <= q
                /\ busy => q <= x[1].val
                /\ AtLeast(r, q)
                /\ \A p \in q + 1 .. Len(f) : Cardinality(Copies(d, p)) <= km
      BY <2>1, <2>4 DEF CopiesOK
    <3>2. \A p \in q + 1 .. Len(h) : p \in q + 1 .. Len(f) \/ p = Len(f) + 1
      BY <1>1
    <3>3. \A p \in q + 1 .. Len(h) : Cardinality(Copies(d, p)) <= km
      BY <1>6, <3>1, <3>2
    <3> QED
      BY <1>1, <1>3, <3>1, <3>3
  <2> QED
    BY <2>2, <2>3, <2>4 DEF CopiesOK
<1> QED
  BY <1>2, <1>4, <1>5, <1>8 DEF LineOK, h

\* The peer is about to send a packet.
LEMMA LineBeginPeer ==
    ASSUME NEW r, NEW f, NEW g \in Seq(Nat), NEW v \in Nat, NEW closing,
           NEW busy \in BOOLEAN, NEW x, NEW d, NEW c, NEW any \in BOOLEAN, NEW km,
           LineOK(r, f, g, closing, busy, x, d, c, any, km)
    PROVE  LineOK(r, f, Append(g, v), closing, busy, x, d, c, any, km)
  BY RingBeginPeer DEF LineOK

\* Tokens are put on the line or taken from it.
LEMMA LineRing ==
    ASSUME NEW r, NEW f, NEW g, NEW closing,
           NEW busy \in BOOLEAN, NEW x, NEW d, NEW c, NEW any \in BOOLEAN, NEW km,
           LineOK(r, f, g, closing, busy, x, d, c, any, km),
           NEW s, NEW close2, RingOK(s, f, g, close2),
           \A p \in 1 .. Len(f) : AtLeast(r, p) => AtLeast(s, p)
    PROVE  LineOK(s, f, g, close2, busy, x, d, c, any, km)
<1>1. HandledOK(s, f, busy, x)
  BY DEF LineOK, HandledOK
<1>2. OrderOK(s, f, busy, x, d)
  BY DEF LineOK, OrderOK
<1>3. CopiesOK(s, f, busy, x, d, c, any, km)
  <2>1. CopiesOK(r, f, busy, x, d, c, any, km)
    BY DEF LineOK
  <2>2. ASSUME ~any
        PROVE  \E q \in 1 .. Len(f) :
                /\ c = f[q]
                /\ \A i \in 1 .. Len(d) : d[i] <= q
                /\ busy => q <= x[1].val
                /\ AtLeast(s, q)
                /\ \A p \in q + 1 .. Len(f) : Cardinality(Copies(d, p)) <= km
    <3>1. PICK q \in 1 .. Len(f) :
                /\ c = f[q]
                /\ \A i \in 1 .. Len(d) : d[i] <= q
                /\ busy => q <= x[1].val
                /\ AtLeast(r, q)
                /\ \A p \in q + 1 .. Len(f) : Cardinality(Copies(d, p)) <= km
      BY <2>1, <2>2 DEF CopiesOK
    <3> QED
      BY <3>1
  <2> QED
    BY <2>1, <2>2 DEF CopiesOK
<1> QED
  BY <1>1, <1>2, <1>3 DEF LineOK

\* A whole frame is decoded.
LEMMA LineDecode ==
    ASSUME NEW r \in Seq(Tokens), NEW k \in DOMAIN r, NEW f, NEW g, NEW closing,
           NEW x, NEW d, NEW c, NEW any \in BOOLEAN, NEW km, NEW frame,
           LineOK(r, f, g, closing, FALSE, x, d, c, any, km),
           frame = SubSeq(r, 1, k - 1), Len(frame) = 2,
           IsPacket(frame[1]), IsChecksum(frame[2]), frame[2].val \notin FieldsOf(g)
    PROVE  LineOK(SubSeq(r, k + 1, Len(r)), f, g, closing, TRUE, frame, d, c, any, km)
<1> DEFINE s == SubSeq(r, k + 1, Len(r))
           p == frame[1].val
<1>0. /\ k \in 1 .. Len(r) /\ Len(frame) = k - 1 /\ frame \in Seq(Tokens)
      /\ \A i \in 1 .. k - 1 : frame[i] = r[i]
      /\ Len(s) = Len(r) - k
      /\ \A i \in 1 .. Len(r) - k : s[i] = r[k + i]
  BY DecodeParts, Zenon
<1>00. Len(r) \in Nat
  OBVIOUS
<1>1. k = 3 /\ Len(r) >= 3
  <2>1. Len(frame) = k - 1 /\ k \in 1 .. Len(r)
    BY <1>0, Zenon
  <2> QED
    BY <2>1, <1>00
<1>2. frame[1] = r[1] /\ frame[2] = r[2]
  BY <1>0, <1>1
<1>3. RingOK(s, f, g, closing) /\ \A q : AtLeast(r, q) => AtLeast(s, q)
  BY RingCut DEF LineOK
<1> HIDE DEF s
<1>4. p \in 1 .. Len(f) /\ r[2].val = f[p]
  <2>1. 1 \in 1 .. Len(r) /\ 1 \in 1 .. Len(r) - 1 /\ 1 + 1 = 2
    BY <1>00, <1>1
  <2> QED
    BY <1>2, <2>1 DEF LineOK, RingOK
<1>5. AtLeast(s, p)
  <2>1. ASSUME NEW i \in 1 .. Len(s), IsPacket(s[i]) PROVE p <= s[i].val
    <3>0. Len(s) = Len(r) - k
      BY <1>0, Zenon
    <3>1. k + i \in 1 .. Len(r) /\ 1 \in 1 .. Len(r) /\ i \in 1 .. Len(r) - k
      BY <3>0, <1>00, <1>1
    <3>2. s[i] = r[k + i]
      BY <1>0, <3>1, Zenon
    <3> QED
      BY <1>2, <2>1, <3>1, <3>2 DEF LineOK, RingOK
  <2> QED
    BY <2>1 DEF AtLeast
<1>6. frame = <<Packet(p), Checksum(f[p])>>
  <2>1. frame[1] \in Tokens /\ frame[2] \in Tokens
    BY <1>0
  <2>2. frame[1] = Packet(p)
    BY <2>1, TokenFacts DEF IsPacket
  <2>3. frame[2] = Checksum(frame[2].val)
    BY <2>1, TokenFacts DEF IsChecksum
  <2>4. frame[2].val = f[p]
    BY <1>2, <1>4
  <2>6. \A i \in 1 .. Len(frame) : i = 1 \/ i = 2
    OBVIOUS
  <2>7. frame = <<frame[1], frame[2]>>
    <3> DEFINE w == <<frame[1], frame[2]>>
    <3>1. w \in Seq(Tokens) /\ Len(w) = 2 /\ w[1] = frame[1] /\ w[2] = frame[2]
      BY <2>1
    <3> HIDE DEF w
    <3>2. \A i \in 1 .. Len(frame) : frame[i] = w[i]
      BY <2>6, <3>1
    <3>3. frame \in Seq(Tokens) /\ Len(frame) = Len(w)
      BY <1>0, <3>1
    <3>4. frame = w
      BY <3>1, <3>2, <3>3, SameSeq, Zenon
    <3> QED
      BY <3>4 DEF w
  <2> QED
    BY <2>2, <2>3, <2>4, <2>7, Zenon
<1>7. HandledOK(s, f, TRUE, frame)
  BY <1>4, <1>5, <1>6 DEF HandledOK
<1>8. \A q : AtLeast(r, q) => q <= p
  BY <1>00, <1>1, <1>2 DEF AtLeast
<1>9. OrderOK(s, f, TRUE, frame, d)
  BY <1>3, <1>8 DEF LineOK, OrderOK
<1>10. CopiesOK(s, f, TRUE, frame, d, c, any, km)
  <2>1. CopiesOK(r, f, FALSE, x, d, c, any, km)
    BY DEF LineOK
  <2>2. ASSUME ~any
        PROVE  \E q \in 1 .. Len(f) :
                /\ c = f[q]
                /\ \A i \in 1 .. Len(d) : d[i] <= q
                /\ TRUE => q <= frame[1].val
                /\ AtLeast(s, q)
                /\ \A y \in q + 1 .. Len(f) : Cardinality(Copies(d, y)) <= km
    <3>1. PICK q \in 1 .. Len(f) :
                /\ c = f[q]
                /\ \A i \in 1 .. Len(d) : d[i] <= q
                /\ AtLeast(r, q)
                /\ \A y \in q + 1 .. Len(f) : Cardinality(Copies(d, y)) <= km
      BY <2>1, <2>2 DEF CopiesOK
    <3> QED
      BY <3>1, <1>3, <1>8
  <2> QED
    BY <2>1, <2>2 DEF CopiesOK
<1> QED
  BY <1>3, <1>7, <1>9, <1>10 DEF LineOK, s

\* A packet is handed over, or rejected as a duplicate.
LEMMA LineDeliver ==
    ASSUME NEW r, NEW f \in Seq(Nat), NEW g, NEW closing,
           NEW x, NEW d \in Seq(Nat), NEW c, NEW any \in BOOLEAN, NEW km \in Nat,
           LineOK(r, f, g, closing, TRUE, x, d, c, any, km), NEW y, NEW e,
           e = IF ~any /\ c = x[2].val THEN d ELSE Append(d, x[1].val)
    PROVE  LineOK(r, f, g, closing, FALSE, y, e, x[2].val, FALSE, km)
<1> DEFINE p == x[1].val
<1>1. p \in 1 .. Len(f) /\ x = <<Packet(p), Checksum(f[p])>> /\ AtLeast(r, p)
  BY DEF LineOK, HandledOK
<1>2. x[2].val = f[p]
  BY <1>1, TokenFacts
<1>n. Len(d) \in Nat /\ Len(f) \in Nat /\ p \in Nat
  BY <1>1
<1>3. OrderOK(r, f, TRUE, x, d) /\ CopiesOK(r, f, TRUE, x, d, c, any, km)
      /\ RingOK(r, f, g, closing)
  BY DEF LineOK
<1>4. \A i \in 1 .. Len(d) : d[i] <= p /\ d[i] \in 1 .. Len(f) /\ AtLeast(r, d[i])
  BY <1>3 DEF OrderOK
<1>c. \A q : Cardinality(Copies(d, q)) \in Nat
  BY CopiesFacts
<1>5. CASE ~any /\ c = x[2].val
  <2>0. e = d
    BY <1>5
  <2>1. OrderOK(r, f, FALSE, y, d)
    BY <1>3 DEF OrderOK
  <2>2. PICK q \in 1 .. Len(f) :
                /\ c = f[q]
                /\ \A i \in 1 .. Len(d) : d[i] <= q
                /\ q <= x[1].val
                /\ AtLeast(r, q)
                /\ \A z \in q + 1 .. Len(f) : Cardinality(Copies(d, z)) <= km
    BY <1>3, <1>5 DEF CopiesOK
  <2>3. \A z \in p + 1 .. Len(f) : Cardinality(Copies(d, z)) <= km
    <3>1. \A z \in p + 1 .. Len(f) : z \in q + 1 .. Len(f)
      BY <1>n, <2>2
    <3> QED
      BY <2>2, <3>1
  <2>4. CopiesOK(r, f, FALSE, y, d, x[2].val, FALSE, km)
    BY <1>1, <1>2, <1>3, <1>4, <2>3 DEF CopiesOK
  <2> QED
    BY <1>3, <2>0, <2>1, <2>4 DEF LineOK, HandledOK
<1>6. CASE ~(~any /\ c = x[2].val)
  <2>0. e = Append(d, p)
    BY <1>6
  <2>1. /\ Len(e) = Len(d) + 1 /\ e[Len(d) + 1] = p
        /\ \A i \in 1 .. Len(d) : e[i] = d[i]
    BY <2>0, <1>n
  <2>2. \A i \in 1 .. Len(e) : i \in 1 .. Len(d) \/ i = Len(d) + 1
    BY <2>1, <1>n
  <2>3. \A i \in 1 .. Len(e) : e[i] <= p /\ e[i] \in 1 .. Len(f) /\ AtLeast(r, e[i])
    BY <1>1, <1>4, <1>n, <2>1, <2>2
  <2>4. ASSUME NEW i \in 1 .. Len(e), NEW j \in i .. Len(e) PROVE e[i] <= e[j]
    <3>1. CASE j \in 1 .. Len(d)
      <4>1. i \in 1 .. Len(d) /\ j \in i .. Len(d)
        BY <3>1, <1>n
      <4>2. e[i] = d[i] /\ e[j] = d[j]
        BY <2>1, <3>1, <4>1
      <4> QED
        BY <1>3, <4>1, <4>2 DEF OrderOK
    <3>2. CASE j = Len(d) + 1
      BY <2>1, <2>3, <3>2
    <3>3. j \in 1 .. Len(e)
      BY <2>1, <1>n
    <3> QED
      BY <2>2, <3>1, <3>2, <3>3
  <2>5. OrderOK(r, f, FALSE, y, e)
    BY <2>3, <2>4 DEF OrderOK
  <2>6. Cardinality(Copies(d, p)) <= km
    <3>1. CASE any
      BY <3>1, <1>1, <1>3 DEF CopiesOK
    <3>2. CASE ~any
      <4>1. PICK q \in 1 .. Len(f) :
                /\ c = f[q] /\ q <= x[1].val
                /\ \A z \in q + 1 .. Len(f) : Cardinality(Copies(d, z)) <= km
        BY <1>3, <3>2 DEF CopiesOK
      <4>2. q # p
        BY <1>2, <1>6, <3>2, <4>1
      <4>3. p \in q + 1 .. Len(f)
        BY <1>1, <1>n, <4>1, <4>2
      <4> QED
        BY <4>1, <4>3
    <3> QED
      BY <3>1, <3>2
  <2>7. \A q : Cardinality(Copies(e, q)) =
            IF p = q THEN Cardinality(Copies(d, q)) + 1 ELSE Cardinality(Copies(d, q))
    BY <2>0, <1>n, CopiesAppend
  <2>8. \A q \in 1 .. Len(f) : Cardinality(Copies(d, q)) <= 1 + km
    BY <1>3 DEF CopiesOK
  <2>9. \A q \in 1 .. Len(f) : Cardinality(Copies(e, q)) <= 1 + km
    <3>1. TAKE q \in 1 .. Len(f)
    <3>2. CASE p = q
      <4>1. Cardinality(Copies(e, q)) = Cardinality(Copies(d, p)) + 1
        BY <2>7, <3>2
      <4>2. Cardinality(Copies(d, p)) \in Nat
        BY <1>c
      <4> QED
        BY <4>1, <4>2, <2>6
    <3>3. CASE p # q
      BY <2>7, <2>8, <3>3
    <3> QED
      BY <3>2, <3>3
  <2>10. \A z \in p + 1 .. Len(f) : Cardinality(Copies(e, z)) <= km
    <3>1. TAKE z \in p + 1 .. Len(f)
    <3>2. z # p /\ \A i \in 1 .. Len(d) : d[i] # z
      BY <1>4, <1>n
    <3>3. Cardinality(Copies(d, z)) = 0
      BY <3>2, CopiesFacts
    <3> QED
      BY <2>7, <3>2, <3>3
  <2>11. CopiesOK(r, f, FALSE, y, e, x[2].val, FALSE, km)
    BY <1>1, <1>2, <2>3, <2>9, <2>10 DEF CopiesOK
  <2> QED
    BY <1>3, <2>5, <2>11 DEF LineOK, HandledOK
<1> QED
  BY <1>5, <1>6

\* The peer restarts.
LEMMA LineRestart ==
    ASSUME NEW r, NEW f \in Seq(Nat), NEW g, NEW closing,
           NEW busy \in BOOLEAN, NEW x, NEW d \in Seq(Nat), NEW c, NEW any \in BOOLEAN,
           NEW km \in Nat,
           LineOK(r, f, g, closing, busy, x, d, c, any, km), NEW y, NEW c2
    PROVE  LineOK(<<>>, f, g, closing, FALSE, y, d, c2, TRUE, km + 1)
<1>1. RingOK(<<>>, f, g, closing)
  BY DEF RingOK
<1>2. \A p : AtLeast(<<>>, p)
  BY DEF AtLeast
<1>3. OrderOK(<<>>, f, FALSE, y, d)
  BY <1>2 DEF LineOK, OrderOK
<1>4. CopiesOK(<<>>, f, FALSE, y, d, c2, TRUE, km + 1)
  <2>1. \A p \in 1 .. Len(f) : Cardinality(Copies(d, p)) <= km + 1
                               /\ Cardinality(Copies(d, p)) \in Nat
    BY CopiesFacts DEF LineOK, CopiesOK
  <2> QED
    BY <2>1 DEF CopiesOK
<1> QED
  BY <1>1, <1>3, <1>4 DEF LineOK, HandledOK

\* The fields of the two nodes differ, and no field of the peer passes for
\* that of a packet of n.
LEMMA FieldsApart ==
    ASSUME CrcApart, RpcBase, NEW n \in Nodes
    PROVE  /\ \A p \in 1 .. Len(fields[n]) : \A v \in FieldsOf(fields[Peer(n)]) :
                CrcOf(v) # Crc(n, p)
           /\ FieldsOf(fields[n]) \cap FieldsOf(fields[Peer(n)]) = {}
<1> DEFINE m == Peer(n)
<1>1. m \in Nodes
  BY PeerFacts
<1>2. \A k \in Nodes : /\ Len(fields[k]) <= MaxSends[k] /\ MaxSends[k] \in Nat
                       /\ Len(fields[k]) \in Nat
                       /\ \A p \in 1 .. Len(fields[k]) : CrcOf(fields[k][p]) = Crc(k, p)
  <2>1. TAKE k \in Nodes
  <2>2. MaxSends[k] \in Nat
    BY RpcUartAssumption
  <2>3. fields[k] \in Seq(Nat)
    BY DEF RpcBase, RpcTypes
  <2>4. Len(fields[k]) <= MaxSends[k]
        /\ \A p \in 1 .. Len(fields[k]) : CrcOf(fields[k][p]) = Crc(k, p)
    BY DEF RpcBase, RpcControl, ControlOK
  <2>5. Len(fields[k]) \in Nat
    BY <2>3
  <2> QED
    BY <2>2, <2>4, <2>5
<1>3. \A k \in Nodes : \A p \in 1 .. Len(fields[k]) : p \in 1 .. MaxSends[k]
  BY <1>2
<1>4. ASSUME NEW p \in 1 .. Len(fields[n]), NEW v \in FieldsOf(fields[m])
      PROVE  CrcOf(v) # Crc(n, p)
  <2>1. PICK q \in 1 .. Len(fields[m]) : v = fields[m][q]
    BY DEF FieldsOf
  <2>2. CrcOf(v) = Crc(m, q)
    BY <2>1, <1>1, <1>2
  <2>3. Crc(n, p) # Crc(m, q)
    BY <1>1, <1>3 DEF CrcApart
  <2> QED
    BY <2>2, <2>3
<1>5. ASSUME NEW v \in FieldsOf(fields[n]), v \in FieldsOf(fields[m]) PROVE FALSE
  <2>1. PICK p \in 1 .. Len(fields[n]) : v = fields[n][p]
    BY DEF FieldsOf
  <2>2. CrcOf(v) = Crc(n, p)
    BY <2>1, <1>2
  <2> QED
    BY <1>4, <1>5, <2>2
<1> QED
  BY <1>4, <1>5

\* What a node acknowledges is a field of its peer.
LEMMA AckedField ==
    ASSUME RpcBase, NEW n \in Nodes, Line(Peer(n)), work[n] # "decode"
    PROVE  /\ rx_packet[n][2].val \in FieldsOf(fields[Peer(n)])
           /\ IsChecksum(rx_packet[n][2]) /\ ~IsPacket(rx_packet[n][2])
           /\ rx_packet[n][1].val \in 1 .. Len(fields[Peer(n)])
           /\ rx_packet[n][1] = Packet(rx_packet[n][1].val)
           /\ rx_packet[n][2] = Checksum(fields[Peer(n)][rx_packet[n][1].val])
<1>1. Peer(Peer(n)) = n
  BY PeerFacts
<1> DEFINE x == rx_packet[n]
           f == fields[Peer(n)]
<1>2. x[1].val \in 1 .. Len(f) /\ x = <<Packet(x[1].val), Checksum(f[x[1].val])>>
  BY <1>1 DEF Line, LineOK, HandledOK
<1>3. x[1] = Packet(x[1].val) /\ x[2] = Checksum(f[x[1].val])
  BY <1>2
<1>4. x[2].val = f[x[1].val] /\ x[2].kind = "CHECKSUM"
  BY <1>3, TokenFacts
<1> QED
  BY <1>2, <1>3, <1>4 DEF FieldsOf, IsPacket, IsChecksum

\* Every step keeps the line right.
LEMMA LineStep ==
    ASSUME CrcApart, RpcBase, NEW n \in Nodes, \A k \in Nodes : Line(k),
           [RpcNext]_rpcVars, altered' = 0
    PROVE  Line(n)'
<1> DEFINE m == Peer(n)
           r == ring[m]
           f == fields[n]
           g == fields[m]
           closing == send[n].pc = "close"
           busy == work[m] # "decode"
           x == rx_packet[m]
           d == delivered[n]
           c == last_rx_crc[m]
           any == rx_flip_any[m]
           km == restarts[m]
<1>p. m \in Nodes /\ m # n /\ Peer(m) = n /\ \A k \in Nodes : k = n \/ k = m
  BY PeerFacts, Zenon
<1>r. ring \in [Nodes -> Seq(Tokens)] /\ lost \in Nat /\ altered \in Nat /\ r \in Seq(Tokens)
  BY <1>p DEF RpcBase, RpcTypes
<1>f. fields \in [Nodes -> Seq(Nat)] /\ f \in Seq(Nat) /\ g \in Seq(Nat)
  BY <1>p DEF RpcBase, RpcTypes
<1>s. send \in [Nodes -> [pc : {"idle", "attempt", "close", "wait"},
                          attempts : 0 .. TxAttempts]]
  BY DEF RpcBase, RpcTypes
<1>w. work \in [Nodes -> {"decode", "ack", "ack_close", "deliver"}]
      /\ rx_packet \in [Nodes -> Seq(Tokens)]
  BY DEF RpcBase, RpcTypes
<1>d. delivered \in [Nodes -> Seq(Nat)] /\ d \in Seq(Nat)
  BY DEF RpcBase, RpcTypes
<1>l. /\ last_rx_crc \in [Nodes -> Nat] /\ rx_flip_any \in [Nodes -> BOOLEAN]
      /\ restarts \in [Nodes -> Nat] /\ any \in BOOLEAN /\ km \in Nat
  BY <1>p DEF RpcBase, RpcTypes
<1>c. \A k \in Nodes : ControlOK(k, send[k].pc, send[k].attempts, ack_tx_lock[k], work[k],
                                 fields[k], results[k], ack_payload[k], rx_packet[k])
  BY DEF RpcBase, RpcControl
<1>o. LineOK(r, f, g, closing, busy, x, d, c, any, km)
  BY DEF Line
<1>goal. Line(n)' <=> LineOK(ring'[m], fields'[n], fields'[m], send'[n].pc = "close",
                             work'[m] # "decode", rx_packet'[m], delivered'[n],
                             last_rx_crc'[m], rx_flip_any'[m], restarts'[m])
  BY DEF Line
<1> HIDE DEF m, r, f, g, closing, busy, x, d, c, any, km
<1>b. busy \in BOOLEAN /\ closing \in BOOLEAN
  BY DEF busy, closing
\* Only the tokens on the line change, and what n does.
<1>ring. ASSUME NEW s, NEW close2, ring'[m] = s, fields'[n] = f, fields'[m] = g,
                (send'[n].pc = "close") = close2, (work'[m] # "decode") = busy,
                rx_packet'[m] = x, delivered'[n] = d, last_rx_crc'[m] = c,
                rx_flip_any'[m] = any, restarts'[m] = km,
                RingOK(s, f, g, close2),
                \A p \in 1 .. Len(f) : AtLeast(r, p) => AtLeast(s, p)
         PROVE  Line(n)'
  <2>1. LineOK(s, f, g, close2, busy, x, d, c, any, km)
    BY <1>o, <1>b, <1>l, <1>ring, LineRing
  <2> QED
    BY <2>1, <1>ring, <1>goal
<1>same. ASSUME ring'[m] = r, fields'[n] = f, fields'[m] = g,
                (send'[n].pc = "close") = closing, (work'[m] # "decode") = busy,
                rx_packet'[m] = x, delivered'[n] = d, last_rx_crc'[m] = c,
                rx_flip_any'[m] = any, restarts'[m] = km
         PROVE  Line(n)'
  BY <1>same, <1>goal, <1>o
<1>0. CASE UNCHANGED rpcVars
  BY <1>0, <1>same DEF rpcVars, sendVars, rxVars, r, f, g, closing, busy, x, d, c, any, km
<1>1. CASE SendBegins(n)
  <2>1. PICK v \in Nat : fields'[n] = Append(f, v)
    <3>1. fields'[n] \in Seq(Nat)
      BY TypesStep DEF RpcTypes
    <3>2. PICK v : fields'[n] = Append(f, v)
      BY <1>1, <1>f DEF SendBegins, f
    <3>3. Len(f) + 1 \in 1 .. Len(fields'[n]) /\ fields'[n][Len(f) + 1] = v
      BY <3>2, <1>f
    <3> QED
      BY <3>1, <3>2, <3>3
  <2>2. /\ fields'[m] = g /\ send'[n].pc # "close"
        /\ ring' = ring /\ work' = work /\ delivered' = delivered
        /\ rx_packet' = rx_packet /\ last_rx_crc' = last_rx_crc
        /\ rx_flip_any' = rx_flip_any /\ restarts' = restarts
    BY <1>1, <1>f, <1>s, <1>p DEF SendBegins, rxVars, g
  <2>3. LineOK(r, Append(f, v), g, FALSE, busy, x, d, c, any, km)
    <3>1. /\ r \in Seq(Tokens) /\ f \in Seq(Nat) /\ v \in Nat /\ d \in Seq(Nat)
          /\ busy \in BOOLEAN /\ any \in BOOLEAN /\ km \in Nat
      BY <1>b, <1>r, <1>f, <1>d, <1>l
    <3> QED
      BY <1>o, <3>1, LineBegin, Zenon
  <2> QED
    BY <2>1, <2>2, <2>3, <1>goal DEF r, busy, x, d, c, any, km
<1>2. CASE SendBegins(m)
  <2>1. PICK v \in Nat : fields'[m] = Append(g, v)
    <3>1. fields'[m] \in Seq(Nat)
      BY TypesStep, <1>p DEF RpcTypes
    <3>2. PICK v : fields'[m] = Append(g, v)
      BY <1>2, <1>f, <1>p DEF SendBegins, g
    <3>3. Len(g) + 1 \in 1 .. Len(fields'[m]) /\ fields'[m][Len(g) + 1] = v
      BY <3>2, <1>f
    <3> QED
      BY <3>1, <3>2, <3>3
  <2>2. /\ fields'[n] = f /\ send'[n] = send[n]
        /\ ring' = ring /\ work' = work /\ delivered' = delivered
        /\ rx_packet' = rx_packet /\ last_rx_crc' = last_rx_crc
        /\ rx_flip_any' = rx_flip_any /\ restarts' = restarts
    BY <1>2, <1>f, <1>s, <1>p DEF SendBegins, rxVars, f
  <2>3. LineOK(r, f, Append(g, v), closing, busy, x, d, c, any, km)
    BY <1>o, <1>b, <1>f, <1>l, LineBeginPeer
  <2> QED
    BY <2>1, <2>2, <2>3, <1>goal DEF r, busy, x, d, c, any, km, closing
\* n writes.
<1>3. CASE SendAttempt(n)
  <2>0. /\ fields' = fields /\ work' = work /\ delivered' = delivered
        /\ rx_packet' = rx_packet /\ last_rx_crc' = last_rx_crc
        /\ rx_flip_any' = rx_flip_any /\ restarts' = restarts
        /\ send[n].pc = "attempt" /\ Emit(n, <<Delimiter, Packet(Len(f))>>)
    BY <1>3 DEF SendAttempt, rxVars, SendAt, f
  <2>1. Len(f) >= 1
    <3>1. Len(f) = Len(results[n]) + 1 /\ Len(results[n]) \in Nat
      BY <1>c, <2>0 DEF ControlOK, RpcBase, RpcTypes, f
    <3> QED
      BY <3>1
  <2>2. Delimiter \in Tokens /\ Packet(Len(f)) \in Tokens
    BY <1>f, TokenFacts
  <2>3. Fits(Delimiter, f, g, closing) /\ Fits(Packet(Len(f)), f, g, FALSE)
    BY <2>1, TokenFacts DEF Fits, IsPacket, IsChecksum
  <2>4. PICK us \in PairOf(Delimiter, Packet(Len(f))) :
            us \in Seq(Tokens) /\ ring' = [ring EXCEPT ![m] = @ \o us]
    BY <2>0, <2>2, <1>r, EmitPairTrue DEF m
  <2>5. ring'[m] = r \o us
    BY <2>4, <1>p, <1>r DEF r
  <2>6. /\ \A close2 : RingOK(r \o us, f, g, close2)
        /\ \A p \in 1 .. Len(f) : AtLeast(r, p) => AtLeast(r \o us, p)
    BY <1>o, <1>b, <1>r, <1>f, <2>2, <2>3, <2>4, RingPair DEF LineOK
  <2> QED
    BY <2>0, <2>5, <2>6, <1>ring DEF f, g, busy, x, d, c, any, km
<1>4. CASE SendClose(n)
  <2>0. /\ fields' = fields /\ work' = work /\ delivered' = delivered
        /\ rx_packet' = rx_packet /\ last_rx_crc' = last_rx_crc
        /\ rx_flip_any' = rx_flip_any /\ restarts' = restarts
        /\ send[n].pc = "close" /\ Emit(n, <<Checksum(ack_payload[n]), Delimiter>>)
    BY <1>4 DEF SendClose, rxVars, SendAt
  <2>1. Len(f) >= 1 /\ ack_payload[n] = f[Len(f)]
    <3>1. Len(f) = Len(results[n]) + 1 /\ Len(results[n]) \in Nat
          /\ ack_payload[n] = f[Len(f)]
      BY <1>c, <2>0 DEF ControlOK, RpcBase, RpcTypes, f
    <3> QED
      BY <3>1
  <2>2. Delimiter \in Tokens /\ Checksum(ack_payload[n]) \in Tokens
    BY Written, TokenFacts
  <2>3. Fits(Checksum(ack_payload[n]), f, g, closing) /\ Fits(Delimiter, f, g, FALSE)
    BY <2>0, <2>1, TokenFacts DEF Fits, IsPacket, IsChecksum, closing
  <2>4. PICK us \in PairOf(Checksum(ack_payload[n]), Delimiter) :
            us \in Seq(Tokens) /\ ring' = [ring EXCEPT ![m] = @ \o us]
    BY <2>0, <2>2, <1>r, EmitPairTrue DEF m
  <2>5. ring'[m] = r \o us
    BY <2>4, <1>p, <1>r DEF r
  <2>6. /\ \A close2 : RingOK(r \o us, f, g, close2)
        /\ \A p \in 1 .. Len(f) : AtLeast(r, p) => AtLeast(r \o us, p)
    BY <1>o, <1>b, <1>r, <1>f, <2>2, <2>3, <2>4, RingPair DEF LineOK
  <2> QED
    BY <2>0, <2>5, <2>6, <1>ring DEF f, g, busy, x, d, c, any, km
<1>5. CASE AckOpen(n)
  <2>0. /\ fields' = fields /\ work'[m] = work[m] /\ delivered' = delivered
        /\ rx_packet' = rx_packet /\ last_rx_crc' = last_rx_crc
        /\ rx_flip_any' = rx_flip_any /\ restarts' = restarts
        /\ work[n] = "ack" /\ Emit(n, <<Delimiter, rx_packet[n][2]>>)
    BY <1>5, <1>p, <1>w DEF AckOpen, rxVars, WorkAt, WorkGoto
  <2>2. Delimiter \in Tokens /\ rx_packet[n][2] \in Tokens
    BY <2>0, Written, TokenFacts
  <2>1. rx_packet[n][2].val \in FieldsOf(g) /\ ~IsPacket(rx_packet[n][2])
    BY <2>0, <1>p, AckedField DEF g, m
  <2>3. Fits(Delimiter, f, g, closing) /\ Fits(rx_packet[n][2], f, g, FALSE)
    BY <2>1, TokenFacts DEF Fits, IsPacket, IsChecksum
  <2>4. PICK us \in PairOf(Delimiter, rx_packet[n][2]) :
            us \in Seq(Tokens) /\ ring' = [ring EXCEPT ![m] = @ \o us]
    BY <2>0, <2>2, <1>r, EmitPairTrue DEF m
  <2>5. ring'[m] = r \o us
    BY <2>4, <1>p, <1>r DEF r
  <2>6. /\ \A close2 : RingOK(r \o us, f, g, close2)
        /\ \A p \in 1 .. Len(f) : AtLeast(r, p) => AtLeast(r \o us, p)
    BY <1>o, <1>b, <1>r, <1>f, <2>2, <2>3, <2>4, RingPair DEF LineOK
  <2> QED
    BY <2>0, <2>5, <2>6, <1>ring DEF f, g, busy, x, d, c, any, km
<1>6. CASE AckClose(n)
  <2>0. /\ fields' = fields /\ work'[m] = work[m] /\ delivered' = delivered
        /\ rx_packet' = rx_packet /\ last_rx_crc' = last_rx_crc
        /\ rx_flip_any' = rx_flip_any /\ restarts' = restarts /\ send' = send
        /\ work[n] = "ack_close" /\ Emit(n, <<Delimiter>>)
    BY <1>6, <1>p, <1>w DEF AckClose, rxVars, WorkAt, WorkGoto, sendVars
  <2>2. Delimiter \in Tokens /\ Damaged \in Tokens
    BY TokenFacts
  <2>3. Fits(Delimiter, f, g, closing) /\ Fits(Damaged, f, g, closing)
    BY TokenFacts DEF Fits, IsPacket, IsChecksum
  <2>4. PICK us \in {<<Delimiter>>, <<>>, <<Damaged>>} :
            us \in Seq(Tokens) /\ ring' = [ring EXCEPT ![m] = @ \o us]
    BY <2>0, <2>2, <1>r, EmitOne, TokenFacts DEF m
  <2>5. ring'[m] = r \o us
    BY <2>4, <1>p, <1>r DEF r
  <2>6. /\ RingOK(r \o us, f, g, closing)
        /\ \A p \in 1 .. Len(f) : AtLeast(r, p) => AtLeast(r \o us, p)
    <3>1. RingOK(r, f, g, closing)
      BY <1>o DEF LineOK
    <3>2. CASE us = <<>>
      <4>1. r \o us = r
        BY <3>2, <1>r
      <4> QED
        BY <3>1, <4>1
    <3>3. CASE us = <<Delimiter>>
      BY <1>b, <1>r, <1>f, <2>2, <2>3, <3>1, <3>3, RingToken
    <3>4. CASE us = <<Damaged>>
      BY <1>b, <1>r, <1>f, <2>2, <2>3, <3>1, <3>4, RingToken
    <3> QED
      BY <2>4, <3>2, <3>3, <3>4
  <2> QED
    BY <2>0, <2>5, <2>6, <1>ring DEF f, g, busy, x, d, c, any, km, closing
\* Steps that do not concern the line from n to m.
<1>7. CASE SendAcked(n) \/ SendTimesOut(n)
  <2>1. /\ fields' = fields /\ work' = work /\ delivered' = delivered /\ ring' = ring
        /\ rx_packet' = rx_packet /\ last_rx_crc' = last_rx_crc
        /\ rx_flip_any' = rx_flip_any /\ restarts' = restarts
        /\ send[n].pc = "wait"
    BY <1>7 DEF SendAcked, SendTimesOut, SendAt, rxVars
  <2>2. send'[n].pc # "close"
    <3>1. CASE SendAcked(n)
      BY <3>1, <1>s DEF SendAcked, SendReturns
    <3>2. CASE SendTimesOut(n)
      BY <3>2, <1>s DEF SendTimesOut, SendReturns, SendGoto
    <3> QED
      BY <1>7, <3>1, <3>2
  <2> QED
    BY <2>1, <2>2, <1>same DEF r, f, g, busy, x, d, c, any, km, closing
<1>8. CASE Decode(n) \/ Deliver(n)
  <2>1. /\ fields' = fields /\ restarts' = restarts /\ send' = send
    BY <1>8 DEF Decode, Deliver, sendVars
  <2>2. CASE Decode(n)
    <3>1. /\ ring'[m] = ring[m] /\ work'[m] = work[m] /\ rx_packet'[m] = rx_packet[m]
      BY <2>2, <1>p, <1>r, <1>w DEF Decode, WorkGoto
    <3>2. /\ delivered' = delivered /\ last_rx_crc' = last_rx_crc
          /\ rx_flip_any' = rx_flip_any
      BY <2>2 DEF Decode
    <3> QED
      BY <2>1, <3>1, <3>2, <1>same DEF r, f, g, busy, x, d, c, any, km, closing
  <2>3. CASE Deliver(n)
    <3>1. /\ ring' = ring /\ work'[m] = work[m] /\ rx_packet'[m] = rx_packet[m]
      BY <2>3, <1>p, <1>w DEF Deliver, WorkGoto
    <3>2. last_rx_crc'[m] = last_rx_crc[m] /\ rx_flip_any'[m] = rx_flip_any[m]
      BY <2>3, <1>p, <1>l DEF Deliver
    <3>3. delivered'[n] = delivered[n]
      <4>1. delivered' = delivered \/ \E v : delivered' = [delivered EXCEPT ![m] = v]
        BY <2>3 DEF Deliver, m
      <4> QED
        BY <4>1, <1>p, <1>d
    <3> QED
      BY <2>1, <3>1, <3>2, <3>3, <1>same DEF r, f, g, busy, x, d, c, any, km, closing
  <2> QED
    BY <1>8, <2>2, <2>3
<1>9. CASE Restart(n)
  <2>1. /\ ring'[m] = ring[m] /\ work'[m] = work[m] /\ rx_packet'[m] = rx_packet[m]
    BY <1>9, <1>p, <1>r, <1>w DEF Restart
  <2>2. /\ last_rx_crc'[m] = last_rx_crc[m] /\ rx_flip_any'[m] = rx_flip_any[m]
        /\ restarts'[m] = restarts[m]
    BY <1>9, <1>p, <1>l DEF Restart
  <2>3. fields' = fields /\ delivered' = delivered
    BY <1>9 DEF Restart
  <2>4. (send'[n].pc = "close") = FALSE
    BY <1>9, <1>s DEF Restart
  <2>5. RingOK(r, f, g, FALSE)
    BY <1>o DEF LineOK, RingOK
  <2> QED
    BY <2>1, <2>2, <2>3, <2>4, <2>5, <1>ring DEF r, f, g, busy, x, d, c, any, km
<1>10. CASE SendAttempt(m) \/ SendClose(m) \/ SendAcked(m) \/ SendTimesOut(m)
            \/ AckOpen(m) \/ AckClose(m)
  <2>1. /\ fields' = fields /\ delivered' = delivered
        /\ rx_packet' = rx_packet /\ last_rx_crc' = last_rx_crc
        /\ rx_flip_any' = rx_flip_any /\ restarts' = restarts
    BY <1>10 DEF SendAttempt, SendClose, SendAcked, SendTimesOut, AckOpen, AckClose, rxVars
  <2>2. send'[n] = send[n]
    <3>1. CASE SendAttempt(m) \/ SendClose(m) \/ SendAcked(m)
      BY <3>1, <1>p, <1>s DEF SendAttempt, SendClose, SendAcked, SendGoto, SendReturns
    <3>2. CASE SendTimesOut(m)
      BY <3>2, <1>p, <1>s DEF SendTimesOut, SendGoto, SendReturns
    <3>3. CASE AckOpen(m) \/ AckClose(m)
      BY <3>3 DEF AckOpen, AckClose, sendVars
    <3> QED
      BY <1>10, <3>1, <3>2, <3>3
  <2>3. (work'[m] # "decode") = busy
    BY <1>10, <1>p, <1>w DEF SendAttempt, SendClose, SendAcked, SendTimesOut, AckOpen,
                             AckClose, WorkAt, WorkGoto, busy
  <2>4. ring'[m] = ring[m]
    <3>1. CASE SendAcked(m) \/ SendTimesOut(m)
      BY <3>1 DEF SendAcked, SendTimesOut
    <3>2. CASE \E ts : Emit(m, ts)
      <4>1. PICK v : ring' = [ring EXCEPT ![Peer(m)] = v]
        BY <3>2 DEF Emit
      <4> QED
        BY <4>1, <1>p, <1>r
    <3> QED
      BY <1>10, <3>1, <3>2 DEF SendAttempt, SendClose, AckOpen, AckClose
  <2> QED
    BY <2>1, <2>2, <2>3, <2>4, <1>same DEF r, f, g, x, d, c, any, km, closing
<1>11. CASE Decode(m)
  <2>1. PICK k \in DOMAIN r :
            /\ ring' = [ring EXCEPT ![m] = SubSeq(r, k + 1, Len(r))]
            /\ \/ /\ FrameValid(m, SubSeq(r, 1, k - 1))
                  /\ work' = [work EXCEPT ![m] = "ack"]
                  /\ rx_packet' = [rx_packet EXCEPT ![m] = SubSeq(r, 1, k - 1)]
               \/ work' = work /\ rx_packet' = rx_packet
    BY <1>11, <1>p, DecodeFacts DEF r
  <2>2. /\ fields' = fields /\ delivered' = delivered /\ send' = send
        /\ last_rx_crc' = last_rx_crc /\ rx_flip_any' = rx_flip_any
        /\ restarts' = restarts /\ work[m] = "decode"
    BY <1>11 DEF Decode, sendVars, WorkAt
  <2>3. ring'[m] = SubSeq(r, k + 1, Len(r))
    BY <2>1, <1>p, <1>r
  <2>4. CASE work' = work /\ rx_packet' = rx_packet
    <3>1. /\ RingOK(SubSeq(r, k + 1, Len(r)), f, g, closing)
          /\ \A p : AtLeast(r, p) => AtLeast(SubSeq(r, k + 1, Len(r)), p)
      BY <1>o, <1>r, RingCut DEF LineOK
    <3> QED
      BY <2>2, <2>3, <2>4, <3>1, <1>ring DEF f, g, busy, x, d, c, any, km, closing
  <2>5. CASE /\ FrameValid(m, SubSeq(r, 1, k - 1))
             /\ work' = [work EXCEPT ![m] = "ack"]
             /\ rx_packet' = [rx_packet EXCEPT ![m] = SubSeq(r, 1, k - 1)]
    <3> DEFINE frame == SubSeq(r, 1, k - 1)
    <3>1. work'[m] = "ack" /\ rx_packet'[m] = frame
      BY <2>5, <1>p, <1>w
    <3>2. /\ Len(frame) = 2 /\ IsPacket(frame[1]) /\ IsChecksum(frame[2])
          /\ CrcOf(frame[2].val) = Crc(n, frame[1].val)
      BY <2>5, <1>p DEF FrameValid, IsPacket, IsChecksum
    <3>3. ~busy
      BY <2>2 DEF busy
    <3>4. frame[1].val \in 1 .. Len(f)
      <4>1. /\ k \in 1 .. Len(r) /\ Len(frame) = k - 1
            /\ \A i \in 1 .. k - 1 : frame[i] = r[i]
        BY <1>r, DecodeParts, Zenon
      <4>2. 1 \in 1 .. k - 1 /\ 1 \in 1 .. Len(r)
        <5>1. k \in 1 .. Len(r) /\ 2 = k - 1
          BY <4>1, <3>2, Zenon
        <5> QED
          BY <5>1
      <4>3. frame[1] = r[1]
        BY <4>1, <4>2, Zenon
      <4> HIDE DEF frame
      <4> QED
        BY <3>2, <4>2, <4>3, <1>o DEF LineOK, RingOK
    <3> HIDE DEF frame
    <3>5. frame[2].val \notin FieldsOf(g)
      BY <3>2, <3>4, FieldsApart DEF f, g, m
    <3>6. LineOK(r, f, g, closing, FALSE, x, d, c, any, km)
      BY <1>o, <3>3, <1>b
    <3>7. LineOK(SubSeq(r, k + 1, Len(r)), f, g, closing, TRUE, frame, d, c, any, km)
      <4>1. r \in Seq(Tokens) /\ any \in BOOLEAN /\ k \in DOMAIN r
        BY <1>l, <1>r, <2>1
      <4>2. frame = SubSeq(r, 1, k - 1)
        BY DEF frame
      <4> QED
        BY <3>2, <3>5, <3>6, <4>1, <4>2, LineDecode, Zenon
    <3> QED
      BY <2>2, <2>3, <3>1, <3>7, <1>goal DEF f, g, d, c, any, km, closing
  <2> QED
    BY <2>1, <2>4, <2>5
<1>12. CASE Deliver(m)
  <2>1. /\ fields' = fields /\ ring' = ring /\ send' = send /\ restarts' = restarts
        /\ work[m] = "deliver"
    BY <1>12 DEF Deliver, sendVars, WorkAt
  <2>2. work'[m] = "decode" /\ last_rx_crc'[m] = x[2].val /\ rx_flip_any'[m] = FALSE
    BY <1>12, <1>p, <1>w, <1>l DEF Deliver, WorkGoto, x
  <2>3. delivered'[n] = IF ~any /\ c = x[2].val THEN d ELSE Append(d, x[1].val)
    BY <1>12, <1>p, <1>d DEF Deliver, IsDuplicate, any, c, d, x
  <2>4. busy
    BY <2>1 DEF busy
  <2>5. LineOK(r, f, g, closing, TRUE, x, d, c, any, km)
    BY <1>o, <2>4, <1>b
  <2>6. LineOK(r, f, g, closing, FALSE, rx_packet'[m], delivered'[n], x[2].val, FALSE, km)
    BY <2>3, <2>5, <1>f, <1>d, <1>l, LineDeliver
  <2> QED
    BY <2>1, <2>2, <2>6, <1>goal DEF r, f, g, km, closing
<1>13. CASE Restart(m)
  <2>1. /\ ring'[m] = <<>> /\ work'[m] = "decode" /\ rx_flip_any'[m] = TRUE
        /\ restarts'[m] = km + 1
    BY <1>13, <1>p, <1>r, <1>w, <1>l DEF Restart, km
  <2>2. fields' = fields /\ delivered' = delivered /\ send'[n] = send[n]
    BY <1>13, <1>p, <1>s DEF Restart
  <2>3. LineOK(<<>>, f, g, closing, FALSE, rx_packet'[m], d, last_rx_crc'[m], TRUE, km + 1)
    <3>1. /\ f \in Seq(Nat) /\ d \in Seq(Nat)
          /\ busy \in BOOLEAN /\ any \in BOOLEAN /\ km \in Nat
      BY <1>b, <1>f, <1>d, <1>l
    <3>2. PICK y, c2 : y = rx_packet'[m] /\ c2 = last_rx_crc'[m]
      OBVIOUS
    <3>3. LineOK(<<>>, f, g, closing, FALSE, y, d, c2, TRUE, km + 1)
      BY <1>o, <3>1, LineRestart, ZenonT(60)
    <3> QED
      BY <3>2, <3>3
  <2> QED
    BY <2>1, <2>2, <2>3, <1>goal DEF f, g, d, closing
<1>14. CASE \E k \in Nodes : SendBegins(k) \/ SendStep(k) \/ WorkStep(k) \/ Restart(k)
  <2>1. PICK k \in Nodes : SendBegins(k) \/ SendStep(k) \/ WorkStep(k) \/ Restart(k)
    BY <1>14
  <2>2. k = n \/ k = m
    BY <1>p
  <2> QED
    BY <2>1, <2>2, <1>1, <1>2, <1>3, <1>4, <1>5, <1>6, <1>7, <1>8, <1>9, <1>10, <1>11,
       <1>12, <1>13 DEF SendStep, WorkStep
<1> QED
  BY <1>0, <1>14 DEF RpcNext

\* The line is right at first.
LEMMA LineInit == RpcInit => LineInv
<1> SUFFICES ASSUME RpcInit PROVE LineInv
  OBVIOUS
<1>1. RpcBase
  BY BaseInit
<1>2. ASSUME NEW n \in Nodes PROVE Line(n)
  <2>1. Peer(n) \in Nodes
    BY PeerFacts
  <2>2. /\ ring[Peer(n)] = <<>> /\ fields[n] = <<>> /\ work[Peer(n)] = "decode"
        /\ delivered[n] = <<>> /\ rx_flip_any[Peer(n)] = TRUE
    BY <2>1 DEF RpcInit
  <2>3. Len(<<>>) = 0
    OBVIOUS
  <2> QED
    BY <2>2, <2>3 DEF Line, LineOK, RingOK, HandledOK, OrderOK, CopiesOK
<1> QED
  BY <1>1, <1>2 DEF LineInv

\* It stays so while no checksum field has become another one.
LEMMA LineInvStep == CrcApart /\ LineInv /\ [RpcNext]_rpcVars /\ altered' = 0 => LineInv'
<1> SUFFICES ASSUME CrcApart, LineInv, [RpcNext]_rpcVars, altered' = 0 PROVE LineInv'
  OBVIOUS
<1>1. RpcBase /\ \A n \in Nodes : Line(n)
  BY DEF LineInv
<1>2. RpcTypes' /\ RpcControl'
  BY <1>1, TypesStep, ControlStep
<1>3. ASSUME NEW n \in Nodes PROVE Line(n)'
  BY <1>1, LineStep
<1> QED
  BY <1>2, <1>3 DEF LineInv, RpcBase

\* A checksum field that has become another one is not forgotten.
LEMMA AlteredStays ==
    ASSUME RpcBase, [RpcNext]_rpcVars
    PROVE  altered' \in Nat /\ (altered' = 0 => altered = 0)
<1>1. altered \in Nat /\ altered' \in Nat
  BY TypesStep DEF RpcBase, RpcTypes
<1>2. altered' = altered \/ altered' = altered + 1
  <2>1. ASSUME NEW n, NEW ts, Emit(n, ts)
        PROVE  altered' = altered \/ altered' = altered + 1
    BY <2>1 DEF Emit
  <2>2. ASSUME NEW n \in Nodes, SendStep(n)
        PROVE  altered' = altered \/ altered' = altered + 1
    <3>1. CASE SendAttempt(n) \/ SendClose(n)
      BY <2>1, <3>1 DEF SendAttempt, SendClose
    <3>2. CASE SendAcked(n) \/ SendTimesOut(n)
      BY <3>2 DEF SendAcked, SendTimesOut
    <3> QED
      BY <2>2, <3>1, <3>2 DEF SendStep
  <2>3. ASSUME NEW n \in Nodes, WorkStep(n)
        PROVE  altered' = altered \/ altered' = altered + 1
    <3>1. CASE AckOpen(n) \/ AckClose(n)
      BY <2>1, <3>1 DEF AckOpen, AckClose
    <3>2. CASE Decode(n) \/ Deliver(n)
      BY <3>2 DEF Decode, Deliver
    <3> QED
      BY <2>3, <3>1, <3>2 DEF WorkStep
  <2>4. ASSUME NEW n \in Nodes, SendBegins(n) \/ Restart(n)
        PROVE  altered' = altered
    BY <2>4 DEF SendBegins, Restart
  <2>5. CASE UNCHANGED rpcVars
    BY <2>5 DEF rpcVars
  <2> QED
    BY <2>2, <2>3, <2>4, <2>5 DEF RpcNext
<1> QED
  BY <1>1, <1>2

\* While no damaged checksum field has passed for another one, packets are
\* delivered in order, and once for each start of the receiver.
THEOREM RpcDeliveredInOrder ==
    CrcApart => (RpcSpec => [](altered > 0 \/ DeliveredInOrder))
<1> DEFINE Inv == RpcBase /\ (altered = 0 => LineInv)
<1> SUFFICES ASSUME CrcApart PROVE RpcSpec => [](altered > 0 \/ DeliveredInOrder)
  OBVIOUS
<1>1. RpcInit => Inv
  BY LineInit, BaseInit
<1>2. Inv /\ [RpcNext]_rpcVars => Inv'
  <2> SUFFICES ASSUME Inv, [RpcNext]_rpcVars PROVE Inv'
    OBVIOUS
  <2>1. RpcTypes' /\ RpcControl'
    BY TypesStep, ControlStep
  <2>2. altered' = 0 => altered = 0
    BY AlteredStays
  <2> QED
    BY <2>1, <2>2, LineInvStep DEF RpcBase
<1>3. Inv => altered > 0 \/ DeliveredInOrder
  <2> SUFFICES ASSUME Inv, altered = 0 PROVE DeliveredInOrder
    BY DEF RpcBase, RpcTypes
  <2>0. LineInv
    OBVIOUS
  <2> SUFFICES ASSUME NEW n \in Nodes
               PROVE  /\ \A i, j \in DOMAIN delivered[n] :
                            i < j => delivered[n][i] <= delivered[n][j]
                      /\ \A p \in DOMAIN fields[n] :
                            Cardinality({i \in DOMAIN delivered[n] : delivered[n][i] = p})
                                <= 1 + restarts[Peer(n)]
    <3>1. restarts \in [Nodes -> Nat]
      BY DEF RpcBase, RpcTypes
    <3>2. \A n \in Nodes :
            1 + restarts[Peer(n)] + 2 * altered = 1 + restarts[Peer(n)]
      BY <3>1, PeerFacts
    <3> QED
      BY <3>2 DEF DeliveredInOrder
  <2>1. /\ delivered[n] \in Seq(Nat) /\ fields[n] \in Seq(Nat)
    BY <2>0 DEF LineInv, RpcBase, RpcTypes
  <2>2. DOMAIN delivered[n] = 1 .. Len(delivered[n]) /\ DOMAIN fields[n] = 1 .. Len(fields[n])
        /\ Len(delivered[n]) \in Nat
    BY <2>1
  <2>3. \A i, j \in DOMAIN delivered[n] : i < j => delivered[n][i] <= delivered[n][j]
    BY <2>0, <2>2 DEF LineInv, Line, LineOK, OrderOK
  <2>4. \A p \in 1 .. Len(fields[n]) :
            Cardinality(Copies(delivered[n], p)) <= 1 + restarts[Peer(n)]
    BY <2>0 DEF LineInv, Line, LineOK, CopiesOK
  <2>5. \A p : Copies(delivered[n], p) = {i \in DOMAIN delivered[n] : delivered[n][i] = p}
    BY <2>2 DEF Copies
  <2> QED
    BY <2>2, <2>3, <2>4, <2>5
<1> QED
  BY <1>1, <1>2, <1>3, PTL DEF RpcSpec

-----------------------------------------------------------------------------
(* What a step does to the acknowledgments.                                *)

\* A new field is not yet acknowledged.
LEMMA NotYetAcked ==
    ASSUME NEW b, NEW f \in Seq(Nat), NEW v \in Nat, NEW g, NEW closing,
           RingOK(b, g, f, closing), v \notin FieldsOf(g)
    PROVE  \A i \in 1 .. Len(b) : IsAckOf(b[i], Append(f, v)) => IsAckOf(b[i], f)
<1>1. FieldsOf(Append(f, v)) = FieldsOf(f) \cup {v}
  BY AppendField
<1> QED
  BY <1>1 DEF IsAckOf, RingOK

\* A packet is about to be sent.
LEMMA AckBegin ==
    ASSUME NEW b, NEW f \in Seq(Nat), NEW v \in Nat, NEW g, NEW closing, NEW pc, NEW sem,
           NEW res, NEW busy, NEW r, NEW x, NEW d, NEW c, NEW any,
           AckOK(b, f, pc, sem, res, busy, x, d, c, any),
           RingOK(b, g, f, closing), v \notin FieldsOf(g),
           OrderOK(r, f, busy, x, d), Len(res) = Len(f)
    PROVE  AckOK(b, Append(f, v), "attempt", sem, res, busy, x, d, c, any)
<1> DEFINE h == Append(f, v)
<1>1. /\ Len(h) = Len(f) + 1 /\ Len(f) \in Nat
      /\ \A p \in 1 .. Len(f) : h[p] = f[p]
  BY AppendField
<1>2. \A i \in 1 .. Len(b) : IsAckOf(b[i], h) => IsAckOf(b[i], f)
  BY NotYetAcked
<1> HIDE DEF h
<1>3. \A p \in 1 .. Len(f) : \A w :
        Known(f, busy, x, d, w, p) => Known(h, busy, x, d, w, p)
  <2>1. \A p \in 1 .. Len(f) : \A q \in 1 .. p : h[q] = f[q]
    BY <1>1
  <2> QED
    BY <2>1 DEF Known
<1>4. \A w : Known(f, busy, x, d, w, Len(f)) => Known(h, busy, x, d, w, Len(h))
  <2>1. \A q \in 1 .. Len(f) : q \in 1 .. Len(h) /\ h[q] = f[q]
    BY <1>1
  <2> QED
    BY <2>1 DEF Known
<1>5. \A i \in 1 .. Len(d) : h[d[i]] = f[d[i]]
  BY <1>1 DEF OrderOK
<1>6. ~any => \E i \in 1 .. Len(d) : h[d[i]] = c
  BY <1>5 DEF AckOK
<1>7. \A i \in 1 .. Len(b) : IsAckOf(b[i], h) => Known(h, busy, x, d, b[i].val, Len(h))
  BY <1>2, <1>4 DEF AckOK
<1>8. \A p \in 1 .. Len(res) : res[p] = "acked" => Known(h, busy, x, d, h[p], p)
  BY <1>1, <1>3 DEF AckOK
<1>9. AckOK(b, h, "attempt", sem, res, busy, x, d, c, any)
  BY <1>6, <1>7, <1>8 DEF AckOK
<1> QED
  BY <1>9 DEF h

\* What m appends to the line is no acknowledgment of a packet of n, or that of
\* the packet it handles.
Answers(us, f, busy, x) ==
    \A j \in 1 .. Len(us) : IsAckOf(us[j], f) => busy /\ us[j].val = f[x[1].val]

\* The tokens of a concatenation.
LEMMA Concat ==
    ASSUME NEW b \in Seq(Tokens), NEW us \in Seq(Tokens)
    PROVE  /\ b \o us \in Seq(Tokens) /\ Len(b \o us) = Len(b) + Len(us)
           /\ Len(b) \in Nat /\ Len(us) \in Nat
           /\ \A i \in 1 .. Len(b) : (b \o us)[i] = b[i]
           /\ \A i \in 1 .. Len(b \o us) :
                i \in 1 .. Len(b) \/ (i - Len(b) \in 1 .. Len(us) /\ (b \o us)[i] = us[i - Len(b)])
  OBVIOUS

\* m writes.
LEMMA AckMore ==
    ASSUME NEW b \in Seq(Tokens), NEW us \in Seq(Tokens), NEW f, NEW pc, NEW sem,
           NEW res, NEW busy, NEW r, NEW x, NEW d, NEW c, NEW any,
           AckOK(b, f, pc, sem, res, busy, x, d, c, any),
           HandledOK(r, f, busy, x), Answers(us, f, busy, x)
    PROVE  AckOK(b \o us, f, pc, sem, res, busy, x, d, c, any)
<1> DEFINE s == b \o us
<1>1. \A i \in 1 .. Len(s) :
        (i \in 1 .. Len(b) /\ s[i] = b[i]) \/ \E j \in 1 .. Len(us) : s[i] = us[j]
  BY Concat
<1> HIDE DEF s
<1>2. busy => Known(f, busy, x, d, f[x[1].val], Len(f))
  <2> SUFFICES ASSUME busy PROVE Known(f, busy, x, d, f[x[1].val], Len(f))
    OBVIOUS
  <2>1. x[1].val \in 1 .. Len(f) /\ x[1] = Packet(x[1].val)
    BY DEF HandledOK
  <2> QED
    BY <2>1 DEF Known, ArrivedIn
<1>3. \A i \in 1 .. Len(s) : IsAckOf(s[i], f) => Known(f, busy, x, d, s[i].val, Len(f))
  BY <1>1, <1>2 DEF AckOK, Answers
<1>4. AckOK(s, f, pc, sem, res, busy, x, d, c, any)
  BY <1>3 DEF AckOK
<1> QED
  BY <1>4 DEF s

\* n takes a frame from the line.
LEMMA AckCut ==
    ASSUME NEW b \in Seq(Tokens), NEW k \in DOMAIN b, NEW f, NEW pc, NEW sem,
           NEW res, NEW busy, NEW x, NEW d, NEW c, NEW any, NEW sem2, NEW payload,
           AckOK(b, f, pc, sem, res, busy, x, d, c, any),
           sem2 = IF SubSeq(b, 1, k - 1) = <<Checksum(payload)>> THEN 1 ELSE sem,
           pc \in {"close", "wait"} => payload = f[Len(f)] /\ Len(f) \in 1 .. Len(f)
    PROVE  AckOK(SubSeq(b, k + 1, Len(b)), f, pc, sem2, res, busy, x, d, c, any)
<1> DEFINE s == SubSeq(b, k + 1, Len(b))
           frame == SubSeq(b, 1, k - 1)
<1>1. \A i \in 1 .. Len(s) : \E j \in 1 .. Len(b) : s[i] = b[j]
  <2>1. /\ k \in 1 .. Len(b) /\ Len(s) = Len(b) - k
        /\ \A i \in 1 .. Len(b) - k : s[i] = b[k + i]
    BY DecodeParts, Zenon
  <2>2. Len(b) \in Nat
    OBVIOUS
  <2> HIDE DEF s
  <2>3. \A i \in 1 .. Len(s) : k + i \in 1 .. Len(b) /\ s[i] = b[k + i]
    BY <2>1, <2>2
  <2> QED
    BY <2>3
<1>2. frame = <<Checksum(payload)>> => 1 \in 1 .. Len(b) /\ b[1] = Checksum(payload)
  <2>1. /\ k \in 1 .. Len(b) /\ Len(frame) = k - 1
        /\ \A i \in 1 .. k - 1 : frame[i] = b[i]
    BY DecodeParts, Zenon
  <2>2. Len(b) \in Nat
    OBVIOUS
  <2> HIDE DEF frame
  <2> SUFFICES ASSUME frame = <<Checksum(payload)>>
               PROVE  1 \in 1 .. Len(b) /\ b[1] = Checksum(payload)
    OBVIOUS
  <2>3. Len(frame) = 1 /\ frame[1] = Checksum(payload)
    OBVIOUS
  <2> QED
    BY <2>1, <2>2, <2>3
<1> HIDE DEF s, frame
<1>3. \A i \in 1 .. Len(s) : IsAckOf(s[i], f) => Known(f, busy, x, d, s[i].val, Len(f))
  BY <1>1 DEF AckOK
<1>4. ASSUME sem2 = 1, pc \in {"close", "wait"}
      PROVE  Known(f, busy, x, d, f[Len(f)], Len(f))
  <2>1. CASE sem = 1
    BY <1>4, <2>1 DEF AckOK
  <2>2. CASE frame = <<Checksum(payload)>>
    <3>1. 1 \in 1 .. Len(b) /\ b[1] = Checksum(f[Len(f)]) /\ Len(f) \in 1 .. Len(f)
      BY <1>2, <1>4, <2>2
    <3>2. b[1].val = f[Len(f)] /\ b[1].kind = "CHECKSUM"
      BY <3>1, TokenFacts
    <3>3. IsAckOf(b[1], f)
      BY <3>1, <3>2 DEF IsAckOf, IsChecksum, FieldsOf
    <3> QED
      BY <3>1, <3>2, <3>3 DEF AckOK
  <2> QED
    BY <1>4, <2>1, <2>2 DEF frame
<1>5. AckOK(s, f, pc, sem2, res, busy, x, d, c, any)
  BY <1>3, <1>4 DEF AckOK
<1> QED
  BY <1>5 DEF s

\* m starts to handle a packet.
LEMMA AckHandle ==
    ASSUME NEW b, NEW f, NEW pc, NEW sem, NEW res, NEW x, NEW y, NEW d, NEW c, NEW any,
           AckOK(b, f, pc, sem, res, FALSE, x, d, c, any)
    PROVE  AckOK(b, f, pc, sem, res, TRUE, y, d, c, any)
<1>1. \A v, p : Known(f, FALSE, x, d, v, p) => Known(f, TRUE, y, d, v, p)
  BY DEF Known, ArrivedIn
<1> QED
  BY <1>1 DEF AckOK

\* m has handled a packet: it is delivered, or taken for a duplicate of one that
\* was.
LEMMA AckDeliver ==
    ASSUME NEW b, NEW r, NEW f \in Seq(Nat), NEW pc, NEW sem, NEW res, NEW x,
           NEW d \in Seq(Nat), NEW c, NEW any, NEW y, NEW e,
           AckOK(b, f, pc, sem, res, TRUE, x, d, c, any),
           HandledOK(r, f, TRUE, x), OrderOK(r, f, TRUE, x, d), Len(res) <= Len(f),
           Len(res) \in Nat,
           e = IF ~any /\ c = x[2].val THEN d ELSE Append(d, x[1].val)
    PROVE  AckOK(b, f, pc, sem, res, FALSE, y, e, x[2].val, FALSE)
<1> DEFINE p == x[1].val
<1>1. p \in 1 .. Len(f) /\ x = <<Packet(p), Checksum(f[p])>>
  BY DEF HandledOK
<1>2. x[2].val = f[p] /\ x[1] = Packet(p) /\ \A q : x[1] = Packet(q) => q = p
  BY <1>1, TokenFacts
<1>3. \A i \in 1 .. Len(d) : d[i] <= p /\ d[i] \in 1 .. Len(f)
  BY DEF OrderOK
<1>4. Len(f) \in Nat /\ Len(d) \in Nat
  OBVIOUS
<1> HIDE DEF p
<1>5. \E i \in 1 .. Len(e) : e[i] \in 1 .. p /\ f[e[i]] = f[p]
  <2>1. CASE ~any /\ c = x[2].val
    <3>1. PICK i \in 1 .. Len(d) : f[d[i]] = c
      BY <2>1 DEF AckOK
    <3>2. d[i] \in 1 .. p
      BY <1>1, <1>3, <1>4
    <3> QED
      BY <1>2, <2>1, <3>1, <3>2
  <2>2. CASE ~(~any /\ c = x[2].val)
    <3>1. e = Append(d, p)
      BY <2>2 DEF p
    <3>2. Len(d) + 1 \in 1 .. Len(e) /\ e[Len(d) + 1] = p
      BY <3>1, <1>4
    <3>3. p \in 1 .. p
      BY <1>1, <1>4
    <3> QED
      BY <3>2, <3>3
  <2> QED
    BY <2>1, <2>2
<1>6. \A i \in 1 .. Len(d) : i \in 1 .. Len(e) /\ e[i] = d[i]
  <2>1. CASE e = d
    BY <2>1
  <2>2. CASE e = Append(d, x[1].val)
    BY <2>2, <1>4
  <2> QED
    BY <2>1, <2>2
<1>7. ASSUME NEW z \in Nat, NEW v, Known(f, TRUE, x, d, v, z)
      PROVE  Known(f, FALSE, y, e, v, z)
  <2>1. PICK q \in 1 .. z : f[q] = v /\ ArrivedIn(d, TRUE, x, q)
    BY <1>7 DEF Known
  <2>2. CASE \E i \in 1 .. Len(d) : d[i] = q
    BY <1>6, <2>1, <2>2 DEF Known, ArrivedIn
  <2>3. CASE q = p
    <3>1. PICK i \in 1 .. Len(e) : e[i] \in 1 .. p /\ f[e[i]] = f[p]
      BY <1>5
    <3>2. e[i] \in 1 .. z
      BY <3>1, <2>1, <2>3, <1>1, <1>4
    <3> QED
      BY <2>1, <2>3, <3>1, <3>2 DEF Known, ArrivedIn
  <2> QED
    BY <1>2, <2>1, <2>2, <2>3 DEF ArrivedIn
<1>8. \A i \in 1 .. Len(b) : IsAckOf(b[i], f) => Known(f, FALSE, y, e, b[i].val, Len(f))
  BY <1>4, <1>7 DEF AckOK
<1>9. sem = 1 /\ pc \in {"close", "wait"} => Known(f, FALSE, y, e, f[Len(f)], Len(f))
  BY <1>4, <1>7 DEF AckOK
<1>10. \A z \in 1 .. Len(res) : res[z] = "acked" => Known(f, FALSE, y, e, f[z], z)
  <2>1. \A z \in 1 .. Len(res) : z \in Nat
    OBVIOUS
  <2> QED
    BY <2>1, <1>7 DEF AckOK
<1>11. \E i \in 1 .. Len(e) : f[e[i]] = x[2].val
  BY <1>2, <1>5
<1> QED
  BY <1>8, <1>9, <1>10, <1>11 DEF AckOK

\* send() returns.
LEMMA AckReturns ==
    ASSUME NEW b, NEW f, NEW pc, NEW sem, NEW res \in Seq({"acked", "failed", "cut"}),
           NEW busy, NEW x, NEW d, NEW c, NEW any, NEW sem2,
           NEW result \in {"acked", "failed", "cut"},
           AckOK(b, f, pc, sem, res, busy, x, d, c, any), Len(f) = Len(res) + 1,
           result = "acked" => pc = "wait" /\ sem = 1
    PROVE  AckOK(b, f, "idle", sem2, Append(res, result), busy, x, d, c, any)
<1> DEFINE res2 == Append(res, result)
<1>1. /\ Len(res2) = Len(res) + 1 /\ Len(res) \in Nat
      /\ \A p \in 1 .. Len(res) : res2[p] = res[p]
      /\ res2[Len(res) + 1] = result
  OBVIOUS
<1> HIDE DEF res2
<1>2. ASSUME NEW p \in 1 .. Len(res2), res2[p] = "acked"
      PROVE  Known(f, busy, x, d, f[p], p)
  <2>1. CASE p \in 1 .. Len(res)
    BY <1>1, <1>2, <2>1 DEF AckOK
  <2>2. CASE p = Len(res) + 1
    BY <1>1, <1>2, <2>2 DEF AckOK
  <2> QED
    BY <1>1, <2>1, <2>2
<1>3. AckOK(b, f, "idle", sem2, res2, busy, x, d, c, any)
  BY <1>2 DEF AckOK
<1> QED
  BY <1>3 DEF res2

\* The same while all send() calls were acknowledged: a packet is about to be
\* sent.
LEMMA CleanBegin ==
    ASSUME NEW b, NEW r \in Seq(Tokens), NEW f \in Seq(Nat), NEW v \in Nat, NEW g,
           NEW closing, NEW closing2, NEW sem, NEW res, NEW busy \in BOOLEAN, NEW x,
           NEW d \in Seq(Nat), NEW c, NEW any \in BOOLEAN, NEW km,
           CleanOK(b, r, f, "idle", sem, res, busy, x, d, c, any),
           RingOK(b, g, f, closing), v \notin FieldsOf(g),
           LineOK(r, f, g, closing2, busy, x, d, c, any, km), Len(res) = Len(f)
    PROVE  CleanOK(b, r, Append(f, v), "attempt", sem, res, busy, x, d, c, any)
<1> DEFINE h == Append(f, v)
           p == Len(f)
<1>1. /\ Len(h) = p + 1 /\ p \in Nat
      /\ \A q \in 1 .. p : h[q] = f[q]
  BY AppendField
<1>2. \A i \in 1 .. Len(b) : IsAckOf(b[i], h) => IsAckOf(b[i], f)
  BY NotYetAcked
<1> HIDE DEF h
<1>o. /\ RingOK(r, f, g, closing2) /\ HandledOK(r, f, busy, x)
      /\ OrderOK(r, f, busy, x, d) /\ CopiesOK(r, f, busy, x, d, c, any, km)
  BY DEF LineOK
<1>3. \A q \in 1 .. p : Seen(f, busy, x, d, c, any, q) => Seen(h, busy, x, d, c, any, q)
  BY <1>1 DEF Seen
<1>4. \A q \in 1 .. Len(res) : AllAcked(res, q) => Seen(h, busy, x, d, c, any, q)
  BY <1>3 DEF CleanOK
<1>5. ASSUME AllAcked(res, Len(res))
      PROVE  CurrentOK(b, r, h, "attempt", sem, busy, x, d, c, any)
  <2>1. CASE p = 0
    <3>1. \A q : q \notin 1 .. Len(f)
      BY <2>1
    <3>2. \A i \in 1 .. Len(r) : ~IsPacket(r[i])
      BY <1>o, <3>1 DEF RingOK
    <3>3. ~busy
      BY <1>o, <3>1 DEF HandledOK
    <3>4. any
      BY <1>o, <3>1 DEF CopiesOK
    <3>5. \A i \in 1 .. Len(b) : ~IsAckOf(b[i], h)
      BY <1>2, <3>1 DEF IsAckOf, FieldsOf
    <3>6. AtLeast(r, Len(h) - 1)
      BY <3>2 DEF AtLeast
    <3> QED
      BY <3>3, <3>4, <3>5, <3>6 DEF CurrentOK
  <2>2. CASE p # 0
    <3>1. p > 0 /\ Len(h) - 1 = p /\ Len(h) > 1 /\ h[Len(h) - 1] = f[p]
      BY <1>1, <2>2
    <3>2. /\ AtLeast(r, p)
          /\ busy => x[1].val = p
          /\ \A i \in 1 .. Len(b) : IsAckOf(b[i], f) => b[i].val = f[p]
          /\ ~busy /\ ~any => c = f[p]
      BY <1>5, <3>1 DEF CleanOK, DoneOK
    <3>3. p >= p /\ p # Len(h)
      BY <1>1
    <3>4. \A i \in 1 .. Len(d) : d[i] # Len(h)
      <4>1. TAKE i \in 1 .. Len(d)
      <4>2. d[i] \in 1 .. p
        BY <1>o DEF OrderOK
      <4> QED
        BY <4>2, <1>1
    <3>5. \A i \in 1 .. Len(b) : IsAckOf(b[i], h) => b[i].val = h[Len(h) - 1]
      BY <1>2, <3>1, <3>2
    <3> HIDE DEF p
    <3> QED
      BY <3>1, <3>2, <3>3, <3>4, <3>5 DEF CurrentOK
  <2> QED
    BY <2>1, <2>2
<1>6. CleanOK(b, r, h, "attempt", sem, res, busy, x, d, c, any)
  BY <1>4, <1>5 DEF CleanOK
<1> QED
  BY <1>6 DEF h

\* n writes, takes a further attempt, or m takes from the line what is no
\* packet.
LEMMA CleanStay ==
    ASSUME NEW b, NEW r, NEW s, NEW f \in Seq(Nat), NEW g, NEW closing, NEW pc, NEW pc2,
           NEW sem, NEW sem2, NEW res, NEW busy, NEW x, NEW d, NEW c, NEW any,
           CleanOK(b, r, f, pc, sem, res, busy, x, d, c, any),
           RingOK(s, f, g, closing),
           \A p \in 1 .. Len(f) : AtLeast(r, p) => AtLeast(s, p),
           pc2 = "idle" <=> pc = "idle",
           sem2 = 1 /\ pc2 \in {"close", "wait"} => sem = 1 /\ pc \in {"close", "wait"},
           pc # "idle" => Len(f) >= 1
    PROVE  CleanOK(b, s, f, pc2, sem2, res, busy, x, d, c, any)
<1> DEFINE p == Len(f)
<1>0. p \in Nat
  OBVIOUS
<1>1. AtLeast(s, 0)
  <2>1. \A i \in 1 .. Len(s) : IsPacket(s[i]) => s[i].val \in 1 .. Len(f)
    BY DEF RingOK
  <2> QED
    BY <2>1, <1>0 DEF AtLeast
<1>2. ASSUME pc2 # "idle", AllAcked(res, Len(res))
      PROVE  CurrentOK(b, s, f, pc2, sem2, busy, x, d, c, any)
  <2>1. CurrentOK(b, r, f, pc, sem, busy, x, d, c, any)
    BY <1>2 DEF CleanOK
  <2>2. p - 1 \in 1 .. p \/ p - 1 = 0
    <3>1. p >= 1
      BY <1>2, Zenon
    <3> HIDE DEF p
    <3> QED
      BY <1>0, <3>1
  <2>3. AtLeast(r, p - 1)
    BY <2>1 DEF CurrentOK
  <2>4. AtLeast(s, p - 1)
    BY <1>1, <2>2, <2>3, Zenon
  <2> QED
    BY <2>1, <2>4 DEF CurrentOK
<1>3. ASSUME pc2 = "idle", Len(f) > 0, AllAcked(res, Len(res))
      PROVE  DoneOK(b, s, f, busy, x, d, c, any)
  <2>1. DoneOK(b, r, f, busy, x, d, c, any)
    BY <1>3 DEF CleanOK
  <2>2. p \in 1 .. p
    BY <1>0, <1>3
  <2> QED
    BY <2>1, <2>2 DEF DoneOK
<1> QED
  BY <1>2, <1>3 DEF CleanOK

\* m writes.
LEMMA CleanMore ==
    ASSUME NEW b \in Seq(Tokens), NEW us \in Seq(Tokens), NEW r, NEW f \in Seq(Nat),
           NEW pc, NEW sem, NEW res, NEW busy, NEW x, NEW d, NEW c, NEW any,
           CleanOK(b, r, f, pc, sem, res, busy, x, d, c, any),
           HandledOK(r, f, busy, x), OrderOK(r, f, busy, x, d), Answers(us, f, busy, x)
    PROVE  CleanOK(b \o us, r, f, pc, sem, res, busy, x, d, c, any)
<1> DEFINE s == b \o us
           p == Len(f)
<1>0. p \in Nat
  OBVIOUS
<1>1. /\ Len(s) = Len(b) + Len(us) /\ Len(b) \in Nat /\ Len(us) \in Nat
      /\ \A i \in 1 .. Len(b) : s[i] = b[i]
  BY Concat
<1>2. \A i \in 1 .. Len(s) :
        i \in 1 .. Len(b) \/ (i - Len(b) \in 1 .. Len(us) /\ s[i] = us[i - Len(b)])
  BY Concat, Zenon
<1> HIDE DEF s
<1>3. \A i \in 1 .. Len(s) : IsAckOf(s[i], f) =>
        (i \in 1 .. Len(b) /\ IsAckOf(b[i], f)) \/ (busy /\ s[i].val = f[x[1].val])
  BY <1>1, <1>2, ZenonT(60) DEF Answers
<1>4. busy => x[1].val \in 1 .. p /\ \A i \in 1 .. Len(d) : d[i] <= x[1].val /\ d[i] \in 1 .. p
  BY DEF HandledOK, OrderOK
<1>5. ASSUME CurrentOK(b, r, f, pc, sem, busy, x, d, c, any)
      PROVE  CurrentOK(s, r, f, pc, sem, busy, x, d, c, any)
  <2> DEFINE S == Seen(f, busy, x, d, c, any, p)
  <2>1. busy => x[1].val = p \/ (p > 1 /\ x[1].val = p - 1)
    <3>1. busy => x[1].val >= p - 1 /\ x[1].val \in 1 .. p
      BY <1>4, <1>5 DEF CurrentOK
    <3> QED
      BY <3>1, <1>0
  <2>2. busy /\ x[1].val # p => ~S
    <3> SUFFICES ASSUME busy, x[1].val # p, S PROVE FALSE
      OBVIOUS
    <3>1. \A q : x[1] = Packet(q) => x[1].val = q
      BY TokenFacts
    <3>2. PICK i \in 1 .. Len(d) : d[i] = p
      BY <3>1 DEF Seen
    <3>3. p <= x[1].val /\ x[1].val \in 1 .. p
      BY <1>4, <3>2
    <3> QED
      BY <3>3, <1>0
  <2>3. busy /\ x[1].val = p => S
    BY <1>5 DEF CurrentOK
  <2>4. sem = 1 /\ pc \in {"close", "wait"} =>
            S /\ \A i \in 1 .. Len(b) : IsAckOf(b[i], f) => b[i].val = f[p]
    BY <1>5 DEF CurrentOK
  <2>5. \A i \in 1 .. Len(b) : IsAckOf(b[i], f) =>
            \/ p > 1 /\ b[i].val = f[p - 1]
            \/ b[i].val = f[p] /\ S /\ \A j \in i .. Len(b) : IsAckOf(b[j], f) => b[j].val = f[p]
    BY <1>5 DEF CurrentOK
  <2> HIDE DEF S
  <2>6. sem = 1 /\ pc \in {"close", "wait"} =>
            S /\ \A i \in 1 .. Len(s) : IsAckOf(s[i], f) => s[i].val = f[p]
    BY <1>1, <1>3, <2>2, <2>4
  <2>7. ASSUME NEW i \in 1 .. Len(s), IsAckOf(s[i], f)
        PROVE  \/ p > 1 /\ s[i].val = f[p - 1]
               \/ /\ s[i].val = f[p] /\ S
                  /\ \A j \in i .. Len(s) : IsAckOf(s[j], f) => s[j].val = f[p]
    <3>1. CASE i \in 1 .. Len(b) /\ IsAckOf(b[i], f) /\ S
      <4>1. CASE p > 1 /\ b[i].val = f[p - 1]
        BY <1>1, <3>1, <4>1
      <4>2. CASE b[i].val = f[p] /\ \A j \in i .. Len(b) : IsAckOf(b[j], f) => b[j].val = f[p]
        <5>1. ASSUME NEW j \in i .. Len(s), IsAckOf(s[j], f) PROVE s[j].val = f[p]
          <6>1. j \in 1 .. Len(s)
            BY <1>1, <3>1
          <6>2. CASE busy /\ s[j].val = f[x[1].val]
            BY <6>2, <2>2, <3>1
          <6>3. CASE j \in 1 .. Len(b) /\ IsAckOf(b[j], f)
            <7>1. j \in i .. Len(b)
              BY <6>3, <1>1, <3>1
            <7> QED
              BY <7>1, <6>3, <4>2, <1>1
          <6> QED
            BY <6>1, <6>2, <6>3, <5>1, <1>3
        <5> QED
          BY <3>1, <4>2, <5>1, <1>1
      <4> QED
        BY <3>1, <4>1, <4>2, <2>5
    <3>2. CASE i \in 1 .. Len(b) /\ IsAckOf(b[i], f) /\ ~S
      BY <1>1, <2>5, <3>2
    <3>3. CASE i \notin 1 .. Len(b) /\ busy /\ s[i].val = f[x[1].val]
      <4>1. CASE x[1].val = p
        <5>1. ASSUME NEW j \in i .. Len(s), IsAckOf(s[j], f) PROVE s[j].val = f[p]
          <6>1. j \in 1 .. Len(s) /\ j \notin 1 .. Len(b)
            BY <1>1, <3>3
          <6> QED
            BY <6>1, <5>1, <1>3, <4>1
        <5> QED
          BY <3>3, <4>1, <5>1, <2>3
      <4>2. CASE p > 1 /\ x[1].val = p - 1
        BY <3>3, <4>2
      <4> QED
        BY <2>1, <3>3, <4>1, <4>2
    <3>4. CASE i \in 1 .. Len(b) /\ busy /\ s[i].val = f[x[1].val]
      BY <3>4, <1>1, <2>7, <3>1, <3>2
    <3> QED
      BY <1>3, <2>7, <3>1, <3>2, <3>3, <3>4
  <2> QED
    BY <1>5, <2>6, <2>7 DEF CurrentOK, S
<1>6. ASSUME DoneOK(b, r, f, busy, x, d, c, any)
      PROVE  DoneOK(s, r, f, busy, x, d, c, any)
  <2>1. (busy => x[1].val = p) /\ \A i \in 1 .. Len(b) : IsAckOf(b[i], f) => b[i].val = f[p]
    BY <1>6 DEF DoneOK
  <2>2. \A i \in 1 .. Len(s) : IsAckOf(s[i], f) => s[i].val = f[p]
    BY <1>1, <1>3, <2>1
  <2> QED
    BY <1>6, <2>2 DEF DoneOK
<1>7. CleanOK(s, r, f, pc, sem, res, busy, x, d, c, any)
  BY <1>5, <1>6 DEF CleanOK
<1> QED
  BY <1>7 DEF s

\* n takes a frame from the line.
LEMMA CleanCut ==
    ASSUME NEW b \in Seq(Tokens), NEW k \in DOMAIN b, NEW r, NEW f \in Seq(Nat),
           NEW pc, NEW sem, NEW res, NEW busy, NEW x, NEW d, NEW c, NEW any,
           NEW sem2, NEW payload,
           CleanOK(b, r, f, pc, sem, res, busy, x, d, c, any),
           sem2 = IF SubSeq(b, 1, k - 1) = <<Checksum(payload)>> THEN 1 ELSE sem,
           pc # "idle" => payload = f[Len(f)] /\ Len(f) \in 1 .. Len(f),
           Len(f) > 1 => f[Len(f) - 1] # f[Len(f)]
    PROVE  CleanOK(SubSeq(b, k + 1, Len(b)), r, f, pc, sem2, res, busy, x, d, c, any)
<1> DEFINE s == SubSeq(b, k + 1, Len(b))
           frame == SubSeq(b, 1, k - 1)
           p == Len(f)
           S == Seen(f, busy, x, d, c, any, p)
<1>0. Len(b) \in Nat
  OBVIOUS
<1>1. /\ k \in 1 .. Len(b) /\ Len(s) = Len(b) - k
      /\ \A i \in 1 .. Len(b) - k : s[i] = b[k + i]
      /\ Len(frame) = k - 1
      /\ \A i \in 1 .. k - 1 : frame[i] = b[i]
  BY DecodeParts, Zenon
<1> HIDE DEF s
<1>2. \A i \in 1 .. Len(s) : k + i \in 1 .. Len(b) /\ s[i] = b[k + i]
  BY <1>0, <1>1, SMTT(60)
<1>3. \A i \in 1 .. Len(s) : \A j \in i .. Len(s) : k + j \in k + i .. Len(b) /\ s[j] = b[k + j]
  BY <1>0, <1>1, SMTT(60)
<1>4. frame = <<Checksum(payload)>> => 1 \in 1 .. Len(b) /\ b[1] = Checksum(payload)
  <2> SUFFICES ASSUME frame = <<Checksum(payload)>>
               PROVE  1 \in 1 .. Len(b) /\ b[1] = Checksum(payload)
    OBVIOUS
  <2> HIDE DEF frame
  <2>3. Len(frame) = 1 /\ frame[1] = Checksum(payload)
    OBVIOUS
  <2> QED
    BY <1>1, <1>0, <2>3
<1> HIDE DEF frame
<1>5. ASSUME CurrentOK(b, r, f, pc, sem, busy, x, d, c, any), pc # "idle"
      PROVE  CurrentOK(s, r, f, pc, sem2, busy, x, d, c, any)
  <2>1. \A i \in 1 .. Len(b) : IsAckOf(b[i], f) =>
            \/ p > 1 /\ b[i].val = f[p - 1]
            \/ b[i].val = f[p] /\ S /\ \A j \in i .. Len(b) : IsAckOf(b[j], f) => b[j].val = f[p]
    BY <1>5 DEF CurrentOK
  <2>2. sem = 1 /\ pc \in {"close", "wait"} =>
            S /\ \A i \in 1 .. Len(b) : IsAckOf(b[i], f) => b[i].val = f[p]
    BY <1>5 DEF CurrentOK
  <2> HIDE DEF S, p
  <2>3. ASSUME NEW i \in 1 .. Len(s), IsAckOf(s[i], f)
        PROVE  \/ p > 1 /\ s[i].val = f[p - 1]
               \/ /\ s[i].val = f[p] /\ S
                  /\ \A j \in i .. Len(s) : IsAckOf(s[j], f) => s[j].val = f[p]
    <3>1. k + i \in 1 .. Len(b) /\ s[i] = b[k + i]
      BY <1>2
    <3>2. CASE b[k + i].val = f[p] /\ S
               /\ \A j \in k + i .. Len(b) : IsAckOf(b[j], f) => b[j].val = f[p]
      <4>1. \A j \in i .. Len(s) : k + j \in k + i .. Len(b) /\ s[j] = b[k + j]
        BY <1>3
      <4> QED
        BY <3>1, <3>2, <4>1
    <3> QED
      BY <2>1, <2>3, <3>1, <3>2
  <2>4. ASSUME sem2 = 1, pc \in {"close", "wait"}
        PROVE  S /\ \A i \in 1 .. Len(s) : IsAckOf(s[i], f) => s[i].val = f[p]
    <3>1. S /\ \A i \in 1 .. Len(b) : IsAckOf(b[i], f) => b[i].val = f[p]
      <4>1. CASE sem = 1
        BY <2>2, <2>4, <4>1
      <4>2. CASE frame = <<Checksum(payload)>>
        <5>1. 1 \in 1 .. Len(b) /\ b[1] = Checksum(f[p]) /\ p \in 1 .. p
          BY <1>4, <1>5, <4>2 DEF p
        <5>2. b[1].val = f[p] /\ b[1].kind = "CHECKSUM"
          BY <5>1, TokenFacts
        <5>3. IsAckOf(b[1], f)
          BY <5>1, <5>2 DEF IsAckOf, IsChecksum, FieldsOf, p
        <5>4. ~(p > 1 /\ b[1].val = f[p - 1])
          BY <5>2 DEF p
        <5> QED
          BY <2>1, <5>1, <5>3, <5>4
      <4> QED
        BY <2>4, <4>1, <4>2 DEF frame
    <3> QED
      BY <1>2, <3>1
  <2> QED
    BY <1>5, <2>3, <2>4 DEF CurrentOK, S, p
<1>6. ASSUME DoneOK(b, r, f, busy, x, d, c, any)
      PROVE  DoneOK(s, r, f, busy, x, d, c, any)
  BY <1>2, <1>6 DEF DoneOK
<1>7. CleanOK(s, r, f, pc, sem2, res, busy, x, d, c, any)
  BY <1>5, <1>6 DEF CleanOK
<1> QED
  BY <1>7 DEF s

\* m starts to handle a packet.
LEMMA CleanHandle ==
    ASSUME NEW b, NEW r, NEW s, NEW f \in Seq(Nat), NEW pc, NEW sem, NEW res, NEW x, NEW y,
           NEW d, NEW c, NEW any \in BOOLEAN,
           CleanOK(b, r, f, pc, sem, res, FALSE, x, d, c, any),
           \A p : AtLeast(r, p) => AtLeast(s, p) /\ p <= y[1].val,
           HandledOK(s, f, TRUE, y),
           Len(f) > 1 => f[Len(f) - 1] # f[Len(f)]
    PROVE  CleanOK(b, s, f, pc, sem, res, TRUE, y, d, c, any)
<1> DEFINE p == Len(f)
<1>0. p \in Nat
  OBVIOUS
<1>1. \A q : Seen(f, FALSE, x, d, c, any, q) => Seen(f, TRUE, y, d, c, any, q)
  BY DEF Seen
<1>2. y[1].val \in 1 .. p /\ y[1] = Packet(y[1].val)
  BY DEF HandledOK
<1>3. ASSUME CurrentOK(b, r, f, pc, sem, FALSE, x, d, c, any)
      PROVE  CurrentOK(b, s, f, pc, sem, TRUE, y, d, c, any)
  <2>1. AtLeast(s, p - 1) /\ p - 1 <= y[1].val
    BY <1>3 DEF CurrentOK
  <2>2. y[1].val >= p - 1
    BY <1>0, <1>2, <2>1
  <2>3. y[1].val = p => Seen(f, TRUE, y, d, c, any, p)
    <3> SUFFICES ASSUME y[1].val = p PROVE Seen(f, TRUE, y, d, c, any, p)
      OBVIOUS
    <3>1. y[1] = Packet(p)
      BY <1>2
    <3>2. ~any => \/ c = f[p] /\ \E i \in 1 .. Len(d) : d[i] = p
                  \/ p > 1 /\ c = f[p - 1] /\ \A i \in 1 .. Len(d) : d[i] # p
      BY <1>3 DEF CurrentOK
    <3>3. CASE any
      BY <3>1, <3>3 DEF Seen
    <3>4. CASE \E i \in 1 .. Len(d) : d[i] = p
      BY <3>4 DEF Seen
    <3>5. CASE c # f[p]
      BY <3>1, <3>5 DEF Seen
    <3> QED
      BY <3>2, <3>3, <3>4, <3>5
  <2> QED
    BY <1>1, <1>3, <2>1, <2>2, <2>3 DEF CurrentOK
<1>4. ASSUME DoneOK(b, r, f, FALSE, x, d, c, any)
      PROVE  DoneOK(b, s, f, TRUE, y, d, c, any)
  <2>1. AtLeast(s, p) /\ p <= y[1].val
    BY <1>4 DEF DoneOK
  <2>2. y[1].val = p
    BY <1>0, <1>2, <2>1
  <2> QED
    BY <1>4, <2>1, <2>2 DEF DoneOK
<1> QED
  BY <1>1, <1>3, <1>4 DEF CleanOK

\* m has handled a packet.
LEMMA CleanDeliver ==
    ASSUME NEW b, NEW r, NEW f \in Seq(Nat), NEW pc, NEW sem, NEW res, NEW x,
           NEW d \in Seq(Nat), NEW c, NEW any \in BOOLEAN, NEW y, NEW e,
           CleanOK(b, r, f, pc, sem, res, TRUE, x, d, c, any),
           HandledOK(r, f, TRUE, x), OrderOK(r, f, TRUE, x, d),
           e = IF ~any /\ c = x[2].val THEN d ELSE Append(d, x[1].val)
    PROVE  CleanOK(b, r, f, pc, sem, res, FALSE, y, e, x[2].val, FALSE)
<1> DEFINE p == Len(f)
           z == x[1].val
<1>0. p \in Nat /\ Len(d) \in Nat
  OBVIOUS
<1>1. z \in 1 .. p /\ x = <<Packet(z), Checksum(f[z])>>
  BY DEF HandledOK
<1>2. x[2].val = f[z] /\ \A q : x[1] = Packet(q) => q = z
  BY <1>1, TokenFacts
<1>3. \A i \in 1 .. Len(d) : d[i] <= z /\ d[i] \in 1 .. p
  BY DEF OrderOK
<1> HIDE DEF z
<1>4. \A i \in 1 .. Len(d) : i \in 1 .. Len(e) /\ e[i] = d[i]
  <2>1. CASE e = d
    BY <2>1
  <2>2. CASE e = Append(d, x[1].val)
    BY <2>2, <1>0
  <2> QED
    BY <2>1, <2>2
<1>5. any \/ c # f[z] => \E i \in 1 .. Len(e) : e[i] = z
  <2> SUFFICES ASSUME any \/ c # f[z] PROVE \E i \in 1 .. Len(e) : e[i] = z
    OBVIOUS
  <2>1. e = Append(d, z)
    BY <1>2 DEF z
  <2>2. Len(d) + 1 \in 1 .. Len(e) /\ e[Len(d) + 1] = z
    BY <2>1, <1>0
  <2> QED
    BY <2>2
<1>6. \A i \in 1 .. Len(e) : e[i] <= z
  <2>1. CASE e = d
    BY <2>1, <1>3
  <2>2. CASE e = Append(d, z)
    <3>1. TAKE i \in 1 .. Len(e)
    <3>2. i \in 1 .. Len(d) \/ i = Len(d) + 1
      BY <2>2, <1>0
    <3>3. e[i] = z \/ (i \in 1 .. Len(d) /\ e[i] = d[i])
      BY <2>2, <3>2, <1>0
    <3> QED
      BY <3>3, <1>3, <1>1, <1>0
  <2> QED
    BY <2>1, <2>2 DEF z
<1>7. ASSUME NEW q, Seen(f, TRUE, x, d, c, any, q)
      PROVE  \E i \in 1 .. Len(e) : e[i] = q
  <2>1. CASE \E i \in 1 .. Len(d) : d[i] = q
    BY <1>4, <2>1
  <2>2. CASE x[1] = Packet(q) /\ (any \/ c # f[q])
    BY <1>2, <1>5, <2>2
  <2> QED
    BY <1>7, <2>1, <2>2 DEF Seen
<1>8. \A q : Seen(f, TRUE, x, d, c, any, q) => Seen(f, FALSE, y, e, f[z], FALSE, q)
  BY <1>7 DEF Seen
<1>9. ASSUME CurrentOK(b, r, f, pc, sem, TRUE, x, d, c, any)
      PROVE  CurrentOK(b, r, f, pc, sem, FALSE, y, e, f[z], FALSE)
  <2>1. z >= p - 1 /\ (z = p => Seen(f, TRUE, x, d, c, any, p))
    BY <1>9 DEF CurrentOK, z
  <2>2. CASE z = p
    <3>1. \E i \in 1 .. Len(e) : e[i] = p
      BY <1>7, <2>1, <2>2
    <3> QED
      BY <1>8, <1>9, <2>2, <3>1 DEF CurrentOK
  <2>3. CASE z # p
    <3>1. z = p - 1 /\ p > 1
      BY <1>0, <1>1, <2>1, <2>3
    <3>2. \A i \in 1 .. Len(e) : e[i] # p
      BY <1>6, <3>1, <1>0
    <3> QED
      BY <1>8, <1>9, <3>1, <3>2 DEF CurrentOK
  <2> QED
    BY <2>2, <2>3
<1>10. ASSUME DoneOK(b, r, f, TRUE, x, d, c, any)
       PROVE  DoneOK(b, r, f, FALSE, y, e, f[z], FALSE)
  BY <1>10 DEF DoneOK, z
<1> QED
  BY <1>2, <1>8, <1>9, <1>10 DEF CleanOK

\* send() returns.
LEMMA CleanReturns ==
    ASSUME NEW b, NEW r, NEW f \in Seq(Nat), NEW pc, NEW sem, NEW sem2,
           NEW res \in Seq({"acked", "failed", "cut"}), NEW busy \in BOOLEAN, NEW x,
           NEW d, NEW c, NEW any \in BOOLEAN, NEW result \in {"acked", "failed", "cut"},
           CleanOK(b, r, f, pc, sem, res, busy, x, d, c, any), pc = "wait",
           HandledOK(r, f, busy, x), OrderOK(r, f, busy, x, d), Len(f) = Len(res) + 1,
           result = "acked" => sem = 1
    PROVE  CleanOK(b, r, f, "idle", sem2, Append(res, result), busy, x, d, c, any)
<1> DEFINE res2 == Append(res, result)
           p == Len(f)
           S == Seen(f, busy, x, d, c, any, p)
<1>1. /\ Len(res2) = p /\ Len(res) \in Nat /\ p \in Nat
      /\ \A q \in 1 .. Len(res) : res2[q] = res[q]
      /\ res2[Len(res) + 1] = result
  OBVIOUS
<1> HIDE DEF res2
<1>2. \A q \in 1 .. Len(res) : AllAcked(res2, q) => AllAcked(res, q)
  <2>1. \A q \in 1 .. Len(res) : \A z \in 1 .. q : z \in 1 .. Len(res)
    BY <1>1
  <2> QED
    BY <1>1, <2>1 DEF AllAcked
<1>3. AllAcked(res2, p) => AllAcked(res, Len(res)) /\ result = "acked"
  <2>1. p \in 1 .. p /\ \A z \in 1 .. Len(res) : z \in 1 .. p
    BY <1>1
  <2> QED
    BY <1>1, <2>1 DEF AllAcked
<1>4. ASSUME AllAcked(res2, p)
      PROVE  S /\ DoneOK(b, r, f, busy, x, d, c, any)
  <2>1. CurrentOK(b, r, f, pc, sem, busy, x, d, c, any) /\ sem = 1
    BY <1>3, <1>4 DEF CleanOK
  <2>2. S /\ \A i \in 1 .. Len(b) : IsAckOf(b[i], f) => b[i].val = f[p]
    BY <2>1 DEF CurrentOK
  <2>3. busy => x[1].val \in 1 .. p /\ AtLeast(r, x[1].val)
    BY DEF HandledOK
  <2>4. \A i \in 1 .. Len(d) : AtLeast(r, d[i]) /\ (busy => d[i] <= x[1].val)
    BY DEF OrderOK
  <2>5. (\E i \in 1 .. Len(d) : d[i] = p) \/ (busy /\ x[1].val = p)
    <3>1. x[1] = Packet(p) => x[1].val = p
      BY TokenFacts
    <3> QED
      BY <2>2, <3>1 DEF Seen
  <2>6. AtLeast(r, p)
    BY <2>3, <2>4, <2>5
  <2>7. busy => x[1].val = p
    <3>1. busy => p <= x[1].val \/ x[1].val = p
      BY <2>4, <2>5
    <3> QED
      BY <2>3, <3>1, <1>1
  <2>8. ~busy /\ ~any => c = f[p]
    BY <2>1, <2>5 DEF CurrentOK
  <2> QED
    BY <2>2, <2>6, <2>7, <2>8 DEF DoneOK
<1>5. ASSUME NEW q \in 1 .. Len(res2), AllAcked(res2, q)
      PROVE  Seen(f, busy, x, d, c, any, q)
  <2>1. q \in 1 .. Len(res) \/ q = p
    BY <1>1
  <2> QED
    BY <1>2, <1>4, <1>5, <2>1 DEF CleanOK
<1>6. CleanOK(b, r, f, "idle", sem2, res2, busy, x, d, c, any)
  BY <1>1, <1>4, <1>5 DEF CleanOK
<1> QED
  BY <1>6 DEF res2

\* The field of a new packet: its bit, and that the peer has none like it.
LEMMA NewField ==
    ASSUME CrcApart, RpcBase, NEW n \in Nodes, SendBegins(n)
    PROVE  \E v \in Nat : /\ fields' = [fields EXCEPT ![n] = Append(fields[n], v)]
                          /\ v % 2 = tx_flip[n] /\ v \notin FieldsOf(fields[Peer(n)])
<1> DEFINE m == Peer(n)
           l == Len(fields[n]) + 1
           crc == Crc(n, l)
           v == Field(crc, tx_flip[n])
<1>1. m \in Nodes
  BY PeerFacts
<1>2. l \in 1 .. MaxSends[n]
  <2>0. fields[n] \in Seq(Nat) /\ MaxSends[n] \in Nat
    BY RpcUartAssumption DEF RpcBase, RpcTypes
  <2>1. Len(fields[n]) \in Nat /\ MaxSends[n] \in Nat
    BY <2>0
  <2>2. Len(fields[n]) < MaxSends[n]
    BY DEF SendBegins
  <2> QED
    BY <2>1, <2>2
<1>3. crc \in Nat /\ tx_flip[n] \in {0, 1}
  <2>1. crc \in Nat
    BY <1>2, RpcUartAssumption, Zenon
  <2>2. tx_flip[n] \in {0, 1}
    BY DEF RpcBase, RpcTypes
  <2> QED
    BY <2>1, <2>2
<1>4. v \in Nat
  BY <1>3 DEF Field
<1>5. CrcOf(v) = crc /\ v % 2 = tx_flip[n]
  BY <1>3, FieldCrc
<1>6. v \notin FieldsOf(fields[m])
  <2>1. SUFFICES ASSUME NEW q \in 1 .. Len(fields[m]), v = fields[m][q] PROVE FALSE
    BY DEF FieldsOf
  <2>2. Len(fields[m]) <= MaxSends[m] /\ CrcOf(fields[m][q]) = Crc(m, q)
    BY <1>1 DEF RpcBase, RpcControl, ControlOK
  <2>3. MaxSends[m] \in Nat /\ Len(fields[m]) \in Nat
    <3>1. MaxSends[m] \in Nat
      BY <1>1, RpcUartAssumption
    <3>2. fields \in [Nodes -> Seq(Nat)]
      BY DEF RpcBase, RpcTypes
    <3>3. Len(fields[m]) \in Nat
      BY <1>1, <3>2
    <3> QED
      BY <3>1, <3>3
  <2>4. q \in 1 .. MaxSends[m]
    BY <2>2, <2>3
  <2>5. crc # Crc(m, q)
    BY <1>2, <2>4 DEF CrcApart
  <2> QED
    BY <2>1, <2>2, <2>5, <1>5
<1>7. fields' = [fields EXCEPT ![n] = Append(fields[n], v)]
  BY DEF SendBegins
<1> QED
  BY <1>4, <1>5, <1>6, <1>7

\* The bit of the next packet is another one.
LEMMA FlipBegin ==
    ASSUME NEW f \in Seq(Nat), NEW v \in Nat, NEW flip \in {0, 1}, FlipOK(f, flip),
           v % 2 = flip
    PROVE  FlipOK(Append(f, v), 1 - flip)
<1> DEFINE h == Append(f, v)
<1>1. /\ Len(h) = Len(f) + 1 /\ Len(f) \in Nat
      /\ \A q \in 1 .. Len(f) : h[q] = f[q]
      /\ h[Len(f) + 1] = v
  BY AppendField
<1> HIDE DEF h
<1>2. ASSUME NEW p \in 1 .. Len(h) - 1 PROVE h[p] % 2 # h[p + 1] % 2
  <2>1. CASE p = Len(f)
    <3>1. h[p] = f[Len(f)] /\ h[p + 1] = v /\ Len(f) > 0
      BY <1>1, <2>1
    <3> QED
      BY <3>1 DEF FlipOK
  <2>2. CASE p # Len(f)
    <3>1. p \in 1 .. Len(f) - 1 /\ p \in 1 .. Len(f) /\ p + 1 \in 1 .. Len(f)
      BY <1>1, <2>2
    <3>2. h[p] = f[p] /\ h[p + 1] = f[p + 1]
      BY <1>1, <3>1
    <3> QED
      BY <3>1, <3>2 DEF FlipOK
  <2> QED
    BY <2>1, <2>2
<1>3. h[Len(h)] % 2 # 1 - flip
  BY <1>1
<1>4. FlipOK(h, 1 - flip)
  BY <1>2, <1>3 DEF FlipOK
<1> QED
  BY <1>4 DEF h

\* The last two fields differ.
LEMMA LastTwo ==
    ASSUME NEW f \in Seq(Nat), NEW flip, FlipOK(f, flip), Len(f) > 1
    PROVE  f[Len(f) - 1] # f[Len(f)]
<1>1. Len(f) \in Nat
  OBVIOUS
<1>2. Len(f) - 1 \in 1 .. Len(f) - 1 /\ (Len(f) - 1) + 1 = Len(f)
  BY <1>1
<1>3. f[Len(f) - 1] % 2 # f[(Len(f) - 1) + 1] % 2
  BY <1>2 DEF FlipOK
<1> QED
  BY <1>2, <1>3

\* The tokens that come of two.
LEMMA PairTokens ==
    ASSUME NEW t, NEW u, NEW us \in PairOf(t, u)
    PROVE  \A i \in 1 .. Len(us) : us[i] \in {t, u, Damaged}
<1>1. CASE us = <<t, u>>
  BY <1>1
<1>2. CASE us = <<t>>
  BY <1>2
<1>3. CASE us = <<u>>
  BY <1>3
<1>4. CASE us = <<t, Damaged>>
  BY <1>4
<1>5. CASE us = <<Damaged, u>>
  BY <1>5
<1> QED
  BY <1>1, <1>2, <1>3, <1>4, <1>5 DEF PairOf

\* What a node writes: its last packet and its field, or the acknowledgment of
\* the packet it handles.
LEMMA Writes ==
    ASSUME CrcApart, RpcBase, NEW n \in Nodes, Line(Peer(n)),
           SendAttempt(n) \/ SendClose(n) \/ AckOpen(n) \/ AckClose(n), altered' = 0
    PROVE  \E us \in Seq(Tokens) :
            /\ ring' = [ring EXCEPT ![Peer(n)] = ring[Peer(n)] \o us]
            /\ \A i \in 1 .. Len(us) : IsPacket(us[i]) => us[i].val = Len(fields[n])
            /\ Answers(us, fields[Peer(n)], work[n] # "decode", rx_packet[n])
<1> DEFINE m == Peer(n)
           f == fields[n]
           g == fields[m]
<1>r. ring \in [Nodes -> Seq(Tokens)] /\ lost \in Nat /\ altered \in Nat
  BY DEF RpcBase, RpcTypes
<1>t. Delimiter \in Tokens /\ Packet(Len(f)) \in Tokens /\ Checksum(ack_payload[n]) \in Tokens
      /\ (work[n] # "decode" => rx_packet[n][2] \in Tokens)
  BY Written, TokenFacts
<1>d. /\ ~IsPacket(Delimiter) /\ ~IsChecksum(Delimiter)
      /\ ~IsPacket(Damaged) /\ ~IsChecksum(Damaged)
  BY TokenFacts DEF IsPacket, IsChecksum
<1>1. CASE SendAttempt(n)
  <2>1. Emit(n, <<Delimiter, Packet(Len(f))>>)
    BY <1>1 DEF SendAttempt
  <2>2. PICK us \in PairOf(Delimiter, Packet(Len(f))) :
            us \in Seq(Tokens) /\ ring' = [ring EXCEPT ![m] = @ \o us]
    BY <2>1, <1>r, <1>t, EmitPairTrue
  <2>3. \A i \in 1 .. Len(us) : us[i] \in {Delimiter, Packet(Len(f)), Damaged}
    BY PairTokens
  <2>4. Packet(Len(f)).val = Len(f) /\ ~IsChecksum(Packet(Len(f)))
    BY TokenFacts DEF IsChecksum
  <2> QED
    BY <2>2, <2>3, <2>4, <1>d DEF Answers, IsAckOf
<1>2. CASE SendClose(n)
  <2>0. send[n].pc = "close" /\ Emit(n, <<Checksum(ack_payload[n]), Delimiter>>)
    BY <1>2 DEF SendClose, SendAt
  <2>1. ack_payload[n] \in FieldsOf(f)
    <3>1. Len(f) = Len(results[n]) + 1 /\ ack_payload[n] = f[Len(f)]
      BY <2>0 DEF RpcBase, RpcControl, ControlOK
    <3>2. Len(results[n]) \in Nat
      BY DEF RpcBase, RpcTypes
    <3>3. Len(f) \in 1 .. Len(f)
      BY <3>1, <3>2
    <3> QED
      BY <3>1, <3>3 DEF FieldsOf
  <2>2. PICK us \in PairOf(Checksum(ack_payload[n]), Delimiter) :
            us \in Seq(Tokens) /\ ring' = [ring EXCEPT ![m] = @ \o us]
    BY <2>0, <1>r, <1>t, EmitPairTrue
  <2>3. \A i \in 1 .. Len(us) : us[i] \in {Checksum(ack_payload[n]), Delimiter, Damaged}
    BY PairTokens
  <2>4. Checksum(ack_payload[n]).val = ack_payload[n]
        /\ ~IsPacket(Checksum(ack_payload[n]))
    BY TokenFacts DEF IsPacket
  <2>5. ack_payload[n] \notin FieldsOf(g)
    BY <2>1, FieldsApart
  <2> QED
    BY <2>2, <2>3, <2>4, <2>5, <1>d DEF Answers, IsAckOf
<1>3. CASE AckOpen(n)
  <2>0. work[n] = "ack" /\ Emit(n, <<Delimiter, rx_packet[n][2]>>)
    BY <1>3 DEF AckOpen, WorkAt
  <2>1. rx_packet[n][2] = Checksum(g[rx_packet[n][1].val]) /\ ~IsPacket(rx_packet[n][2])
    BY <2>0, AckedField
  <2>2. PICK us \in PairOf(Delimiter, rx_packet[n][2]) :
            us \in Seq(Tokens) /\ ring' = [ring EXCEPT ![m] = @ \o us]
    BY <2>0, <1>r, <1>t, EmitPairTrue
  <2>3. \A i \in 1 .. Len(us) : us[i] \in {Delimiter, rx_packet[n][2], Damaged}
    BY PairTokens
  <2>4. rx_packet[n][2].val = g[rx_packet[n][1].val]
    BY <2>1, TokenFacts
  <2> QED
    BY <2>0, <2>1, <2>2, <2>3, <2>4, <1>d DEF Answers, IsAckOf
<1>4. CASE AckClose(n)
  <2>0. Emit(n, <<Delimiter>>)
    BY <1>4 DEF AckClose
  <2>2. PICK us \in {<<Delimiter>>, <<>>, <<Damaged>>} :
            us \in Seq(Tokens) /\ ring' = [ring EXCEPT ![m] = @ \o us]
    <3>1. Delimiter \in Tokens /\ Delimiter.kind # "CHECKSUM"
      BY TokenFacts
    <3>2. \E us \in {<<Delimiter>>, <<>>, <<Damaged>>} :
            /\ us \in Seq(Tokens)
            /\ ring' = [ring EXCEPT ![Peer(n)] = @ \o us]
            /\ (us = <<Delimiter>> /\ lost' = lost) \/ lost' = lost + 1
      BY <2>0, <1>r, <3>1, EmitOne, Zenon
    <3> QED
      BY <3>2, Zenon
  <2>3. \A i \in 1 .. Len(us) : us[i] \in {Delimiter, Damaged}
    <3>1. CASE us = <<>>
      BY <3>1
    <3>2. CASE us = <<Delimiter>>
      BY <3>2
    <3>3. CASE us = <<Damaged>>
      BY <3>3
    <3> QED
      BY <2>2, <3>1, <3>2, <3>3
  <2> QED
    BY <2>2, <2>3, <1>d DEF Answers, IsAckOf
<1> QED
  BY <1>1, <1>2, <1>3, <1>4

\* Every step keeps the acknowledgments right.
LEMMA AckStep ==
    ASSUME CrcApart, RpcBase, NEW n \in Nodes, \A k \in Nodes : Line(k), Acks(n),
           [RpcNext]_rpcVars, altered' = 0
    PROVE  Acks(n)'
<1> DEFINE m == Peer(n)
           b == ring[n]
           r == ring[m]
           f == fields[n]
           g == fields[m]
           flip == tx_flip[n]
           pc == send[n].pc
           sem == ack_sem[n]
           res == results[n]
           busy == work[m] # "decode"
           x == rx_packet[m]
           d == delivered[n]
           c == last_rx_crc[m]
           any == rx_flip_any[m]
           kn == restarts[n]
           km == restarts[m]
<1>p. m \in Nodes /\ m # n /\ Peer(m) = n /\ \A k \in Nodes : k = n \/ k = m
  BY PeerFacts, Zenon
<1>r. ring \in [Nodes -> Seq(Tokens)] /\ b \in Seq(Tokens) /\ r \in Seq(Tokens)
  BY <1>p DEF RpcBase, RpcTypes
<1>f. fields \in [Nodes -> Seq(Nat)] /\ f \in Seq(Nat) /\ g \in Seq(Nat)
  BY <1>p DEF RpcBase, RpcTypes
<1>x. tx_flip \in [Nodes -> {0, 1}] /\ ack_sem \in [Nodes -> {0, 1}] /\ flip \in {0, 1}
  BY DEF RpcBase, RpcTypes
<1>s. send \in [Nodes -> [pc : {"idle", "attempt", "close", "wait"},
                          attempts : 0 .. TxAttempts]]
  BY DEF RpcBase, RpcTypes
<1>e. results \in [Nodes -> Seq({"acked", "failed", "cut"})]
      /\ res \in Seq({"acked", "failed", "cut"})
  BY DEF RpcBase, RpcTypes
<1>w. work \in [Nodes -> {"decode", "ack", "ack_close", "deliver"}]
      /\ rx_packet \in [Nodes -> Seq(Tokens)]
  BY DEF RpcBase, RpcTypes
<1>d. delivered \in [Nodes -> Seq(Nat)] /\ d \in Seq(Nat)
  BY DEF RpcBase, RpcTypes
<1>l. /\ last_rx_crc \in [Nodes -> Nat] /\ rx_flip_any \in [Nodes -> BOOLEAN]
      /\ restarts \in [Nodes -> Nat] /\ any \in BOOLEAN /\ km \in Nat /\ kn \in Nat
  BY <1>p DEF RpcBase, RpcTypes
<1>c. /\ pc = "idle" => Len(res) = Len(f)
      /\ pc # "idle" => Len(f) = Len(res) + 1 /\ ack_payload[n] = f[Len(f)]
  BY DEF RpcBase, RpcControl, ControlOK
<1>n. Len(res) \in Nat /\ Len(f) \in Nat
  BY <1>e, <1>f
<1>c1. pc # "idle" => Len(f) >= 1 /\ Len(f) \in 1 .. Len(f)
  BY <1>c, <1>n
<1>c2. Len(res) <= Len(f)
  BY <1>c, <1>n
<1>o. LineOK(r, f, g, pc = "close", busy, x, d, c, any, km)
  BY DEF Line
<1>b. RingOK(b, g, f, send[m].pc = "close")
  <2>1. Line(m)
    BY <1>p
  <2> QED
    BY <2>1, <1>p DEF Line, LineOK
<1>a. /\ kn = 0 => FlipOK(f, flip)
      /\ km = 0 => AckOK(b, f, pc, sem, res, busy, x, d, c, any)
      /\ kn = 0 /\ km = 0 => CleanOK(b, r, f, pc, sem, res, busy, x, d, c, any)
  BY DEF Acks
<1>line. LineOK(ring'[m], fields'[n], fields'[m], send'[n].pc = "close",
                work'[m] # "decode", rx_packet'[m], delivered'[n],
                last_rx_crc'[m], rx_flip_any'[m], restarts'[m])
  <2>1. Line(n)'
    BY LineStep
  <2> QED
    BY <2>1 DEF Line
<1>goal. ASSUME restarts'[n] = 0 => FlipOK(fields'[n], tx_flip'[n]),
                restarts'[m] = 0 =>
                    AckOK(ring'[n], fields'[n], send'[n].pc, ack_sem'[n], results'[n],
                          work'[m] # "decode", rx_packet'[m], delivered'[n],
                          last_rx_crc'[m], rx_flip_any'[m]),
                restarts'[n] = 0 /\ restarts'[m] = 0 =>
                    CleanOK(ring'[n], ring'[m], fields'[n], send'[n].pc, ack_sem'[n],
                            results'[n], work'[m] # "decode", rx_packet'[m], delivered'[n],
                            last_rx_crc'[m], rx_flip_any'[m])
         PROVE  Acks(n)'
  BY <1>goal DEF Acks
<1> HIDE DEF m, b, r, f, g, flip, pc, sem, res, busy, x, d, c, any, kn, km
<1>bb. busy \in BOOLEAN
  BY DEF busy
<1>lo. RingOK(r, f, g, pc = "close") /\ HandledOK(r, f, busy, x)
       /\ OrderOK(r, f, busy, x, d)
  BY <1>o DEF LineOK
<1>last. kn = 0 => (Len(f) > 1 => f[Len(f) - 1] # f[Len(f)])
  BY <1>a, <1>f, LastTwo
\* The parts of the state that m's handling of packets changes stay, and so do
\* n's fields.
<1>calm. ASSUME NEW b2, NEW r2, NEW pc2, NEW sem2, NEW res2,
                ring'[n] = b2, ring'[m] = r2, fields'[n] = f, tx_flip'[n] = flip,
                send'[n].pc = pc2, ack_sem'[n] = sem2, results'[n] = res2,
                (work'[m] # "decode") = busy, rx_packet'[m] = x, delivered'[n] = d,
                last_rx_crc'[m] = c, rx_flip_any'[m] = any,
                restarts'[n] = kn, restarts'[m] = km,
                km = 0 => AckOK(b2, f, pc2, sem2, res2, busy, x, d, c, any),
                kn = 0 /\ km = 0 => CleanOK(b2, r2, f, pc2, sem2, res2, busy, x, d, c, any)
         PROVE  Acks(n)'
  BY <1>calm, <1>a, <1>goal
\* So do b and the results; n's own control may change.
<1>stay. ASSUME NEW r2, NEW pc2, NEW sem2,
                ring'[n] = b, ring'[m] = r2, fields'[n] = f, fields'[m] = g,
                tx_flip'[n] = flip,
                send'[n].pc = pc2, ack_sem'[n] = sem2, results'[n] = res,
                (work'[m] # "decode") = busy, rx_packet'[m] = x, delivered'[n] = d,
                last_rx_crc'[m] = c, rx_flip_any'[m] = any,
                restarts'[n] = kn, restarts'[m] = km,
                \A p \in 1 .. Len(f) : AtLeast(r, p) => AtLeast(r2, p),
                pc2 = "idle" <=> pc = "idle",
                sem2 = 1 /\ pc2 \in {"close", "wait"} => sem = 1 /\ pc \in {"close", "wait"}
         PROVE  Acks(n)'
  <2>1. km = 0 => AckOK(b, f, pc2, sem2, res, busy, x, d, c, any)
    BY <1>a, <1>stay DEF AckOK
  <2>2. RingOK(r2, f, g, pc2 = "close")
    BY <1>line, <1>stay DEF LineOK
  <2>3. kn = 0 /\ km = 0 => CleanOK(b, r2, f, pc2, sem2, res, busy, x, d, c, any)
    <3> SUFFICES ASSUME kn = 0, km = 0
                 PROVE  CleanOK(b, r2, f, pc2, sem2, res, busy, x, d, c, any)
      OBVIOUS
    <3>1. CleanOK(b, r, f, pc, sem, res, busy, x, d, c, any) /\ f \in Seq(Nat)
          /\ (pc # "idle" => Len(f) >= 1)
      BY <1>a, <1>f, <1>c1
    <3>2. /\ pc2 = "idle" <=> pc = "idle"
          /\ sem2 = 1 /\ pc2 \in {"close", "wait"} => sem = 1 /\ pc \in {"close", "wait"}
          /\ \A p \in 1 .. Len(f) : AtLeast(r, p) => AtLeast(r2, p)
      BY <1>stay
    <3> QED
      BY <2>2, <3>1, <3>2, CleanStay
  <2> QED
    BY <2>1, <2>3, <1>stay, <1>calm
\* Nothing changes for n.
<1>same. ASSUME ring'[n] = b, ring'[m] = r, fields'[n] = f, tx_flip'[n] = flip,
                send'[n].pc = pc, ack_sem'[n] = sem, results'[n] = res,
                (work'[m] # "decode") = busy, rx_packet'[m] = x, delivered'[n] = d,
                last_rx_crc'[m] = c, rx_flip_any'[m] = any,
                restarts'[n] = kn, restarts'[m] = km
         PROVE  Acks(n)'
  BY <1>same, <1>a, <1>calm
<1>0. CASE UNCHANGED rpcVars
  BY <1>0, <1>same DEF rpcVars, sendVars, rxVars, b, r, f, flip, pc, sem, res, busy, x, d,
                       c, any, kn, km
<1>1. CASE SendBegins(n)
  <2>1. PICK v \in Nat : /\ fields' = [fields EXCEPT ![n] = Append(f, v)]
                         /\ v % 2 = flip /\ v \notin FieldsOf(g)
    BY <1>1, NewField DEF f, g, flip, m
  <2>2. fields'[n] = Append(f, v)
    BY <2>1, <1>f
  <2>3. /\ send'[n].pc = "attempt" /\ tx_flip'[n] = 1 - flip /\ pc = "idle"
        /\ ack_sem' = ack_sem /\ results' = results
        /\ ring' = ring /\ work' = work /\ delivered' = delivered
        /\ rx_packet' = rx_packet /\ last_rx_crc' = last_rx_crc
        /\ rx_flip_any' = rx_flip_any /\ restarts' = restarts
    BY <1>1, <1>s, <1>x DEF SendBegins, rxVars, TxFlip, SendAt, flip, pc
  <2>4. kn = 0 => FlipOK(Append(f, v), 1 - flip)
    BY <1>a, <1>f, <1>x, <2>1, FlipBegin
  <2>5. Len(res) = Len(f)
    BY <1>c, <2>3
  <2>6. km = 0 => AckOK(b, Append(f, v), "attempt", sem, res, busy, x, d, c, any)
    <3> SUFFICES ASSUME km = 0
                 PROVE  AckOK(b, Append(f, v), "attempt", sem, res, busy, x, d, c, any)
      OBVIOUS
    <3>1. AckOK(b, f, pc, sem, res, busy, x, d, c, any) /\ OrderOK(r, f, busy, x, d)
          /\ f \in Seq(Nat)
      BY <1>a, <1>lo, <1>f
    <3> QED
      BY <1>b, <2>1, <2>5, <3>1, AckBegin
  <2>7. kn = 0 /\ km = 0 =>
            CleanOK(b, r, Append(f, v), "attempt", sem, res, busy, x, d, c, any)
    <3> SUFFICES ASSUME kn = 0, km = 0
                 PROVE  CleanOK(b, r, Append(f, v), "attempt", sem, res, busy, x, d, c, any)
      OBVIOUS
    <3>1. CleanOK(b, r, f, "idle", sem, res, busy, x, d, c, any)
      BY <1>a, <2>3
    <3>2. /\ r \in Seq(Tokens) /\ f \in Seq(Nat) /\ busy \in BOOLEAN /\ d \in Seq(Nat)
          /\ any \in BOOLEAN
      BY <1>r, <1>f, <1>bb, <1>d, <1>l
    <3> QED
      BY <1>b, <1>o, <2>1, <2>5, <3>1, <3>2, CleanBegin
  <2> QED
    BY <2>2, <2>3, <2>4, <2>6, <2>7, <1>goal DEF b, r, sem, res, busy, x, d, c, any, kn, km
<1>2. CASE SendBegins(m)
  <2>1. fields'[n] = f /\ send'[n] = send[n] /\ tx_flip'[n] = tx_flip[n]
    BY <1>2, <1>p, <1>f, <1>s, <1>x DEF SendBegins, TxFlip, f
  <2>2. /\ ack_sem' = ack_sem /\ results' = results
        /\ ring' = ring /\ work' = work /\ delivered' = delivered
        /\ rx_packet' = rx_packet /\ last_rx_crc' = last_rx_crc
        /\ rx_flip_any' = rx_flip_any /\ restarts' = restarts
    BY <1>2 DEF SendBegins, rxVars
  <2> QED
    BY <2>1, <2>2, <1>same DEF b, r, flip, pc, sem, res, busy, x, d, c, any, kn, km
\* n writes.
<1>3. CASE SendAttempt(n) \/ SendClose(n) \/ AckOpen(n) \/ AckClose(n)
  <2>1. PICK us \in Seq(Tokens) :
            /\ ring' = [ring EXCEPT ![m] = r \o us]
            /\ \A i \in 1 .. Len(us) : IsPacket(us[i]) => us[i].val = Len(f)
    BY <1>3, <1>p, Writes DEF m, r, f
  <2>2. ring'[m] = r \o us /\ ring'[n] = b
    BY <2>1, <1>p, <1>r DEF b
  <2>3. \A p \in 1 .. Len(f) : AtLeast(r, p) => AtLeast(r \o us, p)
    <3>1. ASSUME NEW p \in 1 .. Len(f), AtLeast(r, p),
                 NEW i \in 1 .. Len(r \o us), IsPacket((r \o us)[i])
          PROVE  p <= (r \o us)[i].val
      <4>1. CASE i \in 1 .. Len(r)
        <5>1. (r \o us)[i] = r[i]
          BY <4>1, <1>r, Concat
        <5> QED
          BY <3>1, <4>1, <5>1 DEF AtLeast
      <4>2. CASE i - Len(r) \in 1 .. Len(us) /\ (r \o us)[i] = us[i - Len(r)]
        <5>1. (r \o us)[i].val = Len(f)
          BY <2>1, <3>1, <4>2
        <5> QED
          BY <5>1, <1>n
      <4> QED
        BY <4>1, <4>2, <1>r, Concat
    <3> QED
      BY <3>1 DEF AtLeast
  <2>4. /\ fields' = fields /\ tx_flip' = tx_flip /\ results' = results
        /\ delivered' = delivered /\ rx_packet' = rx_packet /\ last_rx_crc' = last_rx_crc
        /\ rx_flip_any' = rx_flip_any /\ restarts' = restarts
    BY <1>3 DEF SendAttempt, SendClose, AckOpen, AckClose, sendVars, rxVars
  <2>5. work'[m] = work[m]
    BY <1>3, <1>p, <1>w DEF SendAttempt, SendClose, AckOpen, AckClose, WorkGoto
  <2>6. /\ send'[n].pc = "idle" <=> pc = "idle"
        /\ ack_sem'[n] = 1 /\ send'[n].pc \in {"close", "wait"} =>
            sem = 1 /\ pc \in {"close", "wait"}
    <3>1. CASE SendAttempt(n)
      BY <3>1, <1>s, <1>x DEF SendAttempt, SendAt, pc, sem
    <3>2. CASE SendClose(n)
      BY <3>2, <1>s, <1>x DEF SendClose, SendAt, SendGoto, pc, sem
    <3>3. CASE AckOpen(n) \/ AckClose(n)
      BY <3>3 DEF AckOpen, AckClose, sendVars, pc, sem
    <3> QED
      BY <1>3, <3>1, <3>2, <3>3
  <2> QED
    BY <2>2, <2>3, <2>4, <2>5, <2>6, <1>stay
       DEF f, g, flip, res, busy, x, d, c, any, kn, km
\* m writes.
<1>4. CASE SendAttempt(m) \/ SendClose(m) \/ AckOpen(m) \/ AckClose(m)
  <2>1. PICK us \in Seq(Tokens) :
            ring' = [ring EXCEPT ![n] = b \o us] /\ Answers(us, f, busy, x)
    BY <1>4, <1>p, Writes DEF b, f, busy, x
  <2>2. ring'[n] = b \o us /\ ring'[m] = r
    BY <2>1, <1>p, <1>r DEF r
  <2>4. /\ fields' = fields /\ tx_flip' = tx_flip /\ results' = results
        /\ delivered' = delivered /\ rx_packet' = rx_packet /\ last_rx_crc' = last_rx_crc
        /\ rx_flip_any' = rx_flip_any /\ restarts' = restarts
    BY <1>4 DEF SendAttempt, SendClose, AckOpen, AckClose, sendVars, rxVars
  <2>5. (work'[m] # "decode") = busy
    BY <1>4, <1>p, <1>w DEF SendAttempt, SendClose, AckOpen, AckClose, WorkAt, WorkGoto, busy
  <2>6. send'[n].pc = pc /\ ack_sem'[n] = sem
    <3>1. CASE SendAttempt(m)
      BY <3>1, <1>p, <1>s, <1>x DEF SendAttempt, pc, sem
    <3>2. CASE SendClose(m)
      BY <3>2, <1>p, <1>s, <1>x DEF SendClose, SendGoto, pc, sem
    <3>3. CASE AckOpen(m) \/ AckClose(m)
      BY <3>3 DEF AckOpen, AckClose, sendVars, pc, sem
    <3> QED
      BY <1>4, <3>1, <3>2, <3>3
  <2>7. km = 0 => AckOK(b \o us, f, pc, sem, res, busy, x, d, c, any)
    BY <1>a, <1>lo, <1>r, <2>1, AckMore
  <2>8. kn = 0 /\ km = 0 => CleanOK(b \o us, r, f, pc, sem, res, busy, x, d, c, any)
    BY <1>a, <1>lo, <1>r, <1>f, <2>1, CleanMore
  <2> QED
    BY <2>2, <2>4, <2>5, <2>6, <2>7, <2>8, <1>calm DEF f, flip, res, x, d, c, any, kn, km
\* n's send() returns, or takes another attempt.
<1>5. ASSUME NEW result \in {"acked", "failed", "cut"}, NEW sem2,
             results'[n] = Append(res, result), pc = "wait",
             result = "acked" => sem = 1, send'[n].pc = "idle", ack_sem'[n] = sem2,
             ring' = ring, fields' = fields, tx_flip' = tx_flip, work' = work,
             rx_packet' = rx_packet, delivered' = delivered, last_rx_crc' = last_rx_crc,
             rx_flip_any' = rx_flip_any, restarts' = restarts
      PROVE  Acks(n)'
  <2>1. Len(f) = Len(res) + 1
    BY <1>5, <1>c
  <2>2. km = 0 => AckOK(b, f, "idle", sem2, Append(res, result), busy, x, d, c, any)
    BY <1>a, <1>e, <1>5, <2>1, AckReturns
  <2>3. kn = 0 /\ km = 0 =>
            CleanOK(b, r, f, "idle", sem2, Append(res, result), busy, x, d, c, any)
    <3> SUFFICES ASSUME kn = 0, km = 0
                 PROVE  CleanOK(b, r, f, "idle", sem2, Append(res, result), busy, x, d, c, any)
      OBVIOUS
    <3>1. CleanOK(b, r, f, pc, sem, res, busy, x, d, c, any)
      BY <1>a
    <3>2. f \in Seq(Nat) /\ busy \in BOOLEAN /\ any \in BOOLEAN
          /\ res \in Seq({"acked", "failed", "cut"})
      BY <1>f, <1>bb, <1>l, <1>e
    <3> QED
      <4>1. /\ pc = "wait" /\ (result = "acked" => sem = 1)
            /\ HandledOK(r, f, busy, x) /\ OrderOK(r, f, busy, x, d)
            /\ result \in {"acked", "failed", "cut"}
        BY <1>5, <1>lo
      <4> QED
        BY <2>1, <3>1, <3>2, <4>1, CleanReturns, ZenonT(60)
  <2> QED
    BY <1>5, <2>2, <2>3, <1>calm DEF b, r, f, flip, busy, x, d, c, any, kn, km
<1>6. CASE SendAcked(n)
  <2>1. /\ results'[n] = Append(res, "acked") /\ pc = "wait" /\ sem = 1
        /\ send'[n].pc = "idle"
    BY <1>6, <1>s, <1>e DEF SendAcked, SendReturns, SendAt, res, pc, sem
  <2>2. /\ ring' = ring /\ fields' = fields /\ tx_flip' = tx_flip /\ work' = work
        /\ rx_packet' = rx_packet /\ delivered' = delivered /\ last_rx_crc' = last_rx_crc
        /\ rx_flip_any' = rx_flip_any /\ restarts' = restarts
    BY <1>6 DEF SendAcked, rxVars
  <2> QED
    BY <2>1, <2>2, <1>5
<1>7. CASE SendTimesOut(n)
  <2>1. /\ ring' = ring /\ fields' = fields /\ tx_flip' = tx_flip /\ work' = work
        /\ rx_packet' = rx_packet /\ delivered' = delivered /\ last_rx_crc' = last_rx_crc
        /\ rx_flip_any' = rx_flip_any /\ restarts' = restarts /\ ack_sem' = ack_sem
        /\ pc = "wait"
    BY <1>7 DEF SendTimesOut, SendAt, rxVars, pc
  <2>2. CASE SendGoto(n, "attempt") /\ UNCHANGED results
    <3>1. send'[n].pc = "attempt" /\ results'[n] = res
      BY <2>2, <1>s DEF SendGoto, res
    <3> QED
      BY <2>1, <3>1, <1>stay DEF b, r, f, g, flip, sem, busy, x, d, c, any, kn, km
  <2>3. CASE SendReturns(n, "failed")
    <3>1. send'[n].pc = "idle" /\ results'[n] = Append(res, "failed")
      BY <2>3, <1>s, <1>e DEF SendReturns, res
    <3> QED
      BY <2>1, <3>1, <1>5
  <2> QED
    BY <1>7, <2>2, <2>3 DEF SendTimesOut
<1>8. CASE SendAcked(m) \/ SendTimesOut(m)
  <2>1. /\ ring' = ring /\ fields' = fields /\ tx_flip' = tx_flip /\ work' = work
        /\ rx_packet' = rx_packet /\ delivered' = delivered /\ last_rx_crc' = last_rx_crc
        /\ rx_flip_any' = rx_flip_any /\ restarts' = restarts
    BY <1>8 DEF SendAcked, SendTimesOut, rxVars
  <2>2. send'[n].pc = pc /\ ack_sem'[n] = sem /\ results'[n] = res
    <3>1. CASE SendAcked(m)
      BY <3>1, <1>p, <1>s, <1>x, <1>e DEF SendAcked, SendReturns, pc, sem, res
    <3>2. CASE SendTimesOut(m)
      BY <3>2, <1>p, <1>s, <1>x, <1>e DEF SendTimesOut, SendReturns, SendGoto, pc, sem, res
    <3> QED
      BY <1>8, <3>1, <3>2
  <2> QED
    BY <2>1, <2>2, <1>same DEF b, r, f, flip, busy, x, d, c, any, kn, km
\* n takes a frame from its ring.
<1>9. CASE Decode(n)
  <2>1. PICK k \in DOMAIN b :
            /\ ring' = [ring EXCEPT ![n] = SubSeq(b, k + 1, Len(b))]
            /\ ack_sem' = [ack_sem EXCEPT ![n] =
                            IF SubSeq(b, 1, k - 1) = <<Checksum(ack_payload[n])>>
                            THEN 1 ELSE ack_sem[n]]
    BY <1>9, DecodeFacts DEF b
  <2>2. PICK sem2 : sem2 = IF SubSeq(b, 1, k - 1) = <<Checksum(ack_payload[n])>>
                           THEN 1 ELSE sem
    OBVIOUS
  <2>3. ring'[n] = SubSeq(b, k + 1, Len(b)) /\ ring'[m] = r /\ ack_sem'[n] = sem2
    BY <2>1, <2>2, <1>p, <1>r, <1>x DEF r, sem
  <2>4. /\ fields' = fields /\ tx_flip' = tx_flip /\ send' = send /\ results' = results
        /\ delivered' = delivered /\ last_rx_crc' = last_rx_crc
        /\ rx_flip_any' = rx_flip_any /\ restarts' = restarts
    BY <1>9 DEF Decode, sendVars
  <2>5. work'[m] = work[m] /\ rx_packet'[m] = rx_packet[m]
    BY <1>9, <1>p, <1>w DEF Decode, WorkGoto
  <2>6. km = 0 =>
            AckOK(SubSeq(b, k + 1, Len(b)), f, pc, sem2, res, busy, x, d, c, any)
    <3> SUFFICES ASSUME km = 0
                 PROVE  AckOK(SubSeq(b, k + 1, Len(b)), f, pc, sem2, res, busy, x, d, c, any)
      OBVIOUS
    <3>1. AckOK(b, f, pc, sem, res, busy, x, d, c, any) /\ b \in Seq(Tokens)
      BY <1>a, <1>r
    <3>2. pc \in {"close", "wait"} => ack_payload[n] = f[Len(f)] /\ Len(f) \in 1 .. Len(f)
      BY <1>c, <1>c1
    <3> QED
      BY <2>2, <3>1, <3>2, AckCut
  <2>7. kn = 0 /\ km = 0 =>
            CleanOK(SubSeq(b, k + 1, Len(b)), r, f, pc, sem2, res, busy, x, d, c, any)
    <3> SUFFICES ASSUME kn = 0, km = 0
                 PROVE  CleanOK(SubSeq(b, k + 1, Len(b)), r, f, pc, sem2, res, busy, x, d, c,
                                any)
      OBVIOUS
    <3>1. CleanOK(b, r, f, pc, sem, res, busy, x, d, c, any) /\ b \in Seq(Tokens)
          /\ f \in Seq(Nat)
      BY <1>a, <1>r, <1>f
    <3>2. pc # "idle" => ack_payload[n] = f[Len(f)] /\ Len(f) \in 1 .. Len(f)
      BY <1>c, <1>c1
    <3> QED
      BY <2>2, <3>1, <3>2, <1>last, CleanCut
  <2> QED
    BY <2>3, <2>4, <2>5, <2>6, <2>7, <1>calm DEF f, flip, pc, res, busy, x, d, c, any, kn, km
<1>10. CASE Deliver(n)
  <2>1. /\ ring' = ring /\ fields' = fields /\ tx_flip' = tx_flip /\ send' = send
        /\ ack_sem' = ack_sem /\ results' = results /\ restarts' = restarts
    BY <1>10 DEF Deliver, sendVars
  <2>2. work'[m] = work[m] /\ rx_packet'[m] = rx_packet[m]
    BY <1>10, <1>p, <1>w DEF Deliver, WorkGoto
  <2>3. last_rx_crc'[m] = last_rx_crc[m] /\ rx_flip_any'[m] = rx_flip_any[m]
    BY <1>10, <1>p, <1>l DEF Deliver
  <2>4. delivered'[n] = delivered[n]
    <3>1. delivered' = delivered \/ \E v : delivered' = [delivered EXCEPT ![m] = v]
      BY <1>10 DEF Deliver, m
    <3> QED
      BY <3>1, <1>p, <1>d
  <2> QED
    BY <2>1, <2>2, <2>3, <2>4, <1>same
       DEF b, r, f, flip, pc, sem, res, busy, x, d, c, any, kn, km
<1>11. CASE Restart(n)
  <2>1. /\ ring'[n] = <<>> /\ send'[n].pc = "idle" /\ restarts'[n] = kn + 1
        /\ work'[m] = work[m] /\ rx_packet'[m] = rx_packet[m] /\ restarts'[m] = restarts[m]
    BY <1>11, <1>p, <1>r, <1>s, <1>w, <1>l DEF Restart, kn
  <2>2. last_rx_crc'[m] = last_rx_crc[m] /\ rx_flip_any'[m] = rx_flip_any[m]
        /\ fields' = fields /\ delivered' = delivered
    BY <1>11, <1>p, <1>l DEF Restart
  <2>3. results'[n] = IF pc = "idle" THEN res ELSE Append(res, "cut")
    BY <1>11, <1>e DEF Restart, SendAt, pc, res
  <2>4. kn + 1 # 0
    BY <1>l
  <2>5. PICK sem2 : sem2 = ack_sem'[n]
    OBVIOUS
  <2>6. ASSUME NEW res2, AckOK(b, f, "idle", sem2, res2, busy, x, d, c, any)
        PROVE  AckOK(<<>>, f, "idle", sem2, res2, busy, x, d, c, any)
    <3>1. \A i \in 1 .. Len(<<>>) : FALSE
      OBVIOUS
    <3> QED
      BY <2>6, <3>1 DEF AckOK
  <2>7. km = 0 => AckOK(<<>>, f, "idle", sem2, IF pc = "idle" THEN res ELSE Append(res, "cut"),
                        busy, x, d, c, any)
    <3> SUFFICES ASSUME km = 0
                 PROVE  AckOK(<<>>, f, "idle", sem2,
                              IF pc = "idle" THEN res ELSE Append(res, "cut"),
                              busy, x, d, c, any)
      OBVIOUS
    <3>1. AckOK(b, f, pc, sem, res, busy, x, d, c, any)
      BY <1>a
    <3>2. CASE pc = "idle"
      <4>1. AckOK(b, f, "idle", sem2, res, busy, x, d, c, any)
        BY <3>1 DEF AckOK
      <4> QED
        BY <3>2, <4>1, <2>6
    <3>3. CASE pc # "idle"
      <4>1. AckOK(b, f, "idle", sem2, Append(res, "cut"), busy, x, d, c, any)
        BY <3>1, <3>3, <1>c, <1>e, AckReturns
      <4> QED
        BY <3>3, <4>1, <2>6
    <3> QED
      BY <3>2, <3>3
  <2> QED
    BY <2>1, <2>2, <2>3, <2>4, <2>5, <2>7, <1>goal DEF f, busy, x, d, c, any, km
\* m takes a frame from its ring.
<1>12. CASE Decode(m)
  <2>1. PICK k \in DOMAIN r :
            /\ ring' = [ring EXCEPT ![m] = SubSeq(r, k + 1, Len(r))]
            /\ \/ /\ FrameValid(m, SubSeq(r, 1, k - 1))
                  /\ work' = [work EXCEPT ![m] = "ack"]
                  /\ rx_packet' = [rx_packet EXCEPT ![m] = SubSeq(r, 1, k - 1)]
               \/ work' = work /\ rx_packet' = rx_packet
    BY <1>12, <1>p, DecodeFacts DEF r
  <2>2. /\ fields' = fields /\ tx_flip' = tx_flip /\ send' = send /\ results' = results
        /\ delivered' = delivered /\ last_rx_crc' = last_rx_crc
        /\ rx_flip_any' = rx_flip_any /\ restarts' = restarts /\ ~busy
    BY <1>12 DEF Decode, sendVars, WorkAt, busy
  <2>3. ack_sem'[n] = sem
    BY <1>12, <1>p, <1>x DEF Decode, sem
  <2>4. PICK s : s = SubSeq(r, k + 1, Len(r))
    OBVIOUS
  <2>5. ring'[m] = s /\ ring'[n] = b
    BY <2>1, <2>4, <1>p, <1>r DEF b
  <2>6. \A p : AtLeast(r, p) => AtLeast(s, p)
    BY <2>4, <1>lo, <1>r, RingCut
  <2>7. CASE work' = work /\ rx_packet' = rx_packet
    BY <2>2, <2>3, <2>5, <2>6, <2>7, <1>stay
       DEF f, g, flip, pc, res, busy, x, d, c, any, kn, km
  <2>8. CASE /\ FrameValid(m, SubSeq(r, 1, k - 1))
             /\ work' = [work EXCEPT ![m] = "ack"]
             /\ rx_packet' = [rx_packet EXCEPT ![m] = SubSeq(r, 1, k - 1)]
    <3>1. PICK y : y = SubSeq(r, 1, k - 1)
      OBVIOUS
    <3>2. work'[m] = "ack" /\ rx_packet'[m] = y
      BY <2>8, <3>1, <1>p, <1>w
    <3>3. Len(y) = 2 /\ IsPacket(y[1])
      BY <2>8, <3>1 DEF FrameValid, IsPacket
    <3>4. 1 \in 1 .. Len(r) /\ y[1] = r[1]
      <4>1. /\ k \in 1 .. Len(r) /\ Len(y) = k - 1
            /\ \A i \in 1 .. k - 1 : y[i] = r[i]
        BY <3>1, <1>r, DecodeParts, Zenon
      <4>2. 1 \in 1 .. k - 1 /\ 1 \in 1 .. Len(r)
        <5>1. k \in 1 .. Len(r) /\ 2 = k - 1
          BY <4>1, <3>3, Zenon
        <5> QED
          BY <5>1
      <4> QED
        BY <4>1, <4>2, Zenon
    <3>5. \A p : AtLeast(r, p) => AtLeast(s, p) /\ p <= y[1].val
      BY <2>6, <3>3, <3>4 DEF AtLeast
    <3>6. HandledOK(s, f, TRUE, y)
      BY <1>line, <2>2, <2>5, <3>2 DEF LineOK, f
    <3>7. km = 0 => AckOK(b, f, pc, sem, res, TRUE, y, d, c, any)
      <4>1. km = 0 => AckOK(b, f, pc, sem, res, FALSE, x, d, c, any)
        BY <1>a, <2>2, <1>bb
      <4> QED
        BY <4>1, AckHandle
    <3>8. kn = 0 /\ km = 0 => CleanOK(b, s, f, pc, sem, res, TRUE, y, d, c, any)
      <4> SUFFICES ASSUME kn = 0, km = 0
                   PROVE  CleanOK(b, s, f, pc, sem, res, TRUE, y, d, c, any)
        OBVIOUS
      <4>1. CleanOK(b, r, f, pc, sem, res, FALSE, x, d, c, any)
        BY <1>a, <2>2, <1>bb
      <4>2. f \in Seq(Nat) /\ any \in BOOLEAN
        BY <1>f, <1>l
      <4> QED
        BY <3>5, <3>6, <4>1, <4>2, <1>last, CleanHandle
    <3> QED
      BY <1>a, <2>2, <2>3, <2>5, <3>2, <3>7, <3>8, <1>goal
         DEF f, flip, pc, res, d, c, any, kn, km
  <2> QED
    BY <2>1, <2>7, <2>8
<1>13. CASE Deliver(m)
  <2>1. /\ ring' = ring /\ fields' = fields /\ tx_flip' = tx_flip /\ send' = send
        /\ ack_sem' = ack_sem /\ results' = results /\ restarts' = restarts
        /\ work[m] = "deliver"
    BY <1>13 DEF Deliver, sendVars, WorkAt
  <2>2. work'[m] = "decode" /\ last_rx_crc'[m] = x[2].val /\ rx_flip_any'[m] = FALSE
    BY <1>13, <1>p, <1>w, <1>l DEF Deliver, WorkGoto, x
  <2>3. PICK y, e : /\ y = rx_packet'[m] /\ e = delivered'[n]
                    /\ e = IF ~any /\ c = x[2].val THEN d ELSE Append(d, x[1].val)
    <3>1. delivered'[n] = IF ~any /\ c = x[2].val THEN d ELSE Append(d, x[1].val)
      BY <1>13, <1>p, <1>d DEF Deliver, IsDuplicate, any, c, d, x
    <3> QED
      BY <3>1
  <2>4. busy = TRUE
    BY <2>1 DEF busy
  <2>5. HandledOK(r, f, TRUE, x) /\ OrderOK(r, f, TRUE, x, d)
    BY <1>lo, <2>4
  <2>6. km = 0 => AckOK(b, f, pc, sem, res, FALSE, y, e, x[2].val, FALSE)
    <3> SUFFICES ASSUME km = 0 PROVE AckOK(b, f, pc, sem, res, FALSE, y, e, x[2].val, FALSE)
      OBVIOUS
    <3>1. AckOK(b, f, pc, sem, res, TRUE, x, d, c, any)
      BY <1>a, <2>4
    <3>2. f \in Seq(Nat) /\ d \in Seq(Nat) /\ Len(res) \in Nat /\ Len(res) <= Len(f)
      BY <1>f, <1>d, <1>n, <1>c2
    <3>3. e = IF ~any /\ c = x[2].val THEN d ELSE Append(d, x[1].val)
      BY <2>3
    <3> QED
      BY <2>5, <3>1, <3>2, <3>3, AckDeliver
  <2>7. kn = 0 /\ km = 0 => CleanOK(b, r, f, pc, sem, res, FALSE, y, e, x[2].val, FALSE)
    <3> SUFFICES ASSUME kn = 0, km = 0
                 PROVE  CleanOK(b, r, f, pc, sem, res, FALSE, y, e, x[2].val, FALSE)
      OBVIOUS
    <3>1. CleanOK(b, r, f, pc, sem, res, TRUE, x, d, c, any)
      BY <1>a, <2>4
    <3>2. f \in Seq(Nat) /\ d \in Seq(Nat) /\ any \in BOOLEAN
      BY <1>f, <1>d, <1>l
    <3>3. e = IF ~any /\ c = x[2].val THEN d ELSE Append(d, x[1].val)
      BY <2>3
    <3> QED
      BY <2>5, <3>1, <3>2, <3>3, CleanDeliver
  <2> QED
    BY <1>a, <2>1, <2>2, <2>3, <2>6, <2>7, <1>goal DEF b, r, f, flip, pc, sem, res, kn, km
<1>14. CASE Restart(m)
  <2>1. restarts'[m] = km + 1 /\ restarts'[n] = restarts[n] /\ fields' = fields
        /\ tx_flip'[n] = tx_flip[n]
    BY <1>14, <1>p, <1>l, <1>x DEF Restart, km
  <2>2. km + 1 # 0
    BY <1>l
  <2> QED
    BY <1>a, <2>1, <2>2, <1>goal DEF f, flip, kn
<1>15. CASE \E k \in Nodes : SendBegins(k) \/ SendStep(k) \/ WorkStep(k) \/ Restart(k)
  <2>1. PICK k \in Nodes : SendBegins(k) \/ SendStep(k) \/ WorkStep(k) \/ Restart(k)
    BY <1>15
  <2>2. k = n \/ k = m
    BY <1>p
  <2> QED
    BY <2>1, <2>2, <1>1, <1>2, <1>3, <1>4, <1>6, <1>7, <1>8, <1>9, <1>10, <1>11,
       <1>12, <1>13, <1>14 DEF SendStep, WorkStep
<1> QED
  BY <1>0, <1>15 DEF RpcNext

\* send() returns 0 only for a packet that has arrived, with the exceptions that
\* AckedMeansDelivered names.
THEOREM RpcAckedMeansDelivered == CrcApart => (RpcSpec => []AckedMeansDelivered)
<1> DEFINE Inv == RpcBase /\ (altered = 0 => AckInv)
<1> SUFFICES ASSUME CrcApart PROVE RpcSpec => []AckedMeansDelivered
  OBVIOUS
<1>1. RpcInit => Inv
  <2> SUFFICES ASSUME RpcInit PROVE RpcBase /\ AckInv
    OBVIOUS
  <2>1. LineInv
    BY LineInit
  <2>2. ASSUME NEW n \in Nodes PROVE Acks(n)
    <3>1. Peer(n) \in Nodes
      BY PeerFacts
    <3>2. /\ ring[n] = <<>> /\ fields[n] = <<>> /\ send[n].pc = "idle" /\ results[n] = <<>>
          /\ rx_flip_any[Peer(n)] = TRUE
      BY <3>1 DEF RpcInit
    <3>3. Len(<<>>) = 0
      OBVIOUS
    <3>4. FlipOK(<<>>, tx_flip[n])
      BY <3>3 DEF FlipOK
    <3> QED
      BY <3>2, <3>3, <3>4 DEF Acks, AckOK, CleanOK
  <2> QED
    BY <2>1, <2>2, BaseInit DEF AckInv
<1>2. Inv /\ [RpcNext]_rpcVars => Inv'
  <2> SUFFICES ASSUME Inv, [RpcNext]_rpcVars PROVE Inv'
    OBVIOUS
  <2>a. RpcBase'
    BY TypesStep, ControlStep DEF RpcBase
  <2>b. altered' = 0 => altered = 0
    BY AlteredStays
  <2> SUFFICES ASSUME altered' = 0, AckInv PROVE AckInv'
    BY <2>a, <2>b
  <2>1. RpcBase /\ (\A n \in Nodes : Line(n)) /\ \A n \in Nodes : Acks(n)
    BY DEF AckInv, LineInv
  <2>2. LineInv'
    BY <2>1, LineInvStep DEF LineInv
  <2>3. ASSUME NEW n \in Nodes PROVE Acks(n)'
    BY <2>1, AckStep
  <2> QED
    BY <2>2, <2>3 DEF AckInv
<1>3. Inv => AckedMeansDelivered
  <2> SUFFICES ASSUME AckInv PROVE AckedMeansDelivered
    <3>1. Inv => altered > 0 \/ AckInv
      BY DEF RpcBase, RpcTypes
    <3>2. altered > 0 => AckedMeansDelivered
      BY DEF AckedMeansDelivered
    <3> QED
      BY <3>1, <3>2
  <2> SUFFICES ASSUME NEW n \in Nodes, NEW p, p \in DOMAIN results[n],
                      results[n][p] = "acked"
               PROVE  \/ Arrived(n, p)
                      \/ restarts[Peer(n)] > 0
                      \/ \E q \in 1 .. p - 1 :
                        /\ Arrived(n, q)
                        /\ fields[n][q] = fields[n][p]
                        /\ \/ restarts[n] > 0
                           \/ q < p - 1 /\ \E r \in 1 .. p - 1 : results[n][r] # "acked"
    BY DEF AckedMeansDelivered
  <2>0. restarts[Peer(n)] > 0 \/ restarts[Peer(n)] = 0
    <3>1. Peer(n) \in Nodes /\ restarts \in [Nodes -> Nat]
      BY PeerFacts DEF AckInv, LineInv, RpcBase, RpcTypes
    <3> QED
      BY <3>1
  <2> SUFFICES ASSUME restarts[Peer(n)] = 0, ~Arrived(n, p)
               PROVE  \E q \in 1 .. p - 1 :
                        /\ Arrived(n, q)
                        /\ fields[n][q] = fields[n][p]
                        /\ \/ restarts[n] > 0
                           \/ q < p - 1 /\ \E r \in 1 .. p - 1 : results[n][r] # "acked"
    BY <2>0
  <2> DEFINE m == Peer(n)
             f == fields[n]
             res == results[n]
             busy == work[m] # "decode"
             x == rx_packet[m]
             d == delivered[n]
             c == last_rx_crc[m]
             any == rx_flip_any[m]
  <2>1. /\ f \in Seq(Nat) /\ res \in Seq({"acked", "failed", "cut"}) /\ d \in Seq(Nat)
        /\ restarts[n] \in Nat
    BY DEF AckInv, LineInv, RpcBase, RpcTypes
  <2>2. Len(f) \in Nat /\ Len(res) \in Nat /\ p \in 1 .. Len(res) /\ Len(d) \in Nat
        /\ DOMAIN d = 1 .. Len(d)
    BY <2>1
  <2>3. Len(res) <= Len(f)
    <3>1. /\ send[n].pc = "idle" => Len(res) = Len(f)
          /\ send[n].pc # "idle" => Len(f) = Len(res) + 1
      BY DEF AckInv, LineInv, RpcBase, RpcControl, ControlOK
    <3> QED
      BY <2>2, <3>1
  <2>4. \A q : ArrivedIn(d, busy, x, q) => Arrived(n, q)
    BY <2>2 DEF ArrivedIn, Arrived
  <2>5. /\ restarts[n] = 0 => FlipOK(f, tx_flip[n])
        /\ AckOK(ring[n], f, send[n].pc, ack_sem[n], res, busy, x, d, c, any)
        /\ restarts[n] = 0 =>
            CleanOK(ring[n], ring[m], f, send[n].pc, ack_sem[n], res, busy, x, d, c, any)
    BY DEF AckInv, Acks
  <2>6. Known(f, busy, x, d, f[p], p)
    BY <2>2, <2>5 DEF AckOK
  <2>7. PICK q \in 1 .. p : f[q] = f[p] /\ ArrivedIn(d, busy, x, q)
    BY <2>6 DEF Known
  <2>8. q # p /\ Arrived(n, q)
    BY <2>4, <2>7
  <2>9. q \in 1 .. p - 1
    BY <2>2, <2>7, <2>8
  <2>10. CASE restarts[n] > 0
    BY <2>7, <2>8, <2>9, <2>10
  <2>11. CASE restarts[n] = 0
    <3>1. ~AllAcked(res, p)
      <4> SUFFICES ASSUME AllAcked(res, p) PROVE FALSE
        OBVIOUS
      <4>1. Seen(f, busy, x, d, c, any, p)
        BY <2>2, <2>5, <2>11 DEF CleanOK
      <4>2. ArrivedIn(d, busy, x, p)
        BY <4>1 DEF Seen, ArrivedIn
      <4> QED
        BY <4>2, <2>4
    <3>2. PICK z \in 1 .. p : res[z] # "acked"
      BY <3>1 DEF AllAcked
    <3>3. z # p
      BY <3>2
    <3>4. z \in 1 .. p - 1
      BY <2>2, <3>2, <3>3
    <3>5. q # p - 1
      <4> SUFFICES ASSUME q = p - 1 PROVE FALSE
        OBVIOUS
      <4>1. q \in 1 .. Len(f) - 1 /\ q + 1 = p
        BY <2>2, <2>3, <2>9
      <4>2. f[q] % 2 # f[q + 1] % 2
        BY <2>5, <2>11, <4>1 DEF FlipOK
      <4> QED
        BY <2>7, <4>1, <4>2
    <3>6. q < p - 1
      BY <2>2, <2>9, <3>5
    <3> QED
      BY <2>7, <2>8, <2>9, <3>2, <3>4, <3>6
  <2> QED
    <3>1. restarts[n] > 0 \/ restarts[n] = 0
      BY <2>1
    <3> QED
      BY <2>10, <2>11, <3>1, Zenon
<1> QED
  BY <1>1, <1>2, <1>3, PTL DEF RpcSpec
=============================================================================
