--------------------------- MODULE WsReader_proofs ---------------------------
(***************************************************************************)
(* When the client does count rightly: if the response to the handshake      *)
(* comes alone, as from a server that says nothing in on_open, or with       *)
(* exactly one frame, as from one that greets, whose content is not of one    *)
(* byte.  In all other cases it is a matter of luck.                         *)
(***************************************************************************)
EXTENDS WsReader, TLAPS

AloneOrGreeted == additional = 0 \/ (additional = FrameBytes(stream[1]) /\ stream[1] # 1)

\* At each place nothing is left over, or the buffer holds what there is still of
\* the first frame.  The number of additional bytes is right only in the first case: in the
\* second it counts the part of the frame that was taken out last, or is at least
\* what is wanted.
Counted ==
  /\ stream \in Streams /\ frame \in Nat \ {0} /\ held \in Nat /\ additional \in Nat
  /\ at \in {"header", "length", "content"}
  /\ at = "header" /\ held = 0 => additional # 1
  /\ at \in {"length", "content"} => frame <= Len(stream)
  /\ at = "length" => LengthBytes(stream[frame]) > 0
  /\ \/ held = 0 /\ (at = "header" \/ additional = 0)
     \/ /\ frame = 1 /\ stream[1] # 1
        /\ \/ at = "header" /\ held = FrameBytes(stream[1]) /\ additional = held
           \/ at = "length" /\ held = LengthBytes(stream[1]) + stream[1] /\ additional = held + 2
           \/ at = "content" /\ held = stream[1] /\ additional > held

LEMMA LengthValue == ASSUME NEW n \in Nat PROVE LengthBytes(n) \in {0, 2, 8}
  BY DEF LengthBytes

LEMMA StepCounted ==
  ASSUME Streams \subseteq Seq(Nat), Counted, [Next \/ Finished]_vars
  PROVE  Counted'
<1>1. CASE ReadAgain
      BY <1>1 DEF ReadAgain, Counted, Open
<1>2. ASSUME Open PROVE stream[frame] \in Nat /\ stream[frame] = stream[frame] + 0 /\ frame <= Len(stream)
      BY <1>2 DEF Open, Counted
<1>3. CASE ReadMessage
  <2> DEFINE s == stream[frame]
  <2>1. /\ s \in Nat /\ LengthBytes(s) \in {0, 2, 8} /\ frame <= Len(stream) /\ at = "header"
        /\ ~(held = 0 /\ Transferred(2) = 0)
        BY <1>2, <1>3, LengthValue DEF ReadMessage
  <2>2. CASE held = 0
    <3>1. additional = 0 /\ Transferred(2) = 2
          BY <2>1, <2>2 DEF Counted, Transferred
    <3>2. held' = 0 /\ additional' = 0 /\ UNCHANGED <<stream, frame>>
          /\ at' = IF LengthBytes(s) > 0 THEN "length" ELSE "content"
          BY <1>3, <2>2, <3>1 DEF ReadMessage, Takes
    <3> QED BY <2>1, <3>2 DEF Counted
  <2>3. CASE held # 0
    <3>1. frame = 1 /\ s # 1 /\ held = 2 + LengthBytes(s) + s /\ additional = held
          BY <2>1, <2>3 DEF Counted, FrameBytes
    <3>2. Transferred(2) = 0
          BY <2>1, <3>1 DEF Transferred
    <3>3. held' = LengthBytes(s) + s /\ additional' = held /\ UNCHANGED <<stream, frame>>
          /\ at' = IF LengthBytes(s) > 0 THEN "length" ELSE "content"
          BY <1>3, <2>1, <3>1, <3>2 DEF ReadMessage, Takes
    <3> QED BY <2>1, <3>1, <3>3 DEF Counted
  <2> QED BY <2>2, <2>3
<1>4. CASE ReadLength
  <2> DEFINE s == stream[frame]
  <2>1. /\ s \in Nat /\ LengthBytes(s) \in {2, 8} /\ frame <= Len(stream) /\ at = "length"
        BY <1>2, <1>4, LengthValue DEF ReadLength, Counted
  <2>2. CASE held = 0
    <3>1. additional = 0 /\ Transferred(LengthBytes(s)) = LengthBytes(s)
          BY <2>1, <2>2 DEF Counted, Transferred
    <3>2. held' = 0 /\ additional' = 0 /\ at' = "content" /\ UNCHANGED <<stream, frame>>
          BY <1>4, <2>1, <2>2, <3>1 DEF ReadLength, Takes
    <3> QED BY <2>1, <3>2 DEF Counted
  <2>3. CASE held # 0
    <3>1. frame = 1 /\ s # 1 /\ held = LengthBytes(s) + s /\ additional = held + 2
          BY <2>1, <2>3 DEF Counted
    <3>2. Transferred(LengthBytes(s)) = 0
          BY <2>1, <3>1 DEF Transferred
    <3>3. held' = s /\ additional' = held /\ at' = "content" /\ UNCHANGED <<stream, frame>>
          BY <1>4, <2>1, <3>1, <3>2 DEF ReadLength, Takes
    <3> QED BY <2>1, <3>1, <3>3 DEF Counted
  <2> QED BY <2>2, <2>3
<1>5. CASE ReadMessageContent
  <2> DEFINE s == stream[frame]
  <2>1. s \in Nat /\ frame \in Nat \ {0} /\ stream \in Streams /\ at = "content"
        BY <1>2, <1>5 DEF ReadMessageContent, Counted
  <2>2. CASE held = 0 /\ additional = 0
    <3>1. Transferred(s) = s
          BY <2>1, <2>2 DEF Transferred
    <3>2. held' = 0 /\ additional' = 0 /\ at' = "header" /\ frame' = frame + 1 /\ UNCHANGED stream
          BY <1>5, <2>1, <2>2, <3>1 DEF ReadMessageContent
    <3> QED BY <2>1, <3>2 DEF Counted
  <2>3. CASE s # 1 /\ held = s /\ additional > held
    <3>1. Transferred(s) = 0
          BY <2>1, <2>3 DEF Transferred
    <3>2. held' = 0 /\ additional' = s /\ at' = "header" /\ frame' = frame + 1 /\ UNCHANGED stream
          BY <1>5, <2>1, <2>3, <3>1 DEF ReadMessageContent
    <3> QED BY <2>1, <2>3, <3>2 DEF Counted
  <2> QED BY <2>1, <2>2, <2>3 DEF Counted
<1>6. CASE UNCHANGED vars
      BY <1>6 DEF vars, Counted
<1> QED BY <1>1, <1>3, <1>4, <1>5, <1>6 DEF Next, Finished

\* Whatever frames a server sends: if its response came alone, or with one frame that has
\* not one byte, the client takes nothing for what it is not.
THEOREM GreetingIsRead ==
  ASSUME Streams \subseteq Seq(Nat) \ {<<>>}
  PROVE  Spec /\ AloneOrGreeted => []ReadInStep
<1>1. Init /\ AloneOrGreeted => Counted
  <2> SUFFICES ASSUME Init, AloneOrGreeted PROVE Counted
      OBVIOUS
  <2>1. stream \in Seq(Nat) /\ stream # <<>>
        BY DEF Init
  <2>2. stream[1] \in Nat
        BY <2>1
  <2>3. LengthBytes(stream[1]) \in {0, 2, 8}
        BY <2>2, LengthValue
  <2> QED BY <2>2, <2>3 DEF Init, AloneOrGreeted, Counted, FrameBytes
<1>2. Counted /\ [Next \/ Finished]_vars => Counted'
      BY StepCounted
<1>3. Counted => ReadInStep
      BY DEF Counted, ReadInStep
<1> QED BY <1>1, <1>2, <1>3, PTL DEF Spec
=============================================================================
