-------------------------- MODULE AckWindowProofs ---------------------------
(***************************************************************************)
(* mcl_link_sequence_is_live tells the frame an acknowledgement was meant   *)
(* for, for every sequence space and every window in it: the 16 bits and    *)
(* the quarter of the code are one case.                                    *)
(***************************************************************************)
EXTENDS AckWindow, FiniteSetTheorems, TLAPS

-----------------------------------------------------------------------------
(* Arithmetic modulo n, which the provers do not know for a variable n.     *)

\* Division with remainder.
LEMMA DivMod ==
    ASSUME NEW a \in Int, NEW n \in Nat \ {0}
    PROVE  /\ a \div n \in Int /\ a % n \in 0..(n - 1)
           /\ a = (n * (a \div n)) + (a % n)
  OBVIOUS

\* A positive multiple of n is no smaller than n.
LEMMA Multiple ==
    ASSUME NEW n \in Nat \ {0}, NEW x \in Int, x >= 1
    PROVE  n * x >= n
  OBVIOUS

\* Quotient and remainder are unique.
LEMMA DivModUnique ==
    ASSUME NEW n \in Nat \ {0}, NEW x \in Int, NEW y \in Int,
           NEW r \in 0..(n - 1), NEW s \in 0..(n - 1),
           (n * x) + r = (n * y) + s
    PROVE  x = y /\ r = s
<1>1. n * (x - y) = s - r
  OBVIOUS
<1>2. ~ (x - y >= 1)
  BY <1>1, Multiple
<1>3. n * (y - x) = r - s
  OBVIOUS
<1>4. ~ (y - x >= 1)
  BY <1>3, Multiple
<1> QED BY <1>2, <1>4

\* The remainder is the r that completes a multiple of n.
LEMMA ModUnique ==
    ASSUME NEW n \in Nat \ {0}, NEW x \in Int, NEW r \in 0..(n - 1),
           NEW a \in Int, a = (n * x) + r
    PROVE  a % n = r
<1> DEFINE y == a \div n
           s == a % n
<1>1. a = (n * y) + s /\ y \in Int /\ s \in 0..(n - 1)
  BY DivMod
<1>2. s = r
  <2> HIDE DEF y, s
  <2> QED BY <1>1, DivModUnique
<1> QED BY <1>2

\* Subtracting remainders, and taking the remainder, is subtracting: the C
\* code's cast of the difference back to 16 bits loses nothing.
LEMMA ModDifference ==
    ASSUME NEW a \in Int, NEW b \in Int, NEW n \in Nat \ {0}
    PROVE  ((a % n) - (b % n)) % n = (a - b) % n
<1> DEFINE d == (a % n) - (b % n)
           x == (a \div n) - (b \div n)
           z == d \div n
           r == d % n
           e == a - b
<1>1. /\ a = (n * (a \div n)) + (a % n) /\ a \div n \in Int /\ a % n \in Int
      /\ b = (n * (b \div n)) + (b % n) /\ b \div n \in Int /\ b % n \in Int
  BY DivMod
<1>2. d \in Int /\ x \in Int /\ e \in Int /\ e = (n * x) + d
  BY <1>1
<1>3. d = (n * z) + r /\ z \in Int /\ r \in 0..(n - 1)
  BY <1>2, DivMod
<1>4. e % n = r
  <2> HIDE DEF x, d, z, r, e
  <2>1. e = (n * (x + z)) + r /\ x + z \in Int
    BY <1>2, <1>3
  <2> QED BY <1>2, <1>3, <2>1, ModUnique
<1> QED BY <1>4

\* A number below n is its own remainder.
LEMMA ModSmall ==
    ASSUME NEW n \in Nat \ {0}, NEW a \in 0..(n - 1)
    PROVE  a % n = a
<1>1. a = (n * 0) + a
  OBVIOUS
<1> QED BY <1>1, ModUnique

\* Numbers less than n apart have different remainders.
LEMMA ModDistinct ==
    ASSUME NEW n \in Nat \ {0}, NEW a \in Int, NEW b \in Int,
           a - b < n, b - a < n, a % n = b % n
    PROVE  a = b
<1> DEFINE x == a \div n
           y == b \div n
           r == a % n
<1>1. a = (n * x) + r /\ b = (n * y) + r
      /\ x \in Int /\ y \in Int /\ r \in Int
  BY DivMod
<1>2. x = y
  <2> HIDE DEF x, y, r
  <2>1. n * (x - y) = a - b
    BY <1>1
  <2>2. n * (y - x) = b - a
    BY <1>1
  <2>3. ~ (x - y >= 1) /\ ~ (y - x >= 1)
    BY <1>1, <2>1, <2>2, Multiple
  <2> QED BY <1>1, <2>3
<1> QED BY <1>1, <1>2

\* A whole turn of the sequence space comes back to the same sequence.
LEMMA ModTurn ==
    ASSUME NEW n \in Nat \ {0}, NEW a \in Int
    PROVE  (a + n) % n = a % n
<1> DEFINE x == a \div n
           r == a % n
           e == a + n
<1>1. a = (n * x) + r /\ x \in Int /\ r \in 0..(n - 1)
  BY DivMod
<1>2. e % n = r
  <2> HIDE DEF x, r
  <2>1. e = (n * (x + 1)) + r /\ e \in Int
    BY <1>1
  <2> HIDE DEF e
  <2> QED BY <1>1, <2>1, ModUnique
<1> QED BY <1>2

-----------------------------------------------------------------------------
(* The inductive invariant. *)

\* The table holds frames that were sent, within the limit, and none whose
\* sequence was used again since.
TableOK ==
    /\ sent \in 0..SentMax
    /\ outstanding \subseteq 0..(sent - 1)
    /\ arrived \subseteq outstanding
    /\ acks \subseteq 0..(sent - 1)
    /\ Cardinality(outstanding) <= Window
    /\ \A k \in outstanding : Age(k) < Space

\* A frame that was acknowledged and is still in the table did arrive.
AckedArrived == acks \cap outstanding \subseteq arrived

\* What was matched is a frame.
MatchedIsFrame == matched \subseteq 0..(sent - 1)

\* The frames in the table are finitely many.
LEMMA TableIsFinite ==
    ASSUME TableOK
    PROVE  IsFiniteSet(outstanding) /\ Cardinality(outstanding) \in Nat
<1>1. IsFiniteSet(0..(sent - 1))
  BY FS_Interval DEF TableOK
<1> QED BY <1>1, FS_Subset, FS_CardinalityType DEF TableOK

\* A frame that leaves the table makes room.
LEMMA SmallerTable ==
    ASSUME TableOK, NEW T \in SUBSET outstanding
    PROVE  /\ IsFiniteSet(T)
           /\ Cardinality(T) \in Nat /\ Cardinality(T) <= Window
<1>1. IsFiniteSet(T) /\ Cardinality(T) <= Cardinality(outstanding)
  BY TableIsFinite, FS_Subset
<1> QED
  BY <1>1, TableIsFinite, FS_CardinalityType, WindowAssumption DEF TableOK

\* Sending puts one frame into the table and takes out the one whose sequence
\* it uses.
LEMMA SendFrameTable ==
    ASSUME TableOK, AckedArrived, SendFrame
    PROVE  TableOK' /\ AckedArrived'
<1> DEFINE T == {k \in outstanding : Sequence(k) # Sequence(sent)}
<1>1. /\ sent < SentMax /\ HasRoom(T) /\ sent' = sent + 1
      /\ outstanding' = T \cup {sent} /\ arrived' = arrived \cap T
      /\ acks' = acks
  BY DEF SendFrame
<1>2. sent \in Nat /\ SentMax \in Nat
  BY WindowAssumption DEF TableOK
<1>3. Cardinality(outstanding') <= Window
  <2>1. IsFiniteSet(T) /\ Cardinality(T) \in Nat
    BY SmallerTable
  <2>2. Cardinality(T \cup {sent}) <= Cardinality(T) + 1
    <3> HIDE DEF T
    <3> QED BY <2>1, FS_AddElement
  <2>3. Cardinality(T) < Window
    BY <1>1 DEF HasRoom
  <2>4. Cardinality(T \cup {sent}) \in Nat
    <3> HIDE DEF T
    <3> QED BY <2>1, FS_AddElement, FS_CardinalityType
  <2> HIDE DEF T
  <2> QED BY <1>1, <2>1, <2>2, <2>3, <2>4, WindowAssumption
<1>4. ASSUME NEW k \in outstanding'
      PROVE  (sent + 1) - 1 - k < Space
  <2>1. CASE k = sent
    BY <1>2, <2>1, WindowAssumption
  <2>2. CASE k \in T
    <3>1. k \in Int /\ sent - 1 - k < Space /\ Sequence(k) # Sequence(sent)
      BY <1>2, <2>2 DEF TableOK, Age
    <3>2. sent - k = Space => Sequence(sent) = Sequence(k)
      <4>1. SUFFICES ASSUME sent - k = Space PROVE Sequence(sent) = Sequence(k)
        OBVIOUS
      <4>2. sent = k + Space
        BY <1>2, <3>1, <4>1, WindowAssumption
      <4> QED BY <3>1, <4>2, ModTurn, WindowAssumption DEF Sequence
    <3> QED BY <1>2, <3>1, <3>2, WindowAssumption
  <2> QED BY <1>1, <2>1, <2>2
<1>5. /\ T \subseteq outstanding /\ outstanding \subseteq 0..(sent - 1)
      /\ acks \subseteq 0..(sent - 1) /\ arrived \subseteq outstanding
      /\ acks \cap outstanding \subseteq arrived
      /\ sent \notin acks
  BY <1>2 DEF TableOK, AckedArrived
<1>6. 0..(sent - 1) \subseteq 0..sent /\ sent \in 0..sent
  BY <1>2
<1>7. sent' \in 0..SentMax /\ sent' - 1 = sent
  BY <1>1, <1>2
<1>8. outstanding' \subseteq 0..(sent' - 1) /\ acks' \subseteq 0..(sent' - 1)
  <2> HIDE DEF T
  <2> QED BY <1>1, <1>5, <1>6, <1>7
<1>9. arrived' \subseteq outstanding' /\ AckedArrived'
  <2> HIDE DEF T
  <2> QED BY <1>1, <1>5 DEF AckedArrived
<1> QED BY <1>1, <1>3, <1>4, <1>7, <1>8, <1>9 DEF TableOK, Age

\* Every step keeps the table.
LEMMA TableStep == TableOK /\ AckedArrived /\ [Next]_vars
                       => TableOK' /\ AckedArrived'
<1> SUFFICES ASSUME TableOK, AckedArrived, [Next]_vars
             PROVE  TableOK' /\ AckedArrived'
  OBVIOUS
<1>1. CASE SendFrame
  BY <1>1, SendFrameTable
<1>2. ASSUME NEW k \in 0..(sent - 1), ReceiveFrame(k)
      PROVE  TableOK' /\ AckedArrived'
  BY <1>2 DEF ReceiveFrame, TableOK, AckedArrived, Age
\* Acknowledged or given up, some frames leave the table.
<1>3. ASSUME NEW S, sent' = sent, outstanding' = outstanding \ S,
             arrived' = arrived \ S, acks' \subseteq acks
      PROVE  TableOK' /\ AckedArrived'
  <2>1. outstanding' \in SUBSET outstanding
    BY <1>3
  <2>2. Cardinality(outstanding') <= Window
    BY <2>1, SmallerTable
  <2> QED BY <1>3, <2>1, <2>2 DEF TableOK, AckedArrived, Age
<1>4. ASSUME NEW k \in outstanding, GiveUp(k)
      PROVE  TableOK' /\ AckedArrived'
  BY <1>3, <1>4 DEF GiveUp
<1>5. ASSUME NEW k \in acks, ReceiveAck(k)
      PROVE  TableOK' /\ AckedArrived'
  BY <1>3, <1>5 DEF ReceiveAck
<1>6. ASSUME NEW k \in acks, LoseAck(k)
      PROVE  TableOK' /\ AckedArrived'
  BY <1>6 DEF LoseAck, TableOK, AckedArrived, Age
<1>7. CASE UNCHANGED vars
  BY <1>7 DEF vars, TableOK, AckedArrived, Age
<1> QED BY <1>1, <1>2, <1>4, <1>5, <1>6, <1>7 DEF Next

\* Before anything is sent, the table and the window are empty.
LEMMA InitTable == Init => TableOK /\ AckedArrived
  BY FS_EmptySet, WindowAssumption DEF Init, TableOK, AckedArrived

\* TableOK and AckedArrived are invariants: every action preserves both.
LEMMA AlwaysTable == Spec => [](TableOK /\ AckedArrived)
  BY InitTable, TableStep, PTL DEF Spec

-----------------------------------------------------------------------------
(* What the library's test of a sequence means. *)

\* A sequence is live exactly if its frame's age is within the window, up to
\* whole turns.
LEMMA LiveMeans ==
    ASSUME TableOK, NEW k \in 0..(sent - 1)
    PROVE  /\ Age(k) \in Nat
           /\ IsLive(HighestSent, Sequence(k)) <=> Age(k) % Space < Window
<1>1. sent - 1 \in Int /\ k \in Int /\ Space \in Nat \ {0}
  BY WindowAssumption DEF TableOK
<1>2. (((sent - 1) % Space) - (k % Space)) % Space = ((sent - 1) - k) % Space
  BY <1>1, ModDifference
<1>3. Age(k) \in Nat
  BY <1>1 DEF Age, TableOK
<1> QED
  BY <1>2, <1>3 DEF IsLive, Distance, HighestSent, Sequence, Age

\* An acknowledgement the library calls live is matched to the frame it was
\* sent for, or to none, unless a frame of the window has its sequence.
LEMMA HitIsTheFrame ==
    ASSUME TableOK, AckedArrived,
           NEW k \in acks, ReceiveAck(k), ~Ambiguous(k)
    PROVE  matched' \subseteq {k} \cap arrived
<1> SUFFICES ASSUME NEW j \in matched'
             PROVE  j = k /\ j \in arrived
  OBVIOUS
<1>1. /\ j \in outstanding /\ Sequence(j) = Sequence(k)
      /\ IsLive(HighestSent, Sequence(j))
  BY DEF ReceiveAck
<1>2. /\ k \in 0..(sent - 1) /\ j \in 0..(sent - 1) /\ sent \in Nat
      /\ Age(j) < Space /\ Space \in Nat \ {0}
  BY <1>1, WindowAssumption DEF TableOK
<1>3. Age(j) < Window
  BY <1>1, <1>2, LiveMeans, ModSmall
<1>4. ~ (j > k)
  BY <1>1, <1>2, <1>3 DEF Ambiguous
<1>5. j = k
  <2>1. j - k < Space /\ k - j < Space
    BY <1>2, <1>4 DEF Age
  <2>2. j % Space = k % Space
    BY <1>1 DEF Sequence
  <2> QED BY <1>2, <2>1, <2>2, ModDistinct
<1> QED BY <1>1, <1>5 DEF AckedArrived

\* Every variable of the window stays in its range, no more frames are
\* outstanding than the window allows, and none whose sequence was used again.
THEOREM WindowTypes == Spec => []TypeOK
<1>1. Init => MatchedIsFrame
  BY DEF Init, MatchedIsFrame
<1>2. MatchedIsFrame /\ TableOK /\ [Next]_vars => MatchedIsFrame'
  <2> SUFFICES ASSUME MatchedIsFrame, TableOK, [Next]_vars
               PROVE  MatchedIsFrame'
    OBVIOUS
  <2>1. ASSUME NEW k \in acks, ReceiveAck(k)
        PROVE  MatchedIsFrame'
    BY <2>1 DEF ReceiveAck, TableOK, MatchedIsFrame
  <2> QED
    BY <2>1
    DEF Next, SendFrame, ReceiveFrame, GiveUp, LoseAck, vars, MatchedIsFrame
<1>3. TableOK /\ MatchedIsFrame => TypeOK
  BY DEF TableOK, MatchedIsFrame, TypeOK
<1> QED BY <1>1, <1>2, <1>3, AlwaysTable, PTL DEF Spec

\* mcl_link_sequence_is_live calls an outstanding frame live exactly if it is
\* one of the last Window sent, on whichever side of the wrap the two
\* sequences fall.
THEOREM LiveCorrect == Spec => []LiveIsRecent
<1>1. TableOK => LiveIsRecent
  <2> SUFFICES ASSUME TableOK, NEW k \in outstanding
               PROVE  IsLive(HighestSent, Sequence(k)) <=> Age(k) < Window
    BY DEF LiveIsRecent
  <2>1. k \in 0..(sent - 1) /\ Age(k) < Space
    BY DEF TableOK
  <2>2. /\ Age(k) \in Nat
        /\ IsLive(HighestSent, Sequence(k)) <=> Age(k) % Space < Window
    BY <2>1, LiveMeans
  <2>3. Age(k) % Space = Age(k)
    BY <2>1, <2>2, ModSmall, WindowAssumption
  <2> QED BY <2>2, <2>3
<1> QED BY <1>1, AlwaysTable, PTL

\* However late it is, an acknowledgement is matched only to the frame it was
\* sent for, which the peer received, unless one of the last Window frames has
\* its sequence.
THEOREM MatchCorrect == Spec => MatchedWasReceived
<1> DEFINE Meant ==
        \A k \in acks :
            ReceiveAck(k) /\ ~Ambiguous(k) => matched' \subseteq {k} \cap arrived
<1>1. TableOK /\ AckedArrived /\ [Next]_vars => [Meant]_vars
  BY HitIsTheFrame
<1> QED BY <1>1, AlwaysTable, PTL DEF Spec, MatchedWasReceived

=============================================================================
