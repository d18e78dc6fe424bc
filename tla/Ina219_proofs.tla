--------------------------- MODULE Ina219_proofs ---------------------------
(***************************************************************************)
(* What holds of Ina219 for every list of channels and every set of        *)
(* shunts, and for any number of requests, restarts and chips that lose    *)
(* their calibration: its types, the consistent selection, and that what a *)
(* request has confirmed is in use and survives a restart.                 *)
(*                                                                         *)
(* The lemmas about lists go through the number of elements looked at so   *)
(* far: were one of them false, there would be a least number it is false  *)
(* for.                                                                    *)
(***************************************************************************)
EXTENDS Ina219, WellFoundedInduction, SequenceTheorems, TLAPS

-----------------------------------------------------------------------------
(* Numbers.                                                                *)

\* The least number principle: what the boot's choice of the first chip, and every
\* argument over the length of a list, rests on.
LEMMA Least == ASSUME NEW T, T \subseteq Nat, T # {} PROVE \E m \in T : \A k \in T : m <= k
<1>1. IsWellFoundedOn(OpToRel(<, Nat), Nat)
  BY NatLessThanWellFounded
<1>2. PICK m \in T : \A k \in T : <<k, m>> \notin OpToRel(<, Nat)
  BY <1>1, WFMin
<1>3. \A k \in T : ~(k < m)
  BY <1>2 DEF OpToRel
<1>4. QED
  BY <1>3

\* A nonempty set of numbers with a bound has a greatest one: what the last channel
\* to be configured is.
LEMMA Greatest ==
    ASSUME NEW T, T \subseteq Nat, T # {}, NEW b \in Nat, \A k \in T : k <= b
    PROVE  \E m \in T : \A k \in T : k <= m
<1> DEFINE Bounds == {n \in Nat : \A k \in T : k <= n}
<1>1. b \in Bounds /\ Bounds \subseteq Nat
  OBVIOUS
<1>2. PICK m \in Bounds : \A n \in Bounds : m <= n
  BY <1>1, Least
<1>3. m \in Nat /\ \A k \in T : k <= m
  BY <1>2
<1>4. m \in T
  <2>1. SUFFICES ASSUME m \notin T PROVE FALSE
    OBVIOUS
  <2>2. PICK k \in T : k \in Nat
    OBVIOUS
  <2>3. m # k /\ k <= m
    BY <1>3, <2>1
  <2>4. m - 1 \in Nat
    BY <1>3, <2>2, <2>3
  <2>5. \A j \in T : j <= m - 1
    BY <1>3, <2>1
  <2>6. m - 1 \in Bounds
    BY <2>4, <2>5
  <2>7. m <= m - 1
    BY <1>2, <2>6
  <2>8. QED
    BY <1>3, <2>7
<1>5. QED
  BY <1>3, <1>4

-----------------------------------------------------------------------------
(* Lists of channels.                                                      *)

\* No element comes twice.
Injective(list) == \A i, j \in DOMAIN list : list[i] = list[j] => i = j

\* The lists of channels are the sequences without repetition that are not longer
\* than the command line's.
LEMMA ListsAre ==
    ASSUME NEW list
    PROVE  list \in Lists <=> /\ list \in Seq(Channels)
                              /\ Len(list) <= Len(CliChannels)
                              /\ Injective(list)
<1>1. Len(CliChannels) \in Nat
  BY InaAssumption DEF InaAssumption
<1>2. ASSUME list \in Lists
      PROVE  list \in Seq(Channels) /\ Len(list) <= Len(CliChannels) /\ Injective(list)
  <2>1. PICK n \in 0 .. Len(CliChannels) : list \in [1 .. n -> Channels]
    BY <1>2 DEF Lists
  <2>2. list \in Seq(Channels) /\ Len(list) = n
    BY <1>1, <2>1
  <2>3. QED
    BY <1>1, <1>2, <2>2 DEF Lists, Injective
<1>3. ASSUME list \in Seq(Channels), Len(list) <= Len(CliChannels), Injective(list)
      PROVE  list \in Lists
  <2>1. Len(list) \in 0 .. Len(CliChannels) /\ list \in [1 .. Len(list) -> Channels]
    BY <1>1, <1>3
  <2>2. QED
    BY <1>3, <2>1 DEF Lists, Injective
<1>4. QED
  BY <1>2, <1>3

\* Appending adds one element at the end.
LEMMA Appended ==
    ASSUME NEW T, NEW s \in Seq(T), NEW x \in T
    PROVE  /\ Append(s, x) \in Seq(T)
           /\ Len(Append(s, x)) = Len(s) + 1
           /\ Members(Append(s, x)) = Members(s) \cup {x}
           /\ Injective(s) /\ x \notin Members(s) => Injective(Append(s, x))
<1>1. Append(s, x) \in Seq(T) /\ Len(Append(s, x)) = Len(s) + 1
  OBVIOUS
<1>2. Len(s) \in Nat /\ DOMAIN s = 1 .. Len(s) /\ DOMAIN Append(s, x) = 1 .. Len(s) + 1
  OBVIOUS
<1>3. /\ \A i \in 1 .. Len(s) : Append(s, x)[i] = s[i]
      /\ Append(s, x)[Len(s) + 1] = x
  OBVIOUS
<1>4. Members(Append(s, x)) = Members(s) \cup {x}
  BY <1>2, <1>3 DEF Members
<1>5. Injective(s) /\ x \notin Members(s) => Injective(Append(s, x))
  BY <1>2, <1>3 DEF Injective, Members
<1>6. QED
  BY <1>1, <1>4, <1>5

\* The empty list and the lists of one channel.
LEMMA ShortLists ==
    /\ <<>> \in Lists /\ Members(<<>>) = {}
    /\ \A c \in Channels : <<c>> \in Lists /\ Members(<<c>>) = {c} /\ <<c>> # <<>>
<1>1. Len(CliChannels) \in Nat /\ CliHighspeed \in Lists /\ CliHighspeed # <<>>
  BY InaAssumption DEF InaAssumption
<1>2. Len(CliChannels) >= 1
  BY <1>1, ListsAre
<1>3. \A c \in Channels : <<c>> \in Seq(Channels) /\ Len(<<c>>) = 1 /\ <<c>> # <<>>
  OBVIOUS
<1>4. \A c \in Channels : DOMAIN <<c>> = {1} /\ <<c>>[1] = c
  BY <1>3
<1>5. Injective(<<>>) /\ \A c \in Channels : Injective(<<c>>)
  BY <1>4 DEF Injective
<1>6. Members(<<>>) = {} /\ \A c \in Channels : Members(<<c>>) = {c}
  BY <1>4 DEF Members
<1>7. <<>> \in Seq(Channels) /\ Len(<<>>) <= Len(CliChannels)
  BY <1>1
<1>8. <<>> \in Lists
  BY <1>5, <1>7, ListsAre
<1>9. ASSUME NEW c \in Channels PROVE <<c>> \in Lists
  <2>1. Len(<<c>>) <= Len(CliChannels)
    BY <1>1, <1>2, <1>3
  <2>2. QED
    BY <1>3, <1>5, <2>1, ListsAre
<1>10. QED
  BY <1>3, <1>6, <1>8, <1>9

\* A list that is not empty has a first element, and an empty one has none.
LEMMA FirstOf ==
    ASSUME NEW list \in Lists
    PROVE  /\ list # <<>> => list[1] \in Members(list)
           /\ list = <<>> <=> Members(list) = {}
           /\ Members(list) \subseteq Channels
<1>1. list \in Seq(Channels)
  BY ListsAre
<1>2. list # <<>> => 1 \in DOMAIN list
  BY <1>1
<1>3. QED
  BY <1>1, <1>2, ShortLists DEF Members

-----------------------------------------------------------------------------
(* Among.                                                                  *)

\* The function that Among is the last value of, and one step of it.
Kept(list, S) ==
    LET kept[i \in 0 .. Len(list)] ==
            IF i = 0 THEN <<>>
            ELSE IF list[i] \in S THEN Append(kept[i - 1], list[i]) ELSE kept[i - 1]
    IN  kept
KeptStep(list, S, f, i) ==
    IF i = 0 THEN <<>>
    ELSE IF list[i] \in S THEN Append(f[i - 1], list[i]) ELSE f[i - 1]

\* There is such a function, however long the list.
LEMMA KeptExists ==
    ASSUME NEW list, NEW S, NEW n \in Nat
    PROVE  \E f : f = [i \in 0 .. n |-> KeptStep(list, S, f, i)]
<1> DEFINE Bad == {m \in Nat : ~ \E f : f = [i \in 0 .. m |-> KeptStep(list, S, f, i)]}
<1> SUFFICES ASSUME Bad # {} PROVE FALSE
  OBVIOUS
<1>1. Bad \subseteq Nat
  OBVIOUS
<1>2. PICK m \in Bad : \A k \in Bad : m <= k
  BY <1>1, Least
<1>3. m \in Nat /\ ~ \E f : f = [i \in 0 .. m |-> KeptStep(list, S, f, i)]
  BY <1>2
<1>4. CASE m = 0
  <2> DEFINE f == [i \in 0 .. 0 |-> <<>>]
  <2>1. f = [i \in 0 .. 0 |-> KeptStep(list, S, f, i)]
    BY DEF KeptStep
  <2>2. QED
    BY <1>3, <1>4, <2>1
<1>5. CASE m # 0
  <2>1. m - 1 \in Nat /\ m - 1 \notin Bad
    BY <1>2, <1>3, <1>5
  <2>2. PICK g : g = [i \in 0 .. m - 1 |-> KeptStep(list, S, g, i)]
    BY <2>1
  <2> DEFINE f == [i \in 0 .. m |-> IF i = m THEN KeptStep(list, S, g, i) ELSE g[i]]
  <2>3. ASSUME NEW i \in 0 .. m PROVE f[i] = KeptStep(list, S, f, i)
    <3>1. i = 0 \/ (i - 1 \in 0 .. m - 1 /\ f[i - 1] = g[i - 1])
      BY <1>3
    <3>2. KeptStep(list, S, f, i) = KeptStep(list, S, g, i)
      BY <3>1 DEF KeptStep
    <3>3. f[i] = KeptStep(list, S, g, i)
      BY <1>3, <2>2
    <3>4. QED
      BY <3>2, <3>3
  <2>4. f = [i \in 0 .. m |-> KeptStep(list, S, f, i)]
    BY <2>3
  <2>5. QED
    BY <1>3, <2>4
<1>6. QED
  BY <1>4, <1>5

\* So Kept is one.
LEMMA KeptIs ==
    ASSUME NEW list, NEW S, Len(list) \in Nat
    PROVE  /\ Kept(list, S) = [i \in 0 .. Len(list) |-> KeptStep(list, S, Kept(list, S), i)]
           /\ Among(list, S) = Kept(list, S)[Len(list)]
<1> DEFINE K == CHOOSE f : f = [i \in 0 .. Len(list) |-> KeptStep(list, S, f, i)]
<1>1. \E f : f = [i \in 0 .. Len(list) |-> KeptStep(list, S, f, i)]
  BY KeptExists
<1>2. K = [i \in 0 .. Len(list) |-> KeptStep(list, S, K, i)]
  BY <1>1
<1>3. Kept(list, S) = K
  BY DEF Kept, KeptStep
<1>4. Among(list, S) = Kept(list, S)[Len(list)]
  BY DEF Kept, Among
<1>5. QED
  BY <1>2, <1>3, <1>4

\* What has been kept of the first i elements.
Before(list, i) == {list[j] : j \in 1 .. i}
KeptOK(list, S, k, i) ==
    /\ k \in Seq(Channels) /\ Len(k) <= i
    /\ Members(k) = Before(list, i) \cap S
    /\ Injective(k)
    /\ Members(list) \subseteq S => Len(k) = i /\ \A j \in 1 .. i : k[j] = list[j]

\* One more element is kept or left out.
LEMMA KeptGrows ==
    ASSUME NEW list \in Lists, NEW S, NEW i \in 1 .. Len(list), NEW k,
           KeptOK(list, S, k, i - 1)
    PROVE  KeptOK(list, S, IF list[i] \in S THEN Append(k, list[i]) ELSE k, i)
<1>1. list \in Seq(Channels) /\ Injective(list)
  BY ListsAre
<1>2. Len(list) \in Nat /\ i \in Nat /\ i - 1 \in Nat /\ DOMAIN list = 1 .. Len(list)
  BY <1>1
<1>3. list[i] \in Channels /\ list[i] \in Members(list)
  BY <1>1, <1>2 DEF Members
<1>4. Before(list, i) = Before(list, i - 1) \cup {list[i]}
  BY <1>2 DEF Before
<1>5. list[i] \notin Before(list, i - 1)
  BY <1>1, <1>2 DEF Before, Injective
<1>6. CASE list[i] \in S
  <2>1. list[i] \notin Members(k)
    BY <1>5 DEF KeptOK
  <2>2. /\ Append(k, list[i]) \in Seq(Channels)
        /\ Len(Append(k, list[i])) = Len(k) + 1
        /\ Members(Append(k, list[i])) = Members(k) \cup {list[i]}
        /\ Injective(Append(k, list[i]))
    BY <1>3, <2>1, Appended DEF KeptOK
  <2>3. Len(Append(k, list[i])) <= i
    BY <1>2, <2>2 DEF KeptOK
  <2>4. Members(Append(k, list[i])) = Before(list, i) \cap S
    BY <1>4, <1>6, <2>2 DEF KeptOK
  <2>5. ASSUME Members(list) \subseteq S
        PROVE  Len(Append(k, list[i])) = i /\ \A j \in 1 .. i : Append(k, list[i])[j] = list[j]
    <3>1. Len(k) = i - 1 /\ \A j \in 1 .. i - 1 : k[j] = list[j]
      BY <2>5 DEF KeptOK
    <3>2. k \in Seq(Channels)
      BY DEF KeptOK
    <3>3. Append(k, list[i])[i] = list[i] /\ \A j \in 1 .. i - 1 : Append(k, list[i])[j] = k[j]
      BY <1>2, <3>1, <3>2
    <3>4. QED
      BY <1>2, <2>2, <3>1, <3>3
  <2>6. QED
    BY <1>6, <2>2, <2>3, <2>4, <2>5 DEF KeptOK
<1>7. CASE list[i] \notin S
  <2>1. Before(list, i) \cap S = Before(list, i - 1) \cap S
    BY <1>4, <1>7
  <2>2. ~(Members(list) \subseteq S)
    BY <1>3, <1>7
  <2>3. Len(k) <= i
    BY <1>2 DEF KeptOK
  <2>4. QED
    BY <1>7, <2>1, <2>2, <2>3 DEF KeptOK
<1>8. QED
  BY <1>6, <1>7

\* What Among returns: the elements that are in S, without repetition, and the list
\* itself when all of them are.
LEMMA AmongIs ==
    ASSUME NEW list \in Lists, NEW S
    PROVE  /\ Among(list, S) \in Lists
           /\ Members(Among(list, S)) = Members(list) \cap S
           /\ Members(list) \subseteq S => Among(list, S) = list
<1>1. list \in Seq(Channels) /\ Len(list) <= Len(CliChannels) /\ Injective(list)
  BY ListsAre
<1>2. Len(list) \in Nat /\ DOMAIN list = 1 .. Len(list) /\ Len(CliChannels) \in Nat
  BY <1>1, InaAssumption DEF InaAssumption
<1>3. \A i \in 0 .. Len(list) : KeptOK(list, S, Kept(list, S)[i], i)
  <2> DEFINE Bad == {i \in 0 .. Len(list) : ~KeptOK(list, S, Kept(list, S)[i], i)}
  <2> SUFFICES ASSUME Bad # {} PROVE FALSE
    OBVIOUS
  <2>1. Bad \subseteq Nat
    BY <1>2
  <2>2. PICK m \in Bad : \A k \in Bad : m <= k
    BY <2>1, Least
  <2>3. m \in 0 .. Len(list) /\ ~KeptOK(list, S, Kept(list, S)[m], m)
    BY <2>2
  <2>4. Kept(list, S)[m] = KeptStep(list, S, Kept(list, S), m)
    BY <1>2, <2>3, KeptIs
  <2>5. CASE m = 0
    <3>1. Kept(list, S)[m] = <<>>
      BY <2>4, <2>5 DEF KeptStep
    <3>2. Before(list, 0) = {}
      BY DEF Before
    <3>3. <<>> \in Seq(Channels) /\ Len(<<>>) = 0 /\ Members(<<>>) = {} /\ Injective(<<>>)
      BY ShortLists, ListsAre
    <3>4. KeptOK(list, S, <<>>, 0)
      BY <3>2, <3>3 DEF KeptOK
    <3>5. QED
      BY <2>3, <2>5, <3>1, <3>4
  <2>6. CASE m # 0
    <3>1. m \in 1 .. Len(list) /\ m - 1 \in 0 .. Len(list) /\ ~(m <= m - 1)
      BY <1>2, <2>3, <2>6
    <3>2. m - 1 \notin Bad
      BY <2>2, <3>1
    <3>3. KeptOK(list, S, Kept(list, S)[m - 1], m - 1)
      BY <3>1, <3>2
    <3>4. KeptOK(list, S, Kept(list, S)[m], m)
      BY <2>4, <2>6, <3>1, <3>3, KeptGrows DEF KeptStep
    <3>5. QED
      BY <2>3, <3>4
  <2>7. QED
    BY <2>5, <2>6
<1>4. KeptOK(list, S, Among(list, S), Len(list))
  BY <1>2, <1>3, KeptIs
<1>5. Before(list, Len(list)) = Members(list)
  BY <1>2 DEF Before, Members
<1>6. Among(list, S) \in Lists
  <2>1. Among(list, S) \in Seq(Channels) /\ Len(Among(list, S)) <= Len(list)
    BY <1>4 DEF KeptOK
  <2>2. Len(Among(list, S)) <= Len(CliChannels)
    BY <1>1, <1>2, <2>1
  <2>3. QED
    BY <1>4, <2>1, <2>2, ListsAre DEF KeptOK
<1>7. ASSUME Members(list) \subseteq S PROVE Among(list, S) = list
  <2>1. /\ Among(list, S) \in Seq(Channels) /\ Len(Among(list, S)) = Len(list)
        /\ \A j \in 1 .. Len(list) : Among(list, S)[j] = list[j]
    BY <1>4, <1>7 DEF KeptOK
  <2>2. QED
    BY <1>1, <2>1, SeqEqual
<1>8. QED
  BY <1>4, <1>5, <1>6, <1>7 DEF KeptOK

-----------------------------------------------------------------------------
(* The selection and the calibrations.                                     *)

\* Channels are positive numbers, of which a nonempty set has a first and a last one.
LEMMA ChannelsAre ==
    /\ Channels \subseteq Nat
    /\ \A S \in SUBSET Channels : S # {} =>
          /\ \E c \in S : \A d \in S : c <= d
          /\ Highest(S) \in S /\ \A d \in S : d <= Highest(S)
<1>1. CliChannels \in Seq(Nat \ {0}) /\ CliChannels \in Seq(Channels)
  BY InaAssumption, ListsAre DEF InaAssumption
<1>2. Len(CliChannels) \in Nat /\ DOMAIN CliChannels = 1 .. Len(CliChannels)
  BY <1>1
<1>3. Channels \subseteq Nat
  BY <1>1, <1>2 DEF Channels, Members
<1>4. ASSUME NEW i \in 0 .. Len(CliChannels)
      PROVE  \E b \in Nat : \A j \in 1 .. i : CliChannels[j] <= b
  <2> DEFINE Bounded(n) == \E b \in Nat : \A j \in 1 .. n : CliChannels[j] <= b
             Bad == {n \in 0 .. Len(CliChannels) : ~Bounded(n)}
  <2> SUFFICES ASSUME Bad # {} PROVE FALSE
    OBVIOUS
  <2>1. Bad \subseteq Nat
    BY <1>2
  <2>2. PICK m \in 0 .. Len(CliChannels) : m \in Bad /\ \A k \in Bad : m <= k
    BY <2>1, Least
  <2>3. ~Bounded(m) /\ m \in Nat
    BY <1>2, <2>2
  <2>4. m # 0
    <3>1. m = 0 => \A j \in 1 .. m : CliChannels[j] <= 0
      OBVIOUS
    <3>2. QED
      BY <2>3, <3>1
  <2> HIDE DEF Bounded, Bad
  <2>5. m \in 1 .. Len(CliChannels) /\ m - 1 \in 0 .. Len(CliChannels) /\ ~(m <= m - 1)
    BY <1>2, <2>3, <2>4
  <2>6. PICK b \in Nat : \A j \in 1 .. m - 1 : CliChannels[j] <= b
    BY <2>2, <2>5 DEF Bounded, Bad
  <2>7. PICK n \in Nat : n = CliChannels[m]
    BY <1>2, <1>3, <2>5 DEF Channels, Members
  <2>8. b + n \in Nat /\ b <= b + n /\ n <= b + n
    OBVIOUS
  <2>9. ASSUME NEW j \in 1 .. m PROVE CliChannels[j] <= b + n
    <3>1. j \in 1 .. Len(CliChannels) /\ (j \in 1 .. m - 1 \/ j = m)
      BY <1>2, <2>5
    <3>2. PICK k \in Nat : k = CliChannels[j]
      BY <1>2, <1>3, <3>1 DEF Channels, Members
    <3>3. k <= b \/ k = n
      BY <2>6, <2>7, <3>1, <3>2
    <3>4. k <= b + n
      BY <2>8, <3>3
    <3>5. QED
      BY <3>2, <3>4
  <2>10. QED
    BY <2>3, <2>8, <2>9 DEF Bounded
<1>5. PICK b \in Nat : \A j \in 1 .. Len(CliChannels) : CliChannels[j] <= b
  <2>1. Len(CliChannels) \in 0 .. Len(CliChannels)
    BY <1>2
  <2>2. QED
    BY <1>4, <2>1
<1>6. \A c \in Channels : c <= b
  BY <1>2, <1>5 DEF Channels, Members
<1>7. ASSUME NEW S \in SUBSET Channels, S # {}
      PROVE  /\ \E c \in S : \A d \in S : c <= d
             /\ Highest(S) \in S /\ \A d \in S : d <= Highest(S)
  <2>1. S \subseteq Nat /\ \A d \in S : d <= b
    BY <1>3, <1>6
  <2>2. \E c \in S : \A d \in S : c <= d
    BY <1>7, <2>1, Least
  <2>3. \E c \in S : \A d \in S : d <= c
    BY <1>7, <2>1, Greatest
  <2>4. QED
    BY <2>2, <2>3 DEF Highest
<1>8. QED
  BY <1>3, <1>7

\* The chart's channel is one of the list it is chosen from.
LEMMA ActiveIs ==
    ASSUME NEW list \in Lists
    PROVE  ActiveOf(list) \in Channels \cup {0} /\ (ActiveOf(list) = 0 \/ ActiveOf(list) \in Members(list))
<1>1. Members(list) \subseteq Channels /\ (list # <<>> => list[1] \in Members(list))
  BY FirstOf
<1>2. QED
  BY <1>1 DEF ActiveOf

\* The boot's high-speed channels: there is one when a channel is enabled.
LEMMA BootSelects ==
    ASSUME NEW S \in SUBSET Channels, NEW able \in Lists, Members(able) \subseteq S,
           saved.highspeed \in Lists
    PROVE  /\ BootHighspeed(S, able) \in Lists
           /\ able # <<>> => BootHighspeed(S, able) # <<>>
<1>1. WantedHighspeed \in Lists
  BY InaAssumption DEF InaAssumption, WantedHighspeed
<1> DEFINE wanted == Among(WantedHighspeed, S \cap Members(able))
<1>2. wanted \in Lists
  BY <1>1, AmongIs
<1>3. CASE able # <<>> /\ wanted = <<>>
  <2>1. S # {}
    BY <1>3, FirstOf
  <2>2. (CHOOSE c \in S : \A d \in S : c <= d) \in S
    BY <2>1, ChannelsAre
  <2>3. QED
    BY <1>3, <2>2, ShortLists DEF BootHighspeed
<1>4. CASE ~(able # <<>> /\ wanted = <<>>)
  BY <1>2, <1>4 DEF BootHighspeed
<1>5. QED
  BY <1>3, <1>4

\* What is left of the high-speed channels when others are enabled.
LEMMA StillFastIs ==
    ASSUME NEW list \in Lists, NEW able \in Lists
    PROVE  /\ StillFast(list, able) \in Lists
           /\ Members(StillFast(list, able)) \subseteq Members(able)
           /\ able # <<>> => StillFast(list, able) # <<>>
<1>1. /\ Among(list, Members(able)) \in Lists
      /\ Members(Among(list, Members(able))) \subseteq Members(able)
  BY AmongIs
<1>2. able # <<>> => able[1] \in Members(able) /\ able[1] \in Channels
  BY FirstOf
<1>3. CASE able # <<>> /\ Among(list, Members(able)) = <<>>
  BY <1>2, <1>3, ShortLists DEF StillFast
<1>4. CASE ~(able # <<>> /\ Among(list, Members(able)) = <<>>)
  BY <1>1, <1>4 DEF StillFast
<1>5. QED
  BY <1>3, <1>4

-----------------------------------------------------------------------------
(* The inductive invariant.                                                *)

\* The types: of the selection, the calibrations, the thread, the file and the world.
SelectionTypes ==
    /\ sensors \subseteq Channels /\ enabled \in Lists /\ highspeed \in Lists
    /\ active \in Channels \cup {0} /\ fellBack \in BOOLEAN
CalibrationTypes ==
    /\ shunt \in [Channels -> Shunts \cup {0}] /\ scale \in [Channels -> Shunts \cup {0}]
    /\ chip \in [Channels -> Shunts \cup {0}] /\ keptShunt \in [Channels -> Shunts \cup {0}]
ThreadTypes ==
    /\ initial \in Lists /\ index \in 1 .. Len(CliChannels) /\ last \in Channels \cup {0}
    /\ count \in [Channels -> 0 .. CheckEvery]
FileTypes ==
    /\ saved.present \in BOOLEAN /\ saved.enabled \in Lists /\ saved.highspeed \in Lists
    /\ \A c \in DOMAIN saved.shunts : saved.shunts[c] \in Shunts \cup {0}
WorldTypes ==
    /\ broken \subseteq Channels /\ requests \in 0 .. MaxRequests
    /\ boots \in 0 .. MaxBoots /\ losses \in 0 .. MaxLosses

\* also after a boot that fell back: a channel that is not there cannot be enabled
EnabledPresent == Members(enabled) \subseteq sensors

\* what has been confirmed is in the file, as long as it is kept
ShuntInFile ==
    \A c \in Channels : keptShunt[c] # 0 =>
        c \in DOMAIN saved.shunts /\ saved.shunts[c] = keptShunt[c]
SelectionInFile ==
    keptSelection # <<>> =>
        /\ saved.present /\ keptSelection = <<saved.enabled, saved.highspeed>>
        /\ Members(saved.highspeed) \subseteq Members(saved.enabled)
        /\ saved.enabled # <<>> => saved.highspeed # <<>>

\* The properties hold because memory, the file and the confirmed settings agree: no
\* property says so of the file, and without it a boot could restore anything.
InaInv ==
    /\ SelectionTypes /\ CalibrationTypes /\ ThreadTypes /\ FileTypes /\ WorldTypes
    /\ EnabledPresent /\ SelectionConsistent /\ ConfirmedInUse
    /\ ShuntInFile /\ SelectionInFile

\* The invariant holds before the first request.
LEMMA InitOK == Init => InaInv
<1> SUFFICES ASSUME Init PROVE InaInv
  OBVIOUS
<1> USE InaAssumption DEF InaAssumption
<1>1. CliChannels \in Lists /\ CliHighspeed \in Lists /\ CliHighspeed # <<>> /\ <<>> \in Lists
  BY ShortLists
<1>2. Members(CliChannels) = Channels /\ Members(CliHighspeed) \subseteq Channels
  BY <1>1, FirstOf DEF Channels
<1>3. Len(CliChannels) \in Nat /\ Len(CliChannels) >= 1
  <2>1. CliHighspeed \in Seq(Channels) /\ Len(CliHighspeed) <= Len(CliChannels)
    BY <1>1, ListsAre
  <2>2. Len(CliChannels) \in Nat
    OBVIOUS
  <2>3. QED
    BY <1>1, <2>1, <2>2
<1>4. SelectionTypes /\ EnabledPresent /\ SelectionConsistent
  BY <1>1, <1>2, ActiveIs DEF Init, SelectionTypes, EnabledPresent, SelectionConsistent
<1>5. CalibrationTypes /\ ConfirmedInUse /\ ShuntInFile
  BY DEF Init, CalibrationTypes, ConfirmedInUse, ShuntInFile, Nothing
<1>6. ThreadTypes
  BY <1>1, <1>3 DEF Init, ThreadTypes, Nothing
<1>7. FileTypes /\ SelectionInFile /\ WorldTypes
  BY <1>1 DEF Init, FileTypes, SelectionInFile, WorldTypes
<1>8. QED
  BY <1>4, <1>5, <1>6, <1>7 DEF InaInv

-----------------------------------------------------------------------------
(* The steps.                                                              *)

\* A boot takes from the file what has been confirmed.
LEMMA BootKeeps == ASSUME InaInv, Boot PROVE InaInv'
<1>1. PICK S \in SUBSET Channels : Start(S)
  BY DEF Boot, Detected
<1>2. /\ saved.present \in BOOLEAN /\ saved.enabled \in Lists /\ saved.highspeed \in Lists
      /\ \A c \in DOMAIN saved.shunts : saved.shunts[c] \in Shunts \cup {0}
  BY DEF InaInv, FileTypes
<1>3. WantedEnabled \in Lists
  BY <1>2, InaAssumption DEF InaAssumption, WantedEnabled
<1>4. enabled' \in Lists /\ Members(enabled') \subseteq S
  BY <1>1, <1>3, AmongIs DEF Start
<1>5. highspeed' \in Lists /\ (enabled' # <<>> => highspeed' # <<>>)
  BY <1>1, <1>2, <1>4, BootSelects DEF Start
<1>6. active' \in Channels \cup {0} /\ (active' = 0 \/ active' \in Members(highspeed'))
  BY <1>1, <1>5, ActiveIs DEF Start
<1>7. fellBack' \in BOOLEAN /\ (~fellBack' => Members(highspeed') \subseteq Members(enabled'))
  BY <1>1 DEF Start
<1>8. sensors' = S
  BY <1>1 DEF Start
<1>9. SelectionTypes' /\ EnabledPresent' /\ SelectionConsistent'
  BY <1>4, <1>5, <1>6, <1>7, <1>8 DEF SelectionTypes, EnabledPresent, SelectionConsistent
<1>10. UNCHANGED <<saved, broken, requests, losses, keptSelection, keptShunt>>
  BY DEF Boot
<1>11. \A c \in Channels : BootShunt(c) \in Shunts \cup {0}
  BY <1>2, InaAssumption DEF InaAssumption, BootShunt
<1>12. \A c \in S : shunt'[c] = BootShunt(c) /\ scale'[c] = BootShunt(c) /\ chip'[c] = BootShunt(c)
  BY <1>1 DEF Start
<1>13. CalibrationTypes'
  BY <1>1, <1>10, <1>11 DEF Start, InaInv, CalibrationTypes
<1>14. ConfirmedInUse'
  <2>1. \A c \in Channels : keptShunt[c] # 0 => BootShunt(c) = keptShunt[c]
    BY DEF InaInv, ShuntInFile, BootShunt
  <2>2. QED
    BY <1>8, <1>10, <1>12, <2>1 DEF ConfirmedInUse
<1>15. ThreadTypes'
  <2>1. 1 \in 1 .. Len(CliChannels)
    BY DEF InaInv, ThreadTypes
  <2>2. \A c \in Channels : 0 \in 0 .. CheckEvery
    BY InaAssumption DEF InaAssumption
  <2>3. QED
    BY <1>1, <1>5, <2>1, <2>2 DEF Start, ThreadTypes, Nothing
<1>16. WorldTypes'
  <2>1. boots < MaxBoots /\ boots' = boots + 1 /\ boots \in 0 .. MaxBoots /\ MaxBoots \in Nat
    BY InaAssumption DEF InaAssumption, Boot, InaInv, WorldTypes
  <2>2. boots' \in 0 .. MaxBoots
    BY <2>1
  <2>3. QED
    BY <1>10, <2>2 DEF InaInv, WorldTypes
<1>17. FileTypes' /\ ShuntInFile' /\ SelectionInFile'
  BY <1>10 DEF InaInv, FileTypes, ShuntInFile, SelectionInFile
<1>18. QED
  BY <1>9, <1>13, <1>14, <1>15, <1>16, <1>17 DEF InaInv

\* What a request leaves alone, and how many there may be.
LEMMA RequestIs ==
    ASSUME InaInv, Requested
    PROVE  /\ UNCHANGED <<sensors, initial, index, last, count>>
           /\ ThreadTypes' /\ WorldTypes'
<1>1. UNCHANGED <<sensors, initial, index, last, count, broken, boots, losses>>
  BY DEF Requested, thread
<1>2. requests < MaxRequests /\ requests' = requests + 1 /\ requests \in 0 .. MaxRequests
  BY DEF Requested, InaInv, WorldTypes
<1>3. requests' \in 0 .. MaxRequests
  BY <1>2, InaAssumption DEF InaAssumption
<1>4. QED
  BY <1>1, <1>3 DEF InaInv, ThreadTypes, WorldTypes

\* The end of both requests that change the selection: saved, or kept in memory only.
LEMMA SelectionKeeps ==
    ASSUME InaInv, Requested, SelectionSaved, UNCHANGED calibration,
           enabled' \in Lists, highspeed' \in Lists,
           Members(highspeed') \subseteq Members(enabled'), Members(enabled') \subseteq sensors,
           enabled' # <<>> => highspeed' # <<>>,
           active' \in Channels \cup {0}, active' = 0 \/ active' \in Members(enabled')
    PROVE  InaInv'
<1>1. sensors' = sensors /\ ThreadTypes' /\ WorldTypes'
  BY RequestIs
<1>2. fellBack' = FALSE
  BY DEF SelectionSaved
<1>3. SelectionTypes' /\ EnabledPresent' /\ SelectionConsistent'
  BY <1>1, <1>2 DEF InaInv, SelectionTypes, EnabledPresent, SelectionConsistent
<1>4. UNCHANGED <<shunt, scale, chip>>
  BY DEF calibration
<1>5. CASE Save /\ keptSelection' = <<enabled', highspeed'>>
           /\ keptShunt' = [c \in Channels |-> IF c \in sensors THEN keptShunt[c] ELSE 0]
  <2>1. /\ saved'.present = TRUE /\ saved'.enabled = enabled' /\ saved'.highspeed = highspeed'
        /\ saved'.shunts = [c \in sensors |-> shunt[c]]
    BY <1>4, <1>5 DEF Save
  <2>2. sensors \subseteq Channels /\ \A c \in sensors : shunt[c] \in Shunts \cup {0}
    BY DEF InaInv, SelectionTypes, CalibrationTypes
  <2>3. FileTypes'
    BY <2>1, <2>2 DEF FileTypes
  <2>4. SelectionInFile'
    BY <1>5, <2>1 DEF SelectionInFile
  <2>5. \A c \in Channels : keptShunt'[c] # 0 => c \in sensors /\ keptShunt'[c] = keptShunt[c]
    BY <1>5
  <2>6. \A c \in sensors : keptShunt[c] # 0 => shunt[c] = keptShunt[c]
    BY DEF InaInv, ConfirmedInUse
  <2>7. ShuntInFile'
    BY <2>1, <2>5, <2>6 DEF ShuntInFile
  <2>8. ConfirmedInUse'
    BY <1>1, <1>4, <2>2, <2>5 DEF InaInv, ConfirmedInUse
  <2>9. CalibrationTypes'
    BY <1>4, <1>5 DEF InaInv, CalibrationTypes
  <2>10. QED
    BY <1>1, <1>3, <2>3, <2>4, <2>7, <2>8, <2>9 DEF InaInv
<1>6. CASE UNCHANGED <<saved, keptShunt>> /\ keptSelection' = <<>>
  <2>1. FileTypes' /\ ShuntInFile' /\ SelectionInFile'
    BY <1>6 DEF InaInv, FileTypes, ShuntInFile, SelectionInFile
  <2>2. ConfirmedInUse' /\ CalibrationTypes'
    BY <1>1, <1>4, <1>6 DEF InaInv, ConfirmedInUse, CalibrationTypes
  <2>3. QED
    BY <1>1, <1>3, <2>1, <2>2 DEF InaInv
<1>7. QED
  BY <1>5, <1>6 DEF SelectionSaved

\* Another selection of high-speed channels.
LEMMA HighspeedKeeps == ASSUME InaInv, SetHighspeed PROVE InaInv'
<1>1. /\ Requested /\ SelectionSaved /\ UNCHANGED <<enabled, calibration>>
      /\ highspeed' \in Lists /\ highspeed' # <<>>
      /\ Members(highspeed') \subseteq sensors \cap Members(enabled)
      /\ active' = IF active \in Members(highspeed') THEN active ELSE highspeed'[1]
  BY DEF SetHighspeed
<1>2. enabled' \in Lists /\ Members(enabled') \subseteq sensors
  BY <1>1 DEF InaInv, SelectionTypes, EnabledPresent
<1>3. highspeed'[1] \in Members(highspeed') /\ Members(highspeed') \subseteq Channels
  BY <1>1, FirstOf
<1>4. active' \in Members(highspeed')
  BY <1>1, <1>3
<1>5. QED
  BY <1>1, <1>2, <1>3, <1>4, SelectionKeeps

\* Another selection of enabled channels.
LEMMA EnabledKeeps == ASSUME InaInv, SetEnabled PROVE InaInv'
<1>1. /\ Requested /\ SelectionSaved /\ UNCHANGED calibration
      /\ enabled' \in Lists /\ Members(enabled') \subseteq sensors
      /\ highspeed' = StillFast(highspeed, enabled')
      /\ active' = IF active \in Members(enabled') THEN active
                   ELSE IF enabled' # <<>> THEN enabled'[1] ELSE 0
  BY DEF SetEnabled
<1>2. highspeed \in Lists
  BY DEF InaInv, SelectionTypes
<1>3. /\ highspeed' \in Lists /\ Members(highspeed') \subseteq Members(enabled')
      /\ enabled' # <<>> => highspeed' # <<>>
  BY <1>1, <1>2, StillFastIs
<1>4. (enabled' # <<>> => enabled'[1] \in Members(enabled')) /\ Members(enabled') \subseteq Channels
  BY <1>1, FirstOf
<1>5. active' = 0 \/ active' \in Members(enabled')
  BY <1>1, <1>4
<1>6. active' \in Channels \cup {0}
  BY <1>4, <1>5
<1>7. QED
  BY <1>1, <1>3, <1>5, <1>6, SelectionKeeps

\* How far a calibration has got: the channels before c have it, c has part of it or
\* none, the others are as they were.
Reached(S, value, c, stage) ==
    /\ shunt' \in [Channels -> Shunts \cup {0}] /\ scale' \in [Channels -> Shunts \cup {0}]
    /\ chip' \in [Channels -> Shunts \cup {0}]
    /\ \A d \in S : d < c \/ (d = c /\ stage = "done") =>
           shunt'[d] = value[d] /\ scale'[d] = value[d] /\ chip'[d] = value[d]
    /\ \A d \in Channels : ~(d \in S /\ (d < c \/ (d = c /\ stage # "rejected"))) =>
           shunt'[d] = shunt[d] /\ scale'[d] = scale[d] /\ chip'[d] = chip[d]

\* The loop over the channels gets that far.
LEMMA ConfiguredIs ==
    ASSUME CalibrationTypes, NEW S \in SUBSET Channels, NEW value \in [S -> Shunts], NEW c \in S,
           NEW stage \in {"config", "scale", "done", "rejected"}, Configured(c, stage, value)
    PROVE  Reached(S, value, c, stage)
<1> DEFINE full == {d \in S : d < c \/ (d = c /\ stage = "done")}
           scaled == full \cup {d \in {c} : stage = "scale"}
           named == scaled \cup {d \in {c} : stage = "config"}
<1>1. /\ shunt' = [d \in Channels |-> IF d \in named THEN value[d] ELSE shunt[d]]
      /\ scale' = [d \in Channels |-> IF d \in scaled THEN value[d] ELSE scale[d]]
      /\ chip' = [d \in Channels |-> IF d \in full THEN value[d] ELSE chip[d]]
  BY DEF Configured
<1>2. /\ full \subseteq S /\ scaled \subseteq S /\ named \subseteq S
      /\ full \subseteq scaled /\ scaled \subseteq named
  OBVIOUS
<1>3. \A d \in S : d < c \/ (d = c /\ stage = "done") => d \in full
  OBVIOUS
<1>4. \A d \in Channels : ~(d \in S /\ (d < c \/ (d = c /\ stage # "rejected"))) => d \notin named
  OBVIOUS
<1>5. \A d \in S : value[d] \in Shunts
  OBVIOUS
<1> HIDE DEF full, scaled, named
<1>6. /\ shunt' \in [Channels -> Shunts \cup {0}] /\ scale' \in [Channels -> Shunts \cup {0}]
      /\ chip' \in [Channels -> Shunts \cup {0}]
  BY <1>1, <1>2, <1>5 DEF CalibrationTypes
<1>7. \A d \in S : d < c \/ (d = c /\ stage = "done") =>
          shunt'[d] = value[d] /\ scale'[d] = value[d] /\ chip'[d] = value[d]
  BY <1>1, <1>2, <1>3
<1>8. \A d \in Channels : ~(d \in S /\ (d < c \/ (d = c /\ stage # "rejected"))) =>
          shunt'[d] = shunt[d] /\ scale'[d] = scale[d] /\ chip'[d] = chip[d]
  BY <1>1, <1>2, <1>4
<1>9. QED
  BY <1>6, <1>7, <1>8 DEF Reached

\* What of the invariant a calibration leaves alone.
LEMMA CalibrationAlone ==
    ASSUME InaInv, Requested, UNCHANGED <<selection, fellBack>>
    PROVE  /\ sensors' = sensors /\ enabled' = enabled /\ highspeed' = highspeed
           /\ SelectionTypes' /\ EnabledPresent' /\ SelectionConsistent'
           /\ ThreadTypes' /\ WorldTypes'
<1>1. sensors' = sensors /\ ThreadTypes' /\ WorldTypes'
  BY RequestIs
<1>2. UNCHANGED <<enabled, highspeed, active>>
  BY DEF selection
<1>3. QED
  BY <1>1, <1>2 DEF InaInv, SelectionTypes, EnabledPresent, SelectionConsistent

\* A calibration that is not saved: nothing is kept of the channels it has reached.
LEMMA LostKeeps ==
    ASSUME InaInv, Requested, UNCHANGED <<selection, fellBack, saved, keptSelection>>,
           shunt' \in [Channels -> Shunts \cup {0}], scale' \in [Channels -> Shunts \cup {0}],
           chip' \in [Channels -> Shunts \cup {0}],
           NEW Z, \A d \in Channels : d \notin Z =>
                      shunt'[d] = shunt[d] /\ scale'[d] = scale[d] /\ chip'[d] = chip[d],
           keptShunt' = [d \in Channels |-> IF d \in Z THEN 0 ELSE keptShunt[d]]
    PROVE  InaInv'
<1>1. /\ sensors' = sensors /\ SelectionTypes' /\ EnabledPresent' /\ SelectionConsistent'
      /\ ThreadTypes' /\ WorldTypes'
  BY CalibrationAlone
<1>2. FileTypes' /\ SelectionInFile'
  BY DEF InaInv, FileTypes, SelectionInFile
<1>3. CalibrationTypes'
  BY DEF InaInv, CalibrationTypes
<1>4. \A d \in Channels : keptShunt'[d] # 0 => d \notin Z /\ keptShunt'[d] = keptShunt[d]
  OBVIOUS
<1>5. ShuntInFile'
  BY <1>4 DEF InaInv, ShuntInFile
<1>6. sensors \subseteq Channels
  BY DEF InaInv, SelectionTypes
<1>7. ConfirmedInUse'
  BY <1>1, <1>4, <1>6 DEF InaInv, ConfirmedInUse
<1>8. QED
  BY <1>1, <1>2, <1>3, <1>5, <1>7 DEF InaInv

\* A calibration that is saved: the channels it is for have it, whichever is last.
LEMMA SavedKeeps ==
    ASSUME InaInv, Requested, UNCHANGED <<selection, fellBack>>, NEW S \in SUBSET sensors, S # {},
           NEW value \in [S -> Shunts], Configured(Highest(S), "done", value), Save,
           keptShunt' = [c \in Channels |-> IF c \in S THEN value[c]
                                       ELSE IF c \in sensors THEN keptShunt[c] ELSE 0],
           keptSelection' = IF keptSelection = <<enabled, highspeed>> THEN keptSelection ELSE <<>>
    PROVE  InaInv'
<1>1. /\ sensors' = sensors /\ enabled' = enabled /\ highspeed' = highspeed
      /\ SelectionTypes' /\ EnabledPresent' /\ SelectionConsistent'
      /\ ThreadTypes' /\ WorldTypes'
  BY CalibrationAlone
<1>2. sensors \subseteq Channels /\ S \in SUBSET Channels /\ CalibrationTypes
  BY DEF InaInv, SelectionTypes
<1>3. Highest(S) \in S /\ \A d \in S : d < Highest(S) \/ d = Highest(S)
  <2>1. Highest(S) \in S /\ \A d \in S : d <= Highest(S)
    BY <1>2, ChannelsAre
  <2>2. \A d \in S : d \in Nat
    BY <1>2, ChannelsAre
  <2>3. QED
    BY <2>1, <2>2
<1>4. /\ shunt' \in [Channels -> Shunts \cup {0}] /\ scale' \in [Channels -> Shunts \cup {0}]
      /\ chip' \in [Channels -> Shunts \cup {0}]
      /\ \A d \in S : shunt'[d] = value[d] /\ scale'[d] = value[d] /\ chip'[d] = value[d]
      /\ \A d \in Channels : d \notin S =>
             shunt'[d] = shunt[d] /\ scale'[d] = scale[d] /\ chip'[d] = chip[d]
  <2>1. "done" \in {"config", "scale", "done", "rejected"} /\ "done" # "rejected"
    OBVIOUS
  <2>2. Reached(S, value, Highest(S), "done")
    BY <1>2, <1>3, <2>1, ConfiguredIs
  <2>3. QED
    BY <1>3, <2>1, <2>2 DEF Reached
<1>5. /\ saved'.present = TRUE /\ saved'.enabled = enabled' /\ saved'.highspeed = highspeed'
      /\ saved'.shunts = [c \in sensors |-> shunt'[c]]
  BY DEF Save
<1>6. FileTypes'
  BY <1>1, <1>2, <1>4, <1>5 DEF SelectionTypes, FileTypes
<1>7. SelectionInFile'
  BY <1>1, <1>5 DEF InaInv, SelectionInFile
<1>8. CalibrationTypes'
  BY <1>2, <1>4 DEF CalibrationTypes
<1>9. \A c \in S : keptShunt'[c] = value[c]
  BY <1>2
<1>10. \A c \in Channels : c \notin S /\ keptShunt'[c] # 0 => c \in sensors /\ keptShunt'[c] = keptShunt[c]
  OBVIOUS
<1>11. \A c \in sensors : keptShunt[c] # 0 =>
           shunt[c] = keptShunt[c] /\ scale[c] = shunt[c] /\ chip[c] \in {0, shunt[c]}
  BY DEF InaInv, ConfirmedInUse
<1>12. \A c \in Channels : keptShunt'[c] # 0 =>
           /\ c \in sensors
           /\ shunt'[c] = keptShunt'[c] /\ scale'[c] = shunt'[c] /\ chip'[c] \in {0, shunt'[c]}
  BY <1>2, <1>4, <1>9, <1>10, <1>11
<1>13. ShuntInFile'
  BY <1>5, <1>12 DEF ShuntInFile
<1>14. ConfirmedInUse'
  BY <1>1, <1>2, <1>12 DEF ConfirmedInUse
<1>15. QED
  BY <1>1, <1>6, <1>7, <1>8, <1>13, <1>14 DEF InaInv

\* The ways a request to calibrate S may end: saved, not saved, or cut short at c.
Confirmed(S, value) ==
    /\ Configured(Highest(S), "done", value) /\ Save
    /\ keptShunt' = [c \in Channels |-> IF c \in S THEN value[c]
                                   ELSE IF c \in sensors THEN keptShunt[c] ELSE 0]
    /\ keptSelection' = IF keptSelection = <<enabled, highspeed>> THEN keptSelection ELSE <<>>
Unsaved(S, value) ==
    /\ Configured(Highest(S), "done", value) /\ UNCHANGED <<saved, keptSelection>>
    /\ keptShunt' = [c \in Channels |-> IF c \in S THEN 0 ELSE keptShunt[c]]
CutShort(S, value, c, stage) ==
    /\ Configured(c, stage, value) /\ UNCHANGED <<saved, keptSelection>>
    /\ keptShunt' = [d \in Channels |-> IF d \in S /\ (d < c \/ (d = c /\ stage # "rejected"))
                                   THEN 0 ELSE keptShunt[d]]

\* A calibration that is cut short at c.
LEMMA CutShortKeeps ==
    ASSUME InaInv, Requested, UNCHANGED <<selection, fellBack>>, NEW S \in SUBSET Channels,
           NEW value \in [S -> Shunts], NEW c \in S,
           NEW stage \in {"config", "scale", "done", "rejected"}, CutShort(S, value, c, stage)
    PROVE  InaInv'
<1> DEFINE Z == {d \in S : d < c \/ (d = c /\ stage # "rejected")}
<1>1. CalibrationTypes /\ Configured(c, stage, value) /\ UNCHANGED <<saved, keptSelection>>
  BY DEF InaInv, CutShort
<1>2. /\ shunt' \in [Channels -> Shunts \cup {0}] /\ scale' \in [Channels -> Shunts \cup {0}]
      /\ chip' \in [Channels -> Shunts \cup {0}]
      /\ \A d \in Channels : ~(d \in S /\ (d < c \/ (d = c /\ stage # "rejected"))) =>
             shunt'[d] = shunt[d] /\ scale'[d] = scale[d] /\ chip'[d] = chip[d]
  <2>1. Reached(S, value, c, stage)
    BY <1>1, ConfiguredIs
  <2>2. QED
    BY <2>1 DEF Reached
<1>3. \A d \in Channels : d \notin Z =>
             shunt'[d] = shunt[d] /\ scale'[d] = scale[d] /\ chip'[d] = chip[d]
  BY <1>2
<1>4. keptShunt' = [d \in Channels |-> IF d \in Z THEN 0 ELSE keptShunt[d]]
  BY DEF CutShort
<1> HIDE DEF Z
<1>5. QED
  BY <1>1, <1>2, <1>3, <1>4, LostKeeps

\* A calibration of all channels or of one keeps the invariant, however it ends.
LEMMA ReconfigureKeeps == ASSUME InaInv, Reconfigure PROVE InaInv'
<1>1. Requested /\ UNCHANGED <<selection, fellBack>>
  BY DEF Reconfigure
<1>2. sensors \subseteq Channels /\ sensors # {} /\ CalibrationTypes
  BY <1>1 DEF Requested, InaInv, SelectionTypes
<1>3. PICK S \in {sensors} \cup {{c} : c \in sensors} : \E value \in [S -> Shunts] :
        \/ Confirmed(S, value) \/ Unsaved(S, value)
        \/ \E c \in S : \E stage \in Stages(c) \cup {"rejected"} : CutShort(S, value, c, stage)
  <2>1. PICK S \in {sensors} \cup {{c} : c \in sensors} : \E value \in [S -> Shunts] :
        \/ /\ Configured(Highest(S), "done", value)
           /\ \/ /\ Save
                 /\ keptShunt' = [c \in Channels |-> IF c \in S THEN value[c]
                                                ELSE IF c \in sensors THEN keptShunt[c] ELSE 0]
                 /\ keptSelection' = IF keptSelection = <<enabled, highspeed>>
                                     THEN keptSelection ELSE <<>>
              \/ /\ UNCHANGED <<saved, keptSelection>>
                 /\ keptShunt' = [c \in Channels |-> IF c \in S THEN 0 ELSE keptShunt[c]]
        \/ \E c \in S : \E stage \in Stages(c) \cup {"rejected"} :
           /\ stage = "done" => c \in broken
           /\ Configured(c, stage, value)
           /\ keptShunt' = [d \in Channels |->
                                IF d \in S /\ (d < c \/ (d = c /\ stage # "rejected"))
                                THEN 0 ELSE keptShunt[d]]
           /\ UNCHANGED <<saved, keptSelection>>
    BY DEF Reconfigure
  <2>2. QED
    BY <2>1 DEF Confirmed, Unsaved, CutShort
<1>4. S \in SUBSET sensors /\ S # {} /\ S \in SUBSET Channels
  BY <1>2
<1>5. PICK value \in [S -> Shunts] :
        \/ Confirmed(S, value) \/ Unsaved(S, value)
        \/ \E c \in S : \E stage \in Stages(c) \cup {"rejected"} : CutShort(S, value, c, stage)
  BY <1>3
<1>6. CASE Confirmed(S, value)
  BY <1>1, <1>4, <1>6, SavedKeeps DEF Confirmed
<1>7. CASE Unsaved(S, value)
  <2>1. Highest(S) \in S
    BY <1>4, ChannelsAre
  <2>2. Configured(Highest(S), "done", value)
    BY <1>7 DEF Unsaved
  <2>3. Reached(S, value, Highest(S), "done")
    BY <1>2, <1>4, <2>1, <2>2, ConfiguredIs
  <2>4. /\ shunt' \in [Channels -> Shunts \cup {0}] /\ scale' \in [Channels -> Shunts \cup {0}]
        /\ chip' \in [Channels -> Shunts \cup {0}]
        /\ \A d \in Channels : d \notin S =>
               shunt'[d] = shunt[d] /\ scale'[d] = scale[d] /\ chip'[d] = chip[d]
    BY <2>3 DEF Reached
  <2>5. QED
    BY <1>1, <1>7, <2>4, LostKeeps DEF Unsaved
<1>8. ASSUME NEW c \in S, NEW stage \in Stages(c) \cup {"rejected"}, CutShort(S, value, c, stage)
      PROVE  InaInv'
  <2>1. stage \in {"config", "scale", "done", "rejected"}
    BY DEF Stages
  <2>2. QED
    BY <1>1, <1>4, <1>8, <2>1, CutShortKeeps
<1>9. QED
  BY <1>5, <1>6, <1>7, <1>8

\* What of the invariant a sample leaves alone.
LEMMA SampleAlone ==
    ASSUME InaInv, UNCHANGED <<sensors, selection, shunt, initial, saved, world, keptSelection,
                               keptShunt, fellBack>>
    PROVE  /\ SelectionTypes' /\ EnabledPresent' /\ SelectionConsistent'
           /\ FileTypes' /\ ShuntInFile' /\ SelectionInFile' /\ WorldTypes'
<1>1. UNCHANGED <<enabled, highspeed, active, broken, requests, boots, losses>>
  BY DEF selection, world
<1>2. SelectionTypes' /\ EnabledPresent' /\ SelectionConsistent'
  BY <1>1 DEF InaInv, SelectionTypes, EnabledPresent, SelectionConsistent
<1>3. FileTypes' /\ ShuntInFile' /\ SelectionInFile' /\ WorldTypes'
  BY <1>1 DEF InaInv, FileTypes, ShuntInFile, SelectionInFile, WorldTypes
<1>4. QED
  BY <1>2, <1>3

\* The channels of an iteration.
LEMMA CurrentIs ==
    ASSUME highspeed \in Lists, initial \in Lists
    PROVE  /\ Current \in Lists
           /\ Members(Current) \subseteq sensors \cap Members(enabled)
  BY AmongIs DEF Current

\* The position stays within the list.
LEMMA AdvanceIs ==
    ASSUME NEW n \in Nat, n > 0, NEW k \in 1 .. n
    PROVE  (k % n) + 1 \in 1 .. n
<1>1. k % n \in 0 .. n - 1
  OBVIOUS
<1>2. QED
  BY <1>1

\* A sample: the position moves, and a cleared chip may be configured again.
LEMMA SampleKeeps == ASSUME InaInv, Sample PROVE InaInv'
<1>1. /\ SelectionTypes' /\ EnabledPresent' /\ SelectionConsistent'
      /\ FileTypes' /\ ShuntInFile' /\ SelectionInFile' /\ WorldTypes'
  BY SampleAlone DEF Sample
<1>2. /\ UNCHANGED <<sensors, shunt, initial, keptShunt>> /\ CalibrationTypes /\ ThreadTypes
      /\ ConfirmedInUse /\ sensors \subseteq Channels
  BY DEF Sample, InaInv, SelectionTypes
<1>3. Current \in Lists /\ Current # <<>>
  <2>1. highspeed \in Lists /\ initial \in Lists
    BY DEF InaInv, SelectionTypes, ThreadTypes
  <2>2. QED
    BY <2>1, CurrentIs DEF Sample
<1>4. Current \in Seq(Channels) /\ Len(Current) <= Len(CliChannels) /\ Len(CliChannels) \in Nat
  BY <1>3, ListsAre, InaAssumption DEF InaAssumption
<1>5. Len(Current) \in Nat /\ Len(Current) > 0 /\ DOMAIN Current = 1 .. Len(Current)
  BY <1>3, <1>4
<1> DEFINE k == IF index > Len(Current) THEN 1 ELSE index
           c == Current[k]
<1>6. k \in 1 .. Len(Current)
  BY <1>2, <1>4, <1>5 DEF ThreadTypes
<1>7. c \in Channels
  BY <1>4, <1>6
<1>8. /\ index' = Advance(k, Current) /\ last' = c
      /\ count' = [count EXCEPT ![c] = IF @ = CheckEvery THEN 1 ELSE @ + 1]
      /\ \/ UNCHANGED <<scale, chip>>
         \/ /\ scale' = [scale EXCEPT ![c] = shunt[c]]
            /\ chip' = [chip EXCEPT ![c] = shunt[c]] \/ chip' = chip
  BY DEF Sample
<1> HIDE DEF k, c
<1>9. index' \in 1 .. Len(CliChannels)
  <2>1. index' \in 1 .. Len(Current)
    BY <1>5, <1>6, <1>8, AdvanceIs DEF Advance
  <2>2. QED
    BY <1>4, <1>5, <2>1
<1>10. count' \in [Channels -> 0 .. CheckEvery]
  <2>1. count \in [Channels -> 0 .. CheckEvery] /\ CheckEvery \in Nat /\ CheckEvery >= 1
    BY <1>2, InaAssumption DEF InaAssumption, ThreadTypes
  <2>2. (IF count[c] = CheckEvery THEN 1 ELSE count[c] + 1) \in 0 .. CheckEvery
    BY <1>7, <2>1
  <2>3. QED
    BY <1>7, <1>8, <2>1, <2>2
<1>11. ThreadTypes'
  BY <1>2, <1>7, <1>8, <1>9, <1>10 DEF ThreadTypes
<1>12. CalibrationTypes'
  BY <1>2, <1>7, <1>8 DEF CalibrationTypes
<1>13. ASSUME NEW d \in sensors, keptShunt[d] # 0
       PROVE  shunt'[d] = keptShunt[d] /\ scale'[d] = shunt'[d] /\ chip'[d] \in {0, shunt'[d]}
  <2>1. shunt[d] = keptShunt[d] /\ scale[d] = shunt[d] /\ chip[d] \in {0, shunt[d]}
    BY <1>2, <1>13 DEF ConfirmedInUse
  <2>2. scale'[d] \in {scale[d], shunt[d]} /\ chip'[d] \in {chip[d], shunt[d]}
    BY <1>2, <1>7, <1>8 DEF CalibrationTypes
  <2>3. QED
    BY <1>2, <2>1, <2>2
<1>14. ConfirmedInUse'
  BY <1>2, <1>13 DEF ConfirmedInUse
<1>15. QED
  BY <1>1, <1>11, <1>12, <1>14 DEF InaInv

\* A thread without channels, a chip that comes, goes or loses its calibration, and
\* nothing at all.
LEMMA OthersKeep ==
    ASSUME InaInv, Idle \/ (\E c \in Channels : Break(c) \/ LoseCalibration(c)) \/ UNCHANGED vars
    PROVE  InaInv'
<1>1. CASE Idle
  <2>1. /\ UNCHANGED <<sensors, selection, shunt, initial, saved, world, keptSelection,
                       keptShunt, fellBack, scale, chip, index, count>>
        /\ last' = 0
    BY <1>1 DEF Idle, calibration
  <2>2. CalibrationTypes' /\ ConfirmedInUse' /\ ThreadTypes'
    BY <2>1 DEF InaInv, CalibrationTypes, ConfirmedInUse, ThreadTypes
  <2>3. QED
    BY <2>1, <2>2, SampleAlone DEF InaInv
<1>2. ASSUME NEW c \in Channels, Break(c) PROVE InaInv'
  <2>1. /\ UNCHANGED <<sensors, enabled, highspeed, active, shunt, scale, chip, initial, index,
                       last, count, saved, requests, boots, losses, keptSelection, keptShunt,
                       fellBack>>
        /\ broken' = IF c \in broken THEN broken \ {c} ELSE broken \cup {c}
    BY <1>2 DEF Break, selection, calibration, thread
  <2>2. SelectionTypes' /\ EnabledPresent' /\ SelectionConsistent'
    BY <2>1 DEF InaInv, SelectionTypes, EnabledPresent, SelectionConsistent
  <2>3. CalibrationTypes' /\ ConfirmedInUse' /\ ThreadTypes'
    BY <2>1 DEF InaInv, CalibrationTypes, ConfirmedInUse, ThreadTypes
  <2>4. FileTypes' /\ ShuntInFile' /\ SelectionInFile' /\ WorldTypes'
    BY <2>1 DEF InaInv, FileTypes, ShuntInFile, SelectionInFile, WorldTypes
  <2>5. QED
    BY <2>2, <2>3, <2>4 DEF InaInv
<1>3. ASSUME NEW c \in Channels, LoseCalibration(c) PROVE InaInv'
  <2>1. /\ UNCHANGED <<sensors, enabled, highspeed, active, shunt, scale, initial, index,
                       last, count, saved, broken, requests, boots, keptSelection, keptShunt,
                       fellBack>>
        /\ losses < MaxLosses /\ losses' = losses + 1
        /\ chip' = [chip EXCEPT ![c] = 0]
    BY <1>3 DEF LoseCalibration, selection, thread
  <2>2. SelectionTypes' /\ EnabledPresent' /\ SelectionConsistent'
    BY <2>1 DEF InaInv, SelectionTypes, EnabledPresent, SelectionConsistent
  <2>3. CalibrationTypes' /\ ThreadTypes'
    BY <2>1 DEF InaInv, CalibrationTypes, ThreadTypes
  <2>4. \A d \in Channels : chip'[d] \in {0, chip[d]}
    BY <2>1 DEF InaInv, CalibrationTypes
  <2>5. ConfirmedInUse'
    BY <2>1, <2>4 DEF InaInv, ConfirmedInUse, SelectionTypes
  <2>6. losses' \in 0 .. MaxLosses
    BY <2>1, InaAssumption DEF InaAssumption, InaInv, WorldTypes
  <2>7. FileTypes' /\ ShuntInFile' /\ SelectionInFile' /\ WorldTypes'
    BY <2>1, <2>6 DEF InaInv, FileTypes, ShuntInFile, SelectionInFile, WorldTypes
  <2>8. QED
    BY <2>2, <2>3, <2>5, <2>7 DEF InaInv
<1>4. CASE UNCHANGED vars
  <2>1. UNCHANGED <<sensors, selection, shunt, initial, saved, world, keptSelection,
                    keptShunt, fellBack, scale, chip, index, count, last>>
    BY <1>4 DEF vars, calibration, thread
  <2>2. CalibrationTypes' /\ ConfirmedInUse' /\ ThreadTypes'
    BY <2>1 DEF InaInv, CalibrationTypes, ConfirmedInUse, ThreadTypes
  <2>3. QED
    BY <2>1, <2>2, SampleAlone DEF InaInv
<1>5. QED
  BY <1>1, <1>2, <1>3, <1>4

\* Every step keeps the invariant.
LEMMA StepOK == InaInv /\ [Next]_vars => InaInv'
  BY BootKeeps, HighspeedKeeps, EnabledKeeps, ReconfigureKeeps, SampleKeeps, OthersKeep DEF Next

\* The invariant holds in every state.
LEMMA InvHolds == Spec => []InaInv
  BY InitOK, StepOK, PTL DEF Spec

-----------------------------------------------------------------------------
(* The theorems.                                                           *)

\* The types, and a consistent selection after every request and every boot that did
\* not fall back on a channel that is not enabled.
THEOREM SelectionHolds == Spec => []Consistent
<1>1. InaInv => Consistent
  BY DEF InaInv, Consistent, TypeOK, SelectionTypes, CalibrationTypes, ThreadTypes, FileTypes, WorldTypes
<1>2. QED
  BY <1>1, InvHolds, PTL

\* A confirmed calibration is the one that samples are converted with, or the chip
\* has lost it and reads 0.
THEOREM CalibrationInUse == Spec => []ConfirmedInUse
<1>1. InaInv => ConfirmedInUse
  BY DEF InaInv
<1>2. QED
  BY <1>1, InvHolds, PTL

\* A boot takes over what has been confirmed: of the selection when every chip
\* answers, and of the calibration of each chip that does.
LEMMA BootRestores ==
    ASSUME InaInv, Boot
    PROVE  /\ keptSelection # <<>> /\ sensors' = Channels =>
                <<enabled', highspeed'>> = keptSelection
           /\ \A c \in sensors' : keptShunt[c] # 0 => shunt'[c] = keptShunt[c]
<1>1. PICK S \in SUBSET Channels : Start(S)
  BY DEF Boot, Detected
<1>2. sensors' = S
  BY <1>1 DEF Start
<1>3. \A c \in sensors' : keptShunt[c] # 0 => shunt'[c] = keptShunt[c]
  <2>1. \A c \in Channels : keptShunt[c] # 0 => BootShunt(c) = keptShunt[c]
    BY DEF InaInv, ShuntInFile, BootShunt
  <2>2. \A c \in S : shunt'[c] = BootShunt(c)
    BY <1>1 DEF Start
  <2>3. QED
    BY <1>2, <2>1, <2>2
<1>4. ASSUME keptSelection # <<>>, S = Channels PROVE <<enabled', highspeed'>> = keptSelection
  <2>1. /\ saved.present /\ keptSelection = <<saved.enabled, saved.highspeed>>
        /\ Members(saved.highspeed) \subseteq Members(saved.enabled)
        /\ saved.enabled # <<>> => saved.highspeed # <<>>
        /\ saved.enabled \in Lists /\ saved.highspeed \in Lists
    BY <1>4 DEF InaInv, SelectionInFile, FileTypes
  <2>2. Members(saved.enabled) \subseteq Channels /\ Members(saved.highspeed) \subseteq Channels
    BY <2>1, FirstOf
  <2>3. enabled' = saved.enabled
    BY <1>1, <1>4, <2>1, <2>2, AmongIs DEF Start, WantedEnabled
  <2>4. highspeed' = BootHighspeed(Channels, saved.enabled)
    BY <1>1, <1>4, <2>3 DEF Start
  <2>5. CASE saved.highspeed # <<>>
    <3>1. Among(WantedHighspeed, Channels \cap Members(saved.enabled)) = saved.highspeed
      BY <2>1, <2>2, <2>5, AmongIs DEF WantedHighspeed
    <3>2. BootHighspeed(Channels, saved.enabled) = saved.highspeed
      BY <2>5, <3>1 DEF BootHighspeed
    <3>3. QED
      BY <2>1, <2>3, <2>4, <3>2
  <2>6. CASE saved.highspeed = <<>>
    <3>1. saved.enabled = <<>>
      BY <2>1, <2>6
    <3>2. Members(saved.enabled) = {}
      BY <3>1, ShortLists
    <3>3. WantedHighspeed \in Lists
      BY <2>1, InaAssumption DEF InaAssumption, WantedHighspeed
    <3> DEFINE wanted == Among(WantedHighspeed, Channels \cap Members(saved.enabled))
    <3>4. wanted \in Lists /\ Members(wanted) = {}
      BY <3>2, <3>3, AmongIs
    <3>5. wanted = <<>>
      BY <3>4, FirstOf
    <3>6. BootHighspeed(Channels, saved.enabled) = <<>>
      BY <3>1, <3>5 DEF BootHighspeed
    <3>7. QED
      BY <2>1, <2>3, <2>4, <2>6, <3>6
  <2>7. QED
    BY <2>5, <2>6
<1>5. QED
  BY <1>2, <1>3, <1>4

\* No other step counts a boot.
LEMMA OnlyBootCounts == ASSUME InaInv, [Next]_vars, boots' > boots PROVE Boot
<1>1. boots \in Int
  BY DEF InaInv, WorldTypes
<1>2. boots' # boots
  BY <1>1
<1>3. QED
  BY <1>2 DEF Next, SetHighspeed, SetEnabled, Reconfigure, Requested, Sample, Idle, Break,
              LoseCalibration, vars, world

\* What a request has confirmed is what a restart finds, for any number of failed
\* requests and of restarts with missing chips in between.
THEOREM RestoredAtBoot == Spec => RestoredByBoot
<1>1. InaInv /\ [Next]_vars =>
        [boots' > boots =>
            /\ keptSelection # <<>> /\ sensors' = Channels =>
                 <<enabled', highspeed'>> = keptSelection
            /\ \A c \in sensors' : keptShunt[c] # 0 => shunt'[c] = keptShunt[c]]_vars
  BY BootRestores, OnlyBootCounts
<1>2. QED
  BY <1>1, InvHolds, PTL DEF Spec, RestoredByBoot
=============================================================================
