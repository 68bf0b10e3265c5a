-------------------------- MODULE TxPreviewProofs --------------------------
(***************************************************************************)
(* What every preview adds up to, that signing accepts it, and that its    *)
(* selection spends as few coins as can pay, for all wallets, amounts and  *)
(* rates.                                                                  *)
(***************************************************************************)
EXTENDS TxPreview, SumTheorems, SequenceTheorems

----------------------------------------------------------------------------
(* Sizes and fees. *)

LEMMA VsizeType ==
    ASSUME NEW nIn \in Nat, NEW nOut \in {2, 3}
    PROVE  EstimateVsize(nIn, nOut) \in Nat
BY DEF EstimateVsize, VarIntSize

(* A change output costs 43 vbytes. *)
LEMMA VsizeOfChange ==
    ASSUME NEW nIn \in Nat
    PROVE  EstimateVsize(nIn, 3) = EstimateVsize(nIn, 2) + 43
BY DEF EstimateVsize, VarIntSize

(* The estimate is the size of the transaction serializeTx will write.     *)
LEMMA EstimateIsExact ==
    ASSUME NEW nIn \in Nat, NEW nOut \in {2, 3}
    PROVE  EstimateVsize(nIn, nOut) = VirtualSize(nIn, nOut)
<1>1. StrippedSize(nIn, nOut) = 8 + VarIntSize(nIn) + VarIntSize(nOut) + 41 * nIn + 43 * nOut
  BY DEF StrippedSize, VarInt, VarIntSize, InputSize, OutputSize
<1>2. StrippedSize(nIn, nOut) \in Nat
  BY <1>1 DEF VarIntSize
<1>3. SerializedSize(nIn, nOut) - StrippedSize(nIn, nOut) = 2 + 66 * nIn
  BY <1>2 DEF SerializedSize, WitnessSize
<1> QED BY <1>1, <1>3 DEF EstimateVsize, VirtualSize, CalcVsize

LEMMA RelayFeeType ==
    ASSUME NEW v \in Nat, NEW r \in Nat
    PROVE  RelayFee(v, r) \in Nat
<1>1. r * v \in Nat
  OBVIOUS
<1>2. (r * v + 999) \div 1000 \in Nat
  BY <1>1
<1> QED BY <1>2 DEF RelayFee

(* The larger transaction pays at least as much. *)
LEMMA RelayFeeMonotone ==
    ASSUME NEW v \in Nat, NEW w \in Nat, NEW r \in Nat
    PROVE  RelayFee(v, r) <= RelayFee(v + w, r)
<1>1. r * (v + w) = r * v + r * w /\ r * v \in Nat /\ r * w \in Nat
  OBVIOUS
<1>2. (r * v + 999) \div 1000 <= (r * (v + w) + 999) \div 1000
  <2>1. \A a, b \in Nat : (a + 999) \div 1000 <= (a + b + 999) \div 1000
    OBVIOUS
  <2> QED BY <1>1, <2>1
<1>3. (r * v + 999) \div 1000 \in Nat /\ (r * (v + w) + 999) \div 1000 \in Nat
  BY <1>1
<1> QED BY <1>2, <1>3 DEF RelayFee

LEMMA FeesOfSelection ==
    ASSUME NEW n \in Nat, NEW r \in Nat
    PROVE  /\ FeeWithChange(n, r) \in Nat /\ FeeNoChange(n, r) \in Nat
           /\ FeeNoChange(n, r) <= FeeWithChange(n, r)
<1> DEFINE v == EstimateVsize(n, 2)
<1>1. v \in Nat /\ EstimateVsize(n, 3) = v + 43
  BY VsizeType, VsizeOfChange
<1>2. FeeNoChange(n, r) = RelayFee(v, r) /\ FeeWithChange(n, r) = RelayFee(v + 43, r)
  BY <1>1 DEF FeeNoChange, FeeWithChange
<1> HIDE DEF v
<1>3. RelayFee(v, r) \in Nat /\ RelayFee(v + 43, r) \in Nat
  <2>1. v \in Nat /\ v + 43 \in Nat
    BY <1>1
  <2>2. RelayFee(v, r) \in Nat
    BY <2>1, RelayFeeType
  <2>3. RelayFee(v + 43, r) \in Nat
    BY <2>1, RelayFeeType
  <2> QED BY <2>2, <2>3
<1>4. RelayFee(v, r) <= RelayFee(v + 43, r)
  BY <1>1, RelayFeeMonotone
<1> QED BY <1>2, <1>3, <1>4

LEMMA ClampType ==
    ASSUME NEW r \in Nat
    PROVE  ClampRelayRate(r) \in MinRate..MaxRate
<1>1. MinRate \in Int /\ MaxRate \in Int /\ MinRate <= MaxRate
  BY DEF MinRate, MaxRate
<1>2. CASE r < MinRate
  BY <1>1, <1>2 DEF ClampRelayRate
<1>3. CASE ~(r < MinRate) /\ r > MaxRate
  BY <1>1, <1>3 DEF ClampRelayRate
<1>4. CASE ~(r < MinRate) /\ ~(r > MaxRate)
  BY <1>1, <1>4 DEF ClampRelayRate
<1> QED BY <1>2, <1>3, <1>4

(* What the arithmetic of a state needs of its types. *)
LEMMA StateNumbers ==
    ASSUME TypeOK
    PROVE  count \in Nat /\ total \in Nat /\ rate \in Nat /\ amount \in Nat /\ Target \in Nat
<1>1. /\ count \in Nat /\ total \in Nat /\ amount \in Nat
      /\ rate \in MinRate..MaxRate
  BY Zenon DEF TypeOK
<1> HIDE DEF TypeOK
<1>2. MinRate..MaxRate \subseteq Nat
  BY DEF MinRate, MaxRate
<1>3. FlatFee \in Nat
  BY DEF FlatFee
<1>4. \A m, n \in Nat : m + n \in Nat
  OBVIOUS
<1> QED BY <1>1, <1>2, <1>3, <1>4, Zenon DEF Target

(* What the draft of a sufficient selection adds up to. *)
LEMMA DraftAddsUp ==
    ASSUME TypeOK, Enough(count, total)
    PROVE  /\ Draft \in [change : Nat, minerFee : Nat]
           /\ Draft.minerFee >= RelayFee(VirtualSize(count, IF Draft.change = 0 THEN 2 ELSE 3), rate)
           /\ Draft.minerFee < FeeWithChange(count, rate) + Dust
           /\ total = amount + FlatFee + Draft.minerFee + Draft.change
<1> DEFINE fee == FeeWithChange(count, rate)
           least == FeeNoChange(count, rate)
<1>1. fee \in Nat /\ least \in Nat /\ least <= fee
  <2>1. count \in Nat /\ rate \in Nat
    BY StateNumbers
  <2> QED BY <2>1, FeesOfSelection
<1>2. total \in Nat /\ amount \in Nat /\ total >= amount + FlatFee + fee
  BY DEF TypeOK, Enough, Target
<1>3. Draft = IF total - (amount + FlatFee) - fee < Dust
              THEN [change |-> 0,
                    minerFee |-> IF total - (amount + FlatFee) < least THEN least
                                 ELSE total - (amount + FlatFee)]
              ELSE [change |-> total - (amount + FlatFee) - fee, minerFee |-> fee]
  BY DEF Draft, Target
<1>0. least = RelayFee(VirtualSize(count, 2), rate) /\ fee = RelayFee(VirtualSize(count, 3), rate)
  <2>1. count \in Nat
    BY DEF TypeOK
  <2> QED BY <2>1, EstimateIsExact DEF FeeNoChange, FeeWithChange
<1> HIDE DEF fee, least
<1>4. CASE total - (amount + FlatFee) - fee < Dust
  <2>1. Draft = [change |-> 0, minerFee |-> total - (amount + FlatFee)]
    BY <1>1, <1>2, <1>3, <1>4 DEF FlatFee, Dust
  <2>2. /\ Draft.change = 0 /\ Draft.minerFee = total - (amount + FlatFee)
        /\ Draft.minerFee \in Nat /\ Draft.minerFee >= least /\ Draft.minerFee < fee + Dust
        /\ total = amount + FlatFee + Draft.minerFee + Draft.change
    BY <1>1, <1>2, <1>4, <2>1 DEF FlatFee, Dust
  <2> QED BY <1>0, <2>1, <2>2 DEF fee
<1>5. CASE ~(total - (amount + FlatFee) - fee < Dust)
  <2>1. Draft = [change |-> total - (amount + FlatFee) - fee, minerFee |-> fee]
    BY <1>3, <1>5
  <2>2. /\ Draft.change = total - (amount + FlatFee) - fee /\ Draft.change # 0
        /\ Draft.change \in Nat /\ Draft.minerFee = fee
        /\ total = amount + FlatFee + Draft.minerFee + Draft.change
    BY <1>1, <1>2, <1>5, <2>1 DEF FlatFee, Dust
  <2>3. Draft.minerFee < fee + Dust
    BY <1>1, <2>2 DEF Dust
  <2> QED BY <1>0, <1>1, <2>1, <2>2, <2>3 DEF fee
<1> QED BY <1>4, <1>5

(* A relay fee pays for every vbyte at the rate. *)
LEMMA RelayFeePays ==
    ASSUME NEW v \in Nat, NEW r \in Nat
    PROVE  RelayFee(v, r) >= r /\ 1000 * RelayFee(v, r) >= r * v
<1> DEFINE x == r * v
           raw == (x + 999) \div 1000
<1>1. x \in Nat
  OBVIOUS
<1>2. RelayFee(v, r) = IF raw < r THEN r ELSE raw
  BY DEF RelayFee
<1> HIDE DEF x
<1>3. raw \in Nat /\ 1000 * raw >= x
  BY <1>1
<1> QED BY <1>2, <1>3 DEF x

(* wallet-core's fee is at most a Grain short of its estimate at the rate. *)
LEMMA CoreFeePays ==
    ASSUME NEW size \in Nat, NEW r \in Nat
    PROVE  /\ FeeForSerializeSize(r, size) \in Nat
           /\ 1000 * (FeeForSerializeSize(r, size) + 1) > r * size
           /\ \A fee \in Nat : fee >= r /\ 1000 * fee >= r * size =>
                 FeeForSerializeSize(r, size) <= fee
<1> DEFINE x == r * size
           raw == x \div 1000
<1>1. x \in Nat
  OBVIOUS
<1>2. FeeForSerializeSize(r, size) = IF raw = 0 THEN r ELSE raw
  BY DEF FeeForSerializeSize
<1> HIDE DEF x
<1>3. /\ raw \in Nat /\ 1000 * (raw + 1) > x
      /\ \A fee \in Nat : 1000 * fee >= x => raw <= fee
  BY <1>1
<1> QED BY <1>2, <1>3 DEF x

(* Without a change output wallet-core's estimate is below the preview's   *)
(* with one; with the same outputs it is never below the real size.        *)
LEMMA CoreSizes ==
    ASSUME NEW n \in 1..160
    PROVE  /\ EstimateVirtualSize(n, 2) \in Nat /\ EstimateVirtualSize(n, 3) \in Nat
           /\ VirtualSize(n, 2) \in Nat /\ VirtualSize(n, 3) \in Nat
           /\ EstimateVirtualSize(n, 2) <= VirtualSize(n, 3)
           /\ VirtualSize(n, 3) <= EstimateVirtualSize(n, 3)
           /\ VirtualSize(n, 2) <= VirtualSize(n, 3)
<1>1. VarIntSerializeSize(n) = 1 /\ VarIntSize(n) = 1
  BY DEF VarIntSerializeSize, VarIntSize
<1>2. \A m \in {2, 3} : VarIntSerializeSize(m) = 1 /\ VarIntSize(m) = 1
  BY DEF VarIntSerializeSize, VarIntSize
<1>3. \A m \in {2, 3} : EstimateVirtualSize(n, m) = 10 + 41 * n + 43 * m + (67 * n + 6) \div 4
  BY <1>1, <1>2 DEF EstimateVirtualSize, CalcVsize
<1>4. \A m \in {2, 3} : VirtualSize(n, m) = 10 + 41 * n + 43 * m + (66 * n + 5) \div 4
  <2>1. \A m \in {2, 3} : EstimateVsize(n, m) = 10 + 41 * n + 43 * m + (66 * n + 5) \div 4
    BY <1>1, <1>2 DEF EstimateVsize
  <2> QED BY <2>1, EstimateIsExact
<1> QED BY <1>3, <1>4

AgreesOn(n, sum, required, r) ==
    LET result == SelectionResult(n, sum, required, 2, r)
        size   == VirtualSize(n, IF result.change = 0 THEN 2 ELSE 3)
    IN  /\ Funds(n, sum, required, 2, r)
        /\ result.networkFee + result.change = sum - required
        /\ 1000 * (result.networkFee + 1) > r * size

(* What pays the preview's fee pays wallet-core's, and leaves enough. *)
LEMMA SelectionOfEnough ==
    ASSUME NEW n \in 1..160, NEW r \in Nat, NEW sum \in Nat, NEW required \in Nat,
           sum >= required + FeeWithChange(n, r)
    PROVE  AgreesOn(n, sum, required, r)
<1> DEFINE pays == FeeWithChange(n, r)
           with == EstimateNetworkFee(n, 2, TRUE, r)
           without == EstimateNetworkFee(n, 2, FALSE, r)
           v2 == VirtualSize(n, 2)
           v3 == VirtualSize(n, 3)
<1>1. v2 \in Nat /\ v3 \in Nat /\ v2 <= v3
  BY CoreSizes
<1>2. pays \in Nat /\ pays >= r /\ 1000 * pays >= r * v3
  <2>1. pays = RelayFee(v3, r)
    BY EstimateIsExact DEF FeeWithChange
  <2> HIDE DEF v3
  <2>2. RelayFee(v3, r) \in Nat /\ RelayFee(v3, r) >= r /\ 1000 * RelayFee(v3, r) >= r * v3
    BY <1>1, RelayFeeType, RelayFeePays
  <2> QED BY <2>1, <2>2
<1>3. without \in Nat /\ without <= pays
  <2> DEFINE w == EstimateVirtualSize(n, 2)
  <2>1. without = FeeForSerializeSize(r, w) /\ w \in Nat /\ w <= v3
    BY CoreSizes DEF EstimateNetworkFee
  <2> HIDE DEF w, without, pays, v3
  <2>2. r * w <= r * v3
    BY <1>1, <2>1
  <2>3. r * w \in Nat /\ r * v3 \in Nat
    BY <1>1, <2>1
  <2>4. 1000 * pays >= r * w
    BY <1>2, <2>2, <2>3
  <2> QED BY <1>2, <2>1, <2>4, CoreFeePays
<1>4. with \in Nat /\ 1000 * (with + 1) > r * v3
  <2> DEFINE w == EstimateVirtualSize(n, 3)
  <2>1. with = FeeForSerializeSize(r, w) /\ w \in Nat /\ v3 <= w
    BY CoreSizes DEF EstimateNetworkFee
  <2> HIDE DEF w, with, v3
  <2>2. r * v3 <= r * w /\ r * w \in Nat /\ r * v3 \in Nat
    BY <1>1, <2>1
  <2>3. with \in Nat /\ 1000 * (with + 1) > r * w
    BY <2>1, CoreFeePays
  <2> QED BY <2>2, <2>3
<1>5. Funds(n, sum, required, 2, r)
  <2>1. sum >= required + pays
    OBVIOUS
  <2> HIDE DEF pays
  <2>2. sum >= required + without
    <3> HIDE DEF without
    <3> QED BY <1>2, <1>3, <2>1
  <2>3. \E change \in BOOLEAN : sum >= required + EstimateNetworkFee(n, 2, change, r)
    <3> WITNESS FALSE \in BOOLEAN
    <3> QED BY <2>2
  <2> QED BY <2>3 DEF Funds
<1>6. r * v2 <= r * v3 /\ r * v2 \in Nat /\ r * v3 \in Nat
  BY <1>1
<1>7. SelectionResult(n, sum, required, 2, r) =
        IF sum - required - with >= Dust
        THEN [networkFee |-> with, change |-> sum - required - with]
        ELSE [networkFee |-> sum - required, change |-> 0]
  BY DEF SelectionResult
<1> HIDE DEF pays, with, without, v2, v3
<1>8. CASE sum - required - with >= Dust
  <2>1. sum - required - with # 0
    BY <1>4, <1>8 DEF Dust
  <2> QED BY <1>4, <1>5, <1>7, <1>8, <2>1 DEF AgreesOn, v3
<1>9. CASE ~(sum - required - with >= Dust)
  <2>1. sum - required >= pays
    BY <1>2 DEF pays
  <2>2. 1000 * (sum - required + 1) > r * v2
    BY <1>2, <1>6, <2>1
  <2> QED BY <1>5, <1>7, <1>9, <2>2 DEF AgreesOn, v2
<1> QED BY <1>8, <1>9

----------------------------------------------------------------------------
(* Bags of coins. *)

CoinBags == [Values -> Nat]
Worths(bag) == [v \in Values |-> v * bag[v]]

(* Worth and Size are such sums. *)
LEMMA BagSums ==
    ASSUME NEW bag \in CoinBags
    PROVE  /\ Worths(bag) \in [Values -> Int] /\ bag \in [Values -> Int]
           /\ Worth(bag) = Sums(Worths(bag))[Values]
           /\ Size(bag) = Sums(bag)[Values]
           /\ Worth(bag) \in Int /\ Size(bag) \in Int
<1>1. DOMAIN bag = Values /\ IsFiniteSet(Values) /\ Values \subseteq Nat
  BY ConstantsAssumption DEF CoinBags
<1>2. Worths(bag) \in [Values -> Int] /\ bag \in [Values -> Int]
  BY <1>1 DEF Worths, CoinBags
<1>3. Worth(bag) = Sums(Worths(bag))[Values]
  <2> DEFINE sums == CHOOSE g : g = [s \in SUBSET Values |->
                        IF s = {} THEN 0 ELSE Pick(s) * bag[Pick(s)] + g[s \ {Pick(s)}]]
             over == CHOOSE g : g = [s \in SUBSET Values |->
                        IF s = {} THEN 0 ELSE Worths(bag)[Pick(s)] + g[s \ {Pick(s)}]]
  <2>1. Worth(bag) = sums[Values]
    BY <1>1, Zenon DEF Worth, MapThenSumSet, MapThenFoldSet, Pick
  <2>2. Sums(Worths(bag)) = over
    BY <1>2, Zenon DEF Sums
  <2>3. \A s \in SUBSET Values : s # {} => Worths(bag)[Pick(s)] = Pick(s) * bag[Pick(s)]
    BY PickIn, Zenon DEF Worths
  <2>4. sums = over
    BY <2>3
  <2> QED BY <2>1, <2>2, <2>4, Zenon
<1>4. Size(bag) = Sums(bag)[Values]
  BY <1>1 DEF Size, MapThenSumSet, MapThenFoldSet, Sums, Pick
<1>5. SumLaw(Worths(bag), Values) /\ SumLaw(bag, Values)
  BY <1>1, <1>2, SumsIs
<1> QED BY <1>2, <1>3, <1>4, <1>5 DEF SumLaw

(* One more coin of value v. *)
LEMMA BagGrows ==
    ASSUME NEW bag \in CoinBags, NEW v \in Values
    PROVE  LET more == [bag EXCEPT ![v] = @ + 1]
           IN  more \in CoinBags /\ Worth(more) = Worth(bag) + v /\ Size(more) = Size(bag) + 1
<1> DEFINE more == [bag EXCEPT ![v] = @ + 1]
<1>1. IsFiniteSet(Values) /\ v \in Int
  BY ConstantsAssumption
<1>2. more \in CoinBags
  BY DEF CoinBags
<1>3. Worths(more) = [Worths(bag) EXCEPT ![v] = @ + v]
  <2>1. /\ v \in Int /\ v * bag[v] \in Int
        /\ v * (bag[v] + 1) = v * bag[v] + v
    BY <1>1 DEF CoinBags
  <2> QED BY <2>1 DEF Worths, CoinBags
<1>0. Worths(bag) \in [Values -> Int] /\ bag \in [Values -> Int]
  BY BagSums
<1>4. Sums([Worths(bag) EXCEPT ![v] = @ + v])[Values] = Sums(Worths(bag))[Values] + v
  BY <1>0, <1>1, SumOfChanged
<1>5. Sums(more)[Values] = Sums(bag)[Values] + 1
  <2>1. 1 \in Int /\ bag \in [Values -> Int]
    BY <1>0
  <2> QED BY <1>1, <2>1, SumOfChanged
<1> HIDE DEF more
<1>6. Worth(more) = Sums(Worths(more))[Values] /\ Size(more) = Sums(more)[Values]
  BY <1>2, BagSums
<1>7. Worth(bag) = Sums(Worths(bag))[Values] /\ Size(bag) = Sums(bag)[Values]
  BY BagSums
<1> QED BY <1>2, <1>3, <1>4, <1>5, <1>6, <1>7 DEF more

LEMMA SmallerBag ==
    ASSUME NEW b \in CoinBags, NEW u \in CoinBags, \A v \in Values : b[v] <= u[v]
    PROVE  Size(b) <= Size(u)
<1>1. b \in [Values -> Int] /\ u \in [Values -> Int] /\ IsFiniteSet(Values)
  BY BagSums, ConstantsAssumption
<1>2. \A x \in Values : u[x] - b[x] >= 0 * (b[x] - b[x])
  BY <1>1 DEF CoinBags
<1>3. Sums(u)[Values] - Sums(b)[Values] >= 0 * (Sums(b)[Values] - Sums(b)[Values])
  BY <1>1, <1>2, SumsCompare
<1>4. /\ Size(b) = Sums(b)[Values] /\ Size(u) = Sums(u)[Values]
      /\ Size(b) \in Int /\ Size(u) \in Int
  BY BagSums
<1> QED BY <1>3, <1>4

LEMMA NoCoins ==
    ASSUME NEW bag \in CoinBags, \A v \in Values : bag[v] = 0
    PROVE  Worth(bag) = 0 /\ Size(bag) = 0
<1>1. IsFiniteSet(Values) /\ Values \subseteq Nat
  BY ConstantsAssumption
<1>3. \A v \in Values : Worths(bag)[v] = 0
  BY <1>1 DEF Worths
<1>4. Worths(bag) \in [Values -> Int] /\ bag \in [Values -> Int]
  BY BagSums
<1>5. Sums(Worths(bag))[Values] = 0
  BY <1>1, <1>3, <1>4, SumOfZeros
<1>6. Sums(bag)[Values] = 0
  BY <1>1, <1>4, SumOfZeros
<1>7. Worth(bag) = Sums(Worths(bag))[Values] /\ Size(bag) = Sums(bag)[Values]
  BY BagSums
<1> QED BY <1>5, <1>6, <1>7

(* Taking the largest first leaves no bag of as many coins that is worth more. *)
LEMMA LargestDominate ==
    ASSUME NEW u \in CoinBags, NEW i \in CoinBags, NEW r \in CoinBags, NEW b \in CoinBags,
           \A v \in Values : i[v] + r[v] = u[v] /\ b[v] <= u[v],
           \A v, w \in Values : r[v] > 0 /\ i[w] > 0 => v <= w,
           \E w \in Values : i[w] > 0,
           Size(b) = Size(i)
    PROVE  Worth(b) <= Worth(i)
<1>1. IsFiniteSet(Values) /\ Values \subseteq Nat
  BY ConstantsAssumption
<1>2. PICK m \in {w \in Values : i[w] > 0} : \A w \in {x \in Values : i[x] > 0} : m <= w
  BY <1>1, LeastNat
<1>3. m \in Nat /\ i[m] > 0 /\ m \in Values
  BY <1>1, <1>2
<1>4. ASSUME NEW v \in Values
      PROVE  v * i[v] - v * b[v] >= m * (i[v] - b[v])
  <2>1. /\ v \in Int /\ m \in Int /\ i[v] \in Nat /\ b[v] \in Nat /\ r[v] \in Nat /\ u[v] \in Nat
        /\ i[v] + r[v] = u[v] /\ b[v] <= u[v]
    BY <1>1, <1>3 DEF CoinBags
  <2>2. \A x, y \in Int : x >= 0 /\ y >= 0 => x * y >= 0
    OBVIOUS
  <2>3. v * i[v] - v * b[v] - m * (i[v] - b[v]) = (v - m) * (i[v] - b[v])
    BY <2>1
  <2>4. (v - m) * (i[v] - b[v]) = (m - v) * (b[v] - i[v])
    BY <2>1
  <2>5. (v - m) * (i[v] - b[v]) >= 0
    <3>1. CASE v >= m
      <4>1. CASE v > m
        <5>1. r[v] = 0
          BY <1>3, <2>1, <4>1
        <5>2. v - m \in Int /\ i[v] - b[v] \in Int /\ v - m >= 0 /\ i[v] - b[v] >= 0
          BY <2>1, <3>1, <5>1
        <5> QED BY <2>2, <5>2
      <4>2. CASE v = m
        BY <2>1, <4>2
      <4> QED BY <2>1, <3>1, <4>1, <4>2
    <3>2. CASE v < m
      <4>1. i[v] = 0
        BY <1>2, <2>1, <3>2
      <4>2. m - v \in Int /\ b[v] - i[v] \in Int /\ m - v >= 0 /\ b[v] - i[v] >= 0
        BY <2>1, <3>2, <4>1
      <4> QED BY <2>2, <2>4, <4>2
    <3> QED BY <2>1, <3>1, <3>2
  <2>6. v * i[v] \in Int /\ v * b[v] \in Int /\ m * (i[v] - b[v]) \in Int
    BY <2>1
  <2> QED BY <2>3, <2>5, <2>6
<1>5. \A v \in Values : Worths(i)[v] - Worths(b)[v] >= m * (i[v] - b[v])
  BY <1>4 DEF Worths
<1>6. /\ Worths(i) \in [Values -> Int] /\ Worths(b) \in [Values -> Int]
      /\ i \in [Values -> Int] /\ b \in [Values -> Int]
  BY BagSums
<1>7. Sums(Worths(i))[Values] - Sums(Worths(b))[Values] >= m * (Sums(i)[Values] - Sums(b)[Values])
  <2>1. m \in Int
    BY <1>3
  <2> QED BY <1>1, <1>5, <1>6, <2>1, SumsCompare
<1>8. /\ Worth(i) = Sums(Worths(i))[Values] /\ Size(i) = Sums(i)[Values]
      /\ Worth(b) = Sums(Worths(b))[Values] /\ Size(b) = Sums(b)[Values]
      /\ Worth(i) \in Int /\ Size(i) \in Int /\ Worth(b) \in Int
  BY BagSums
<1>9. m * (Size(i) - Size(b)) = 0
  BY <1>3, <1>8
<1> QED BY <1>7, <1>8, <1>9

----------------------------------------------------------------------------
(* Short sequences, and the outputs of a transaction. *)

(* Sequences are told apart by their elements. *)
LEMMA ThisTuple ==
    ASSUME NEW a, NEW b, NEW c, NEW S, NEW s \in Seq(S)
    PROVE  /\ Len(s) = 0 => s = <<>>
           /\ Len(s) = 1 /\ s[1] = a => s = <<a>>
           /\ Len(s) = 2 /\ s[1] = a /\ s[2] = b => s = <<a, b>>
           /\ Len(s) = 3 /\ s[1] = a /\ s[2] = b /\ s[3] = c => s = <<a, b, c>>
<1>1. s = [i \in 1..Len(s) |-> s[i]]
  OBVIOUS
<1>2. 1..1 = {1} /\ 1..2 = {1, 2} /\ 1..3 = {1, 2, 3}
  OBVIOUS
<1>3. ASSUME Len(s) = 1, s[1] = a PROVE s = <<a>>
  <2>1. \A i \in 1..1 : s[i] = <<a>>[i]
    BY <1>3
  <2> QED BY <1>3, <2>1
<1>4. ASSUME Len(s) = 2, s[1] = a, s[2] = b PROVE s = <<a, b>>
  <2>1. \A i \in 1..2 : s[i] = <<a, b>>[i]
    BY <1>4
  <2> QED BY <1>4, <2>1
<1>5. ASSUME Len(s) = 3, s[1] = a, s[2] = b, s[3] = c PROVE s = <<a, b, c>>
  <2>1. \A i \in 1..3 : s[i] = <<a, b, c>>[i]
    BY <1>5
  <2> QED BY <1>5, <2>1
<1> QED BY <1>3, <1>4, <1>5

LEMMA Joined ==
    ASSUME NEW a, NEW b, NEW c
    PROVE  /\ <<a>> \o <<b>> = <<a, b>>
           /\ <<a, b>> \o <<c>> = <<a, b, c>>
           /\ <<a>> \o <<>> = <<a>>
           /\ <<a, b>> \o <<>> = <<a, b>>
<1> DEFINE S == {a, b, c}
<1>1. /\ <<a>> \in Seq(S) /\ <<b>> \in Seq(S) /\ <<c>> \in Seq(S)
      /\ <<a, b>> \in Seq(S) /\ <<>> \in Seq(S)
  OBVIOUS
<1>2. \A s, t \in Seq(S) :
         /\ s \o t \in Seq(S) /\ Len(s \o t) = Len(s) + Len(t)
         /\ \A i \in 1..Len(s) + Len(t) :
               (s \o t)[i] = IF i <= Len(s) THEN s[i] ELSE t[i - Len(s)]
  BY ConcatProperties
<1> HIDE DEF S
<1>3. <<a>> \o <<b>> = <<a, b>>
  <2> DEFINE s == <<a>> \o <<b>>
  <2>1. s \in Seq(S) /\ Len(s) = 2 /\ s[1] = a /\ s[2] = b
    BY <1>1, <1>2
  <2> HIDE DEF s
  <2>2. s = <<a, b>>
    BY <2>1, ThisTuple
  <2> QED BY <2>2 DEF s
<1>4. <<a, b>> \o <<c>> = <<a, b, c>>
  <2> DEFINE s == <<a, b>> \o <<c>>
  <2>1. s \in Seq(S) /\ Len(s) = 3 /\ s[1] = a /\ s[2] = b /\ s[3] = c
    BY <1>1, <1>2
  <2> HIDE DEF s
  <2>2. s = <<a, b, c>>
    BY <2>1, ThisTuple
  <2> QED BY <2>2 DEF s
<1> QED BY <1>1, <1>3, <1>4

LEMMA Cut ==
    ASSUME NEW a, NEW b
    PROVE  /\ SubSeq(<<a>>, 1, 1) = <<a>>
           /\ SubSeq(<<a>>, 2, 1) = <<>>
           /\ SubSeq(<<a, b>>, 1, 1) = <<a>>
           /\ SubSeq(<<a, b>>, 2, 2) = <<b>>
<1> DEFINE S == {a, b}
<1>1. <<a>> \in Seq(S) /\ <<b>> \in Seq(S) /\ <<a, b>> \in Seq(S)
  OBVIOUS
<1>2. \A s \in Seq(S) : \A i \in 1..Len(s) + 1, j \in 0..Len(s) :
         /\ SubSeq(s, i, j) \in Seq(S)
         /\ Len(SubSeq(s, i, j)) = (IF i <= j THEN j - i + 1 ELSE 0)
         /\ \A k \in 1..(j - i + 1) : SubSeq(s, i, j)[k] = s[i + k - 1]
  BY SubSeqProperties
<1> HIDE DEF S
<1>3. SubSeq(<<a>>, 1, 1) = <<a>>
  <2> DEFINE s == SubSeq(<<a>>, 1, 1)
  <2>1. s \in Seq(S) /\ Len(s) = 1 /\ s[1] = a
    BY <1>1, <1>2
  <2> HIDE DEF s
  <2>2. s = <<a>>
    BY <2>1, ThisTuple
  <2> QED BY <2>2 DEF s
<1>4. SubSeq(<<a, b>>, 1, 1) = <<a>>
  <2> DEFINE s == SubSeq(<<a, b>>, 1, 1)
  <2>1. s \in Seq(S) /\ Len(s) = 1 /\ s[1] = a
    BY <1>1, <1>2
  <2> HIDE DEF s
  <2>2. s = <<a>>
    BY <2>1, ThisTuple
  <2> QED BY <2>2 DEF s
<1>5. SubSeq(<<a, b>>, 2, 2) = <<b>>
  <2> DEFINE s == SubSeq(<<a, b>>, 2, 2)
  <2>1. s \in Seq(S) /\ Len(s) = 1 /\ s[1] = b
    BY <1>1, <1>2
  <2> HIDE DEF s
  <2>2. s = <<b>>
    BY <2>1, ThisTuple
  <2> QED BY <2>2 DEF s
<1>6. SubSeq(<<a>>, 2, 1) = <<>>
  <2> DEFINE s == SubSeq(<<a>>, 2, 1)
  <2>1. s \in Seq(S) /\ Len(s) = 0
    BY <1>1, <1>2
  <2> HIDE DEF s
  <2> QED BY <2>1 DEF s
<1> QED BY <1>3, <1>4, <1>5, <1>6

ValuesOf(outputs) == [i \in DOMAIN outputs |-> outputs[i].value]

(* TotalOutputValue is such a sum too. *)
LEMMA TotalIs ==
    ASSUME NEW outputs, NEW n \in Nat, DOMAIN outputs = 1..n, \A i \in 1..n : outputs[i].value \in Int
    PROVE  /\ ValuesOf(outputs) \in [1..n -> Int] /\ IsFiniteSet(1..n)
           /\ TotalOutputValue(outputs) = Sums(ValuesOf(outputs))[1..n]
<1>1. DOMAIN ValuesOf(outputs) = DOMAIN outputs
  BY DEF ValuesOf
<1>2. TotalOutputValue(outputs) = Sums(ValuesOf(outputs))[DOMAIN outputs]
  <2> DEFINE D == DOMAIN outputs
             sums == CHOOSE g : g = [s \in SUBSET D |->
                        IF s = {} THEN 0 ELSE outputs[Pick(s)].value + g[s \ {Pick(s)}]]
             over == CHOOSE g : g = [s \in SUBSET D |->
                        IF s = {} THEN 0 ELSE ValuesOf(outputs)[Pick(s)] + g[s \ {Pick(s)}]]
  <2>1. TotalOutputValue(outputs) = sums[D]
    BY Zenon DEF TotalOutputValue, MapThenSumSet, MapThenFoldSet, Pick
  <2>2. Sums(ValuesOf(outputs)) = over
    BY <1>1, Zenon DEF Sums
  <2>3. \A s \in SUBSET D : s # {} => ValuesOf(outputs)[Pick(s)] = outputs[Pick(s)].value
    BY PickIn, Zenon DEF ValuesOf
  <2>4. sums = over
    BY <2>3
  <2> QED BY <2>1, <2>2, <2>4, Zenon
<1>3. IsFiniteSet(1..n)
  <2>1. 1 \in Int /\ n \in Int
    OBVIOUS
  <2> QED BY <2>1, FS_Interval
<1> QED BY <1>2, <1>3 DEF ValuesOf

LEMMA TotalOfTwo ==
    ASSUME NEW a, NEW b, a.value \in Int, b.value \in Int
    PROVE  TotalOutputValue(<<a, b>>) = a.value + b.value
<1> DEFINE w == ValuesOf(<<a, b>>)
<1>1. /\ DOMAIN <<a, b>> = 1..2 /\ 1..2 = {1, 2} /\ \A i \in 1..2 : <<a, b>>[i].value \in Int
      /\ w[1] = a.value /\ w[2] = b.value
  BY DEF ValuesOf
<1>2. w \in [1..2 -> Int] /\ IsFiniteSet(1..2) /\ TotalOutputValue(<<a, b>>) = Sums(w)[1..2]
  BY <1>1, TotalIs
<1> HIDE DEF w
<1>3. SumLaw(w, 1..2)
  BY <1>2, SumsIs
<1>4. Sums(w)[{1, 2}] = w[2] + Sums(w)[{1}]
  <2>1. {1, 2} \in SUBSET (1..2) /\ 2 \in {1, 2} /\ {1, 2} \ {2} = {1}
    BY <1>1
  <2> QED BY <1>2, <2>1, SumTake
<1>5. Sums(w)[{1}] = w[1] + Sums(w)[{}]
  <2>1. {1} \in SUBSET (1..2) /\ {1} # {} /\ Pick({1}) = 1 /\ {1} \ {1} = {}
    BY <1>1, PickIn
  <2> QED BY <1>3, <2>1 DEF SumLaw
<1> QED BY <1>1, <1>2, <1>3, <1>4, <1>5 DEF SumLaw

LEMMA TotalOfThree ==
    ASSUME NEW a, NEW b, NEW c, a.value \in Int, b.value \in Int, c.value \in Int
    PROVE  TotalOutputValue(<<a, b, c>>) = a.value + b.value + c.value
<1> DEFINE w == ValuesOf(<<a, b, c>>)
<1>1. /\ DOMAIN <<a, b, c>> = 1..3 /\ 1..3 = {1, 2, 3} /\ \A i \in 1..3 : <<a, b, c>>[i].value \in Int
      /\ w[1] = a.value /\ w[2] = b.value /\ w[3] = c.value
  BY DEF ValuesOf
<1>2. w \in [1..3 -> Int] /\ IsFiniteSet(1..3) /\ TotalOutputValue(<<a, b, c>>) = Sums(w)[1..3]
  BY <1>1, TotalIs
<1> HIDE DEF w
<1>3. SumLaw(w, 1..3)
  BY <1>2, SumsIs
<1>4. Sums(w)[{1, 2, 3}] = w[3] + Sums(w)[{1, 2}]
  <2>1. {1, 2, 3} \in SUBSET (1..3) /\ 3 \in {1, 2, 3} /\ {1, 2, 3} \ {3} = {1, 2}
    BY <1>1
  <2> QED BY <1>2, <2>1, SumTake
<1>5. Sums(w)[{1, 2}] = w[2] + Sums(w)[{1}]
  <2>1. {1, 2} \in SUBSET (1..3) /\ 2 \in {1, 2} /\ {1, 2} \ {2} = {1}
    BY <1>1
  <2> QED BY <1>2, <2>1, SumTake
<1>6. Sums(w)[{1}] = w[1] + Sums(w)[{}]
  <2>1. {1} \in SUBSET (1..3) /\ {1} # {} /\ Pick({1}) = 1 /\ {1} \ {1} = {}
    BY <1>1, PickIn
  <2> QED BY <1>3, <2>1 DEF SumLaw
<1> QED BY <1>1, <1>2, <1>3, <1>4, <1>5, <1>6 DEF SumLaw

(* The transaction that is built has the outputs the draft declares. *)
LEMMA BuiltIsDeclared ==
    ASSUME NEW d, d.change \in Nat, d.change = 0 \/ d.change >= Dust, amount \in Nat
    PROVE  /\ Built(d) = Declared(d)
           /\ TotalOutputValue(Built(d)) = amount + FlatFee + d.change
<1> DEFINE to == Output("recipient", amount)
           fee == Output("necklace_fee", FlatFee)
           back == Output("change", d.change)
<1>1. /\ to.role # "change" /\ to.value = amount /\ fee.value = FlatFee
      /\ back.role = "change" /\ back.value = d.change /\ FlatFee \in Nat
  BY DEF Output, FlatFee
<1>2. [i \in DOMAIN <<amount>> |-> Output("recipient", <<amount>>[i])] = <<to>>
  OBVIOUS
<1> HIDE DEF to, fee, back
<1>3. CASE d.change = 0
  <2>1. BuildTransaction(<<amount>>, d.change) = <<to>>
    BY <1>2, <1>3, Joined DEF BuildTransaction, Dust
  <2>2. SelectInSeq(<<to>>, LAMBDA o : o.role = "change") = 0
    BY <1>1 DEF SelectInSeq
  <2>3. Built(d) = InsertAt(<<to>>, 2, fee)
    <3>1. Len(<<to>>) + 1 = 2
      OBVIOUS
    <3> QED BY <2>1, <2>2, <3>1 DEF Built, AddWalletFeeOutput, fee
  <2>4. InsertAt(<<to>>, 2, fee) = <<to, fee>>
    <3>1. InsertAt(<<to>>, 2, fee) = SubSeq(<<to>>, 1, 1) \o <<fee>> \o SubSeq(<<to>>, 2, 1)
      BY DEF InsertAt
    <3>2. SubSeq(<<to>>, 1, 1) = <<to>> /\ SubSeq(<<to>>, 2, 1) = <<>>
      BY Cut
    <3>3. <<to>> \o <<fee>> = <<to, fee>> /\ <<to, fee>> \o <<>> = <<to, fee>>
      BY Joined
    <3> QED BY <3>1, <3>2, <3>3
  <2>5. Declared(d) = <<to, fee>>
    BY <1>3, Joined DEF Declared, to, fee
  <2>6. TotalOutputValue(<<to, fee>>) = to.value + fee.value
    BY <1>1, TotalOfTwo
  <2> QED BY <1>1, <1>3, <2>3, <2>4, <2>5, <2>6
<1>4. CASE d.change >= Dust
  <2>1. BuildTransaction(<<amount>>, d.change) = <<to, back>>
    BY <1>2, <1>4, Joined DEF BuildTransaction, back
  <2>2. SelectInSeq(<<to, back>>, LAMBDA o : o.role = "change") = 2
    <3>1. {i \in 1..Len(<<to, back>>) : <<to, back>>[i].role = "change"} = {2}
      BY <1>1
    <3>2. Min({2}) = 2
      BY DEF Min
    <3> QED BY <3>1, <3>2 DEF SelectInSeq
  <2>3. Built(d) = InsertAt(<<to, back>>, 2, fee)
    BY <2>1, <2>2 DEF Built, AddWalletFeeOutput, fee
  <2>4. InsertAt(<<to, back>>, 2, fee) = <<to, fee, back>>
    <3>1. InsertAt(<<to, back>>, 2, fee)
            = SubSeq(<<to, back>>, 1, 1) \o <<fee>> \o SubSeq(<<to, back>>, 2, 2)
      BY DEF InsertAt
    <3> QED BY <3>1, Cut, Joined
  <2>5. Declared(d) = <<to, fee, back>>
    <3>1. d.change # 0
      BY <1>4 DEF Dust
    <3>2. Declared(d) = <<to, fee>> \o <<back>>
      BY <3>1 DEF Declared, to, fee, back
    <3> QED BY <3>2, Joined
  <2>6. TotalOutputValue(<<to, fee, back>>) = to.value + fee.value + back.value
    BY <1>1, TotalOfThree
  <2> QED BY <1>1, <2>3, <2>4, <2>5, <2>6
<1> QED BY <1>3, <1>4

----------------------------------------------------------------------------
(* What every step keeps of fee and draft. *)

Inv ==
    /\ TypeOK
    /\ pc = "select" => draft = Null
    /\ pc = "confirm" => count > 0 /\ Enough(count, total)
    /\ NetworkFeeIsBounded
    /\ DebitIsItemised

LEMMA InitInv == Init => Inv
<1> SUFFICES ASSUME Init PROVE Inv
  OBVIOUS
<1>1. rate \in MinRate..MaxRate
  BY ClampType, ConstantsAssumption DEF Init
<1> QED BY <1>1, ConstantsAssumption DEF Init, Inv, TypeOK, NetworkFeeIsBounded, DebitIsItemised

LEMMA NextInv ==
    ASSUME Inv, [Next]_vars
    PROVE  Inv'
<1>1. CASE Select
  <2>1. TypeOK'
    BY <1>1, ConstantsAssumption DEF Select, Inv, TypeOK
  <2> QED BY <1>1, <2>1 DEF Select, Inv, NetworkFeeIsBounded, DebitIsItemised
<1>2. CASE Preview
  <2>1. draft' = Draft /\ Enough(count, total)
    BY <1>2 DEF Preview
  <2>2. /\ draft' \in [change : Nat, minerFee : Nat]
        /\ draft'.minerFee >= RelayFee(VirtualSize(count, IF draft'.change = 0 THEN 2 ELSE 3), rate)
        /\ draft'.minerFee < FeeWithChange(count, rate) + Dust
        /\ total = amount + FlatFee + draft'.minerFee + draft'.change
    BY <2>1, DraftAddsUp DEF Inv
  <2>3. count' > 0 /\ Enough(count, total)'
    BY <1>2 DEF Preview, Enough, Target, FeeWithChange
  <2> QED BY <1>2, <2>2, <2>3 DEF Preview, Inv, TypeOK, NetworkFeeIsBounded, DebitIsItemised
<1>3. CASE Insufficient
  BY <1>3 DEF Insufficient, Inv, TypeOK, NetworkFeeIsBounded, DebitIsItemised
<1>4. CASE Sign
  BY <1>4 DEF Sign, Inv, TypeOK, NetworkFeeIsBounded, DebitIsItemised
<1>5. CASE UNCHANGED vars
  BY <1>5 DEF vars, Inv, TypeOK, Enough, Target, FeeWithChange, NetworkFeeIsBounded, DebitIsItemised
<1> QED BY <1>1, <1>2, <1>3, <1>4, <1>5 DEF Next

THEOREM InvHolds == Spec => []Inv
BY InitInv, NextInv, PTL DEF Spec

(* Every reachable state of a preview is well typed. *)
THEOREM TypeAlwaysOK == Spec => []TypeOK
<1>1. Inv => TypeOK
  BY DEF Inv
<1> QED BY <1>1, InvHolds, PTL

(* The network fee of a preview covers its size and stays within a dust    *)
(* output of it, whatever the wallet, the amount and the advisory rate.    *)
THEOREM FeeAlwaysBounded == Spec => []NetworkFeeIsBounded
<1>1. Inv => NetworkFeeIsBounded
  BY DEF Inv
<1> QED BY <1>1, InvHolds, PTL

(* The four lines of the confirm screen are exactly the selected inputs.   *)
THEOREM DebitAlwaysItemised == Spec => []DebitIsItemised
<1>1. Inv => DebitIsItemised
  BY DEF Inv
<1> QED BY <1>1, InvHolds, PTL

(* For every wallet whose payment takes up to 160 coins, wallet-core's     *)
(* selection stops at the preview's coins or before, and what it leaves    *)
(* the network pays for the transaction's bytes.                           *)
THEOREM SelectionsAlwaysAgree == Spec => []SelectionsAgree
<1>1. Inv => SelectionsAgree
  <2> SUFFICES ASSUME Inv, pc = "confirm", count <= 160
               PROVE  SelectionsAgree
    BY DEF SelectionsAgree
  <2>1. count \in Nat /\ rate \in Nat /\ total \in Nat /\ Target \in Nat
    BY StateNumbers DEF Inv
  <2>2. count \in 1..160
    BY <2>1 DEF Inv
  <2>3. total >= Target + FeeWithChange(count, rate)
    BY DEF Inv, Enough
  <2>4. AgreesOn(count, total, Target, rate)
    BY <2>1, <2>2, <2>3, SelectionOfEnough
  <2> QED BY <2>4 DEF AgreesOn, SelectionsAgree
<1> QED BY <1>1, InvHolds, PTL

----------------------------------------------------------------------------
(* What every step keeps of the selection. *)

(* The selected coins and the rest make up the wallet; no coin left is     *)
(* worth more than a selected one; and no fewer coins would have paid.     *)
Greedy ==
    /\ \A v \in Values : inputs[v] + rest[v] = utxos[v]
    /\ Worth(inputs) = total /\ Size(inputs) = count
    /\ \A v, w \in Values : rest[v] > 0 /\ inputs[w] > 0 => v <= w
    /\ \A b \in SubBags(utxos) : Size(b) \in 1..(count - 1) => ~Enough(Size(b), Worth(b))
    /\ pc = "insufficient" => ~Enough(count, total) /\ \A v \in Values : rest[v] = 0

(* What signDraftWithKey relies on in the draft. *)
Signable ==
    /\ amount >= Dust
    /\ draft # Null => draft.change = 0 \/ draft.change >= Dust
    /\ pc = "confirm" => draft # Null
    /\ PreviewIsSignable

LEMMA SubBagsAre ==
    ASSUME NEW bag \in CoinBags, NEW b \in SubBags(bag)
    PROVE  b \in CoinBags /\ \A v \in Values : b[v] <= bag[v]
<1>1. b \in [Values -> UNION {0..bag[v] : v \in Values}] /\ \A v \in Values : b[v] <= bag[v]
  BY DEF SubBags
<1>2. UNION {0..bag[v] : v \in Values} \subseteq Nat
  BY DEF CoinBags
<1> QED BY <1>1, <1>2 DEF CoinBags

(* What the coins selected cannot pay, no as many coins of the wallet can. *)
LEMMA AsManyCoins ==
    ASSUME TypeOK, Greedy, ~Enough(count, total),
           NEW b \in SubBags(utxos), Size(b) = count, count > 0
    PROVE  ~Enough(Size(b), Worth(b))
<1>1. utxos \in CoinBags /\ inputs \in CoinBags /\ rest \in CoinBags
  BY DEF TypeOK, CoinBags
<1>2. b \in CoinBags /\ \A v \in Values : b[v] <= utxos[v]
  BY <1>1, SubBagsAre
<1>3. \E w \in Values : inputs[w] > 0
  <2> SUFFICES ASSUME \A w \in Values : ~(inputs[w] > 0)
               PROVE  FALSE
    OBVIOUS
  <2>1. \A w \in Values : inputs[w] = 0
    BY <1>1 DEF CoinBags
  <2>2. Size(inputs) = 0
    BY <1>1, <2>1, NoCoins
  <2> QED BY <2>2 DEF Greedy
<1>4. \A v \in Values : inputs[v] + rest[v] = utxos[v] /\ b[v] <= utxos[v]
  BY <1>2 DEF Greedy
<1>5. Worth(b) <= Worth(inputs)
  BY <1>1, <1>2, <1>3, <1>4, LargestDominate DEF Greedy
<1>6. Worth(b) \in Int /\ Worth(inputs) = total /\ total \in Int
  BY <1>2, BagSums DEF Greedy, TypeOK
<1>7. FeeWithChange(count, rate) \in Nat /\ Target \in Nat
  <2>1. count \in Nat /\ rate \in Nat /\ Target \in Nat
    BY StateNumbers
  <2> QED BY <2>1, FeesOfSelection
<1> QED BY <1>5, <1>6, <1>7 DEF Enough

(* Taking the largest of the rest: if the coins so far did not pay, no bag *)
(* of as many coins would have.                                            *)
LEMMA SelectGreedy ==
    ASSUME TypeOK, Greedy, Select
    PROVE  Greedy'
<1>1. /\ utxos \in CoinBags /\ inputs \in CoinBags /\ rest \in CoinBags
      /\ Values \subseteq Nat /\ count \in Nat
  BY ConstantsAssumption DEF TypeOK, CoinBags
<1>2. PICK v \in Values :
          /\ rest[v] > 0 /\ v = Largest(rest)
          /\ rest' = [rest EXCEPT ![v] = @ - 1]
          /\ inputs' = [inputs EXCEPT ![v] = @ + 1]
          /\ total' = total + v
  BY DEF Select
<1>3. pc = "select" /\ ~Enough(count, total) /\ count' = count + 1
      /\ UNCHANGED <<utxos, amount, rate, draft, pc>>
  BY DEF Select
<1>4. \A w \in Values : rest[w] > 0 => w <= v
  <2>1. \E x \in {w \in Values : rest[w] > 0} : \A w \in {y \in Values : rest[y] > 0} : w <= x
    BY <1>1, <1>2, ConstantsAssumption, GreatestOf
  <2>2. \E x \in {w \in Values : rest[w] > 0} : \A w \in Values : rest[w] > 0 => w <= x
    BY <2>1
  <2> QED BY <1>2, <2>2 DEF Largest
<1>5. \A w \in Values : inputs'[w] + rest'[w] = utxos'[w]
  BY <1>1, <1>2, <1>3 DEF Greedy, CoinBags
<1>6. Worth(inputs') = total' /\ Size(inputs') = count'
  BY <1>1, <1>2, <1>3, BagGrows DEF Greedy
<1>7. ASSUME NEW x \in Values, NEW w \in Values, rest'[x] > 0, inputs'[w] > 0
      PROVE  x <= w
  <2>1. rest[x] > 0
    BY <1>1, <1>2, <1>7 DEF CoinBags
  <2>2. CASE w = v
    BY <1>4, <2>1, <2>2
  <2>3. CASE w # v
    <3>1. inputs[w] > 0
      BY <1>1, <1>2, <1>7, <2>3 DEF CoinBags
    <3> QED BY <2>1, <3>1 DEF Greedy
  <2> QED BY <2>2, <2>3
<1>8. ASSUME NEW b \in SubBags(utxos), Size(b) \in 1..count
      PROVE  ~Enough(Size(b), Worth(b))
  <2>1. CASE Size(b) = count
    BY <1>3, <1>8, <2>1, AsManyCoins
  <2>2. CASE Size(b) # count
    <3>1. Size(b) \in 1..(count - 1)
      BY <1>1, <1>8, <2>2
    <3> QED BY <1>8, <3>1 DEF Greedy
  <2> QED BY <2>1, <2>2
<1>9. \A b \in SubBags(utxos)' : Size(b) \in 1..(count' - 1) => ~Enough(Size(b), Worth(b))'
  <2>0. utxos' = utxos /\ count' = count + 1
    BY <1>3
  <2>1. SubBags(utxos') = SubBags(utxos)
    BY <2>0
  <2>4. count' - 1 = count
    BY <1>1, <2>0
  <2>2. ASSUME NEW n, NEW sum PROVE Enough(n, sum)' <=> Enough(n, sum)
    BY <1>3 DEF Enough, Target
  <2>3. \A b \in SubBags(utxos') : Size(b) \in 1..(count' - 1) => ~Enough(Size(b), Worth(b))
    BY <1>8, <2>1, <2>4
  <2> QED BY <2>2, <2>3 DEF SubBags
<1>10. pc' # "insufficient"
  BY <1>3
<1> QED BY <1>5, <1>6, <1>7, <1>9, <1>10 DEF Greedy

SelectionInv == Inv /\ Greedy /\ Signable

LEMMA InitSelection == Init => SelectionInv
<1> SUFFICES ASSUME Init PROVE SelectionInv
  OBVIOUS
<1>1. Inv
  BY InitInv
<1>2. inputs \in CoinBags /\ \A v \in Values : inputs[v] = 0
  BY DEF Init, CoinBags
<1>3. Worth(inputs) = 0 /\ Size(inputs) = 0
  BY <1>2, NoCoins
<1>4. \A v \in Values : utxos[v] \in Nat /\ inputs[v] + rest[v] = utxos[v]
  BY <1>2, ConstantsAssumption DEF Init
<1>5. Greedy
  BY <1>2, <1>3, <1>4 DEF Init, Greedy
<1>6. Signable
  BY ConstantsAssumption DEF Init, Signable, PreviewIsSignable
<1> QED BY <1>1, <1>5, <1>6 DEF SelectionInv

LEMMA DraftKeepsNoDust ==
    ASSUME TypeOK
    PROVE  Draft.change = 0 \/ Draft.change >= Dust
<1>1. FeeWithChange(count, rate) \in Nat /\ Target \in Nat /\ total \in Nat
  <2>1. count \in Nat /\ rate \in Nat /\ Target \in Nat /\ total \in Nat
    BY StateNumbers
  <2> QED BY <2>1, FeesOfSelection
<1> QED BY <1>1 DEF Draft, Dust

(* Both assertions of the signer, and the checks of the builder. *)
LEMMA DraftIsSignable ==
    ASSUME Inv, Greedy, Signable, pc = "confirm"
    PROVE  /\ Buildable(count, <<amount>>, draft.change) /\ FlatFee >= Dust
           /\ OutputsMatch(draft) /\ FeeMatches(draft)
<1>1. /\ draft \in [change : Nat, minerFee : Nat] /\ count \in Nat /\ count > 0 /\ total \in Nat
      /\ amount \in Nat /\ amount >= Dust /\ (draft.change = 0 \/ draft.change >= Dust)
      /\ total = amount + FlatFee + draft.minerFee + draft.change /\ Worth(inputs) = total
  BY DEF Inv, TypeOK, DebitIsItemised, Greedy, Signable
<1>2. Buildable(count, <<amount>>, draft.change) /\ FlatFee >= Dust
  BY <1>1 DEF Buildable, FlatFee, Dust
<1>3. /\ Built(draft) = Declared(draft)
      /\ TotalOutputValue(Built(draft)) = amount + FlatFee + draft.change
  BY <1>1, BuiltIsDeclared
<1>4. OutputsMatch(draft)
  BY <1>3 DEF OutputsMatch
<1>5. FeeMatches(draft)
  BY <1>1, <1>3 DEF FeeMatches, FlatFee
<1> QED BY <1>2, <1>4, <1>5

(* Steps that leave the coins alone. *)
LEMMA CoinsKept ==
    ASSUME Greedy, UNCHANGED <<utxos, amount, rate, rest, inputs, count, total>>,
           pc' = "insufficient" => ~Enough(count, total) /\ \A v \in Values : rest[v] = 0
    PROVE  Greedy'
BY DEF Greedy, Enough, Target, SubBags

LEMMA NextSelection ==
    ASSUME SelectionInv, [Next]_vars
    PROVE  SelectionInv'
<1>1. Inv' /\ TypeOK /\ Inv /\ Greedy /\ Signable
  BY NextInv DEF SelectionInv, Inv
<1>2. CASE Select
  <2>1. Greedy'
    BY <1>1, <1>2, SelectGreedy
  <2>2. Signable'
    BY <1>1, <1>2 DEF Select, Signable, PreviewIsSignable
  <2> QED BY <1>1, <2>1, <2>2 DEF SelectionInv
<1>3. CASE Preview
  <2>1. Greedy'
    BY <1>1, <1>3, CoinsKept DEF Preview
  <2>2. draft' = Draft /\ Draft # Null /\ (Draft.change = 0 \/ Draft.change >= Dust)
    BY <1>1, <1>3, DraftKeepsNoDust, DraftAddsUp, ConstantsAssumption DEF Preview
  <2>3. Signable'
    BY <1>1, <1>3, <2>2 DEF Preview, Signable, PreviewIsSignable
  <2> QED BY <1>1, <2>1, <2>3 DEF SelectionInv
<1>4. CASE Insufficient
  <2>1. Greedy'
    BY <1>1, <1>4, CoinsKept DEF Insufficient
  <2>2. Signable'
    BY <1>1, <1>4 DEF Insufficient, Signable, PreviewIsSignable
  <2> QED BY <1>1, <2>1, <2>2 DEF SelectionInv
<1>5. CASE Sign
  <2>1. pc' = "signed"
    BY <1>1, <1>5, DraftIsSignable DEF Sign
  <2>2. Greedy'
    BY <1>1, <1>5, <2>1, CoinsKept DEF Sign
  <2>3. Signable'
    BY <1>1, <1>5, <2>1 DEF Sign, Signable, PreviewIsSignable
  <2> QED BY <1>1, <2>2, <2>3 DEF SelectionInv
<1>6. CASE UNCHANGED vars
  <2>1. Greedy'
    BY <1>1, <1>6, CoinsKept DEF vars, Greedy
  <2>2. Signable'
    BY <1>1, <1>6 DEF vars, Signable, PreviewIsSignable
  <2> QED BY <1>1, <2>1, <2>2 DEF SelectionInv
<1> QED BY <1>2, <1>3, <1>4, <1>5, <1>6 DEF Next

LEMMA SelectionHolds == Spec => []SelectionInv
BY InitSelection, NextSelection, PTL DEF Spec

(* signDraftWithKey accepts every draft the confirm screen can show:       *)
(* assertOutputsMatchDraft and assertFeeMatchesDraft never throw on it.    *)
THEOREM PreviewAlwaysSignable == Spec => []PreviewIsSignable
<1>1. SelectionInv => PreviewIsSignable
  BY DEF SelectionInv, Signable
<1> QED BY <1>1, SelectionHolds, PTL

(* No fewer coins of the wallet than buildTxPreview selects could pay.     *)
THEOREM AlwaysFewestInputs == Spec => []FewestInputs
<1>1. SelectionInv => FewestInputs
  BY DEF SelectionInv, Greedy, FewestInputs
<1> QED BY <1>1, SelectionHolds, PTL

(* InsufficientFundsError is thrown only when no coins of the wallet, of   *)
(* whatever number, pay for themselves and the amount.                     *)
THEOREM OnlyUnfundableRefused == Spec => []RefusesOnlyUnfundable
<1>1. SelectionInv => RefusesOnlyUnfundable
  <2> SUFFICES ASSUME SelectionInv, pc = "insufficient",
                      NEW b \in SubBags(utxos), Size(b) > 0
               PROVE  ~Enough(Size(b), Worth(b))
    BY DEF RefusesOnlyUnfundable
  <2>1. TypeOK /\ Greedy /\ ~Enough(count, total) /\ \A v \in Values : rest[v] = 0
    BY DEF SelectionInv, Inv, Greedy
  <2>2. utxos \in CoinBags /\ inputs \in CoinBags /\ rest \in CoinBags /\ count \in Nat
    BY <2>1 DEF TypeOK, CoinBags
  <2>3. b \in CoinBags /\ \A v \in Values : b[v] <= utxos[v]
    BY <2>2, SubBagsAre
  <2>4. \A v \in Values : inputs[v] = utxos[v]
    BY <2>1, <2>2 DEF Greedy, CoinBags
  <2>5. Size(b) <= Size(inputs)
    <3>1. \A v \in Values : b[v] <= inputs[v]
      BY <2>3, <2>4
    <3> QED BY <2>2, <2>3, <3>1, SmallerBag
  <2>6. Size(b) \in Int /\ Size(inputs) = count
    BY <2>1, <2>3, BagSums DEF Greedy
  <2>7. CASE Size(b) = count
    BY <2>1, <2>6, <2>7, AsManyCoins
  <2>8. CASE Size(b) # count
    <3>1. Size(b) \in 1..(count - 1)
      BY <2>2, <2>5, <2>6, <2>8
    <3> QED BY <2>1, <3>1 DEF Greedy
  <2> QED BY <2>7, <2>8
<1> QED BY <1>1, SelectionHolds, PTL
=============================================================================
