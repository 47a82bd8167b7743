------------------------- MODULE RunComparisonProofs --------------------------
(***************************************************************************)
(* Proofs about RunComparison, for every set of cases, keys, outcomes,     *)
(* event vectors and sample limits.  A trusted status stands on evidence,  *)
(* and an untrusted one names every side that lacks it: what a side must   *)
(* have follows from the checks it has passed.  The report names exactly   *)
(* the observations that differ: keys no longer waiting in the merge are   *)
(* reported as they should be, a key both sides have waits on both or on   *)
(* neither, and the ranking at the end only permutes.  Every change comes  *)
(* with samples that explain it and complete references.  Of the inputs    *)
(* only the event vector is assumed to exist.                              *)
(***************************************************************************)
EXTENDS RunComparison, FiniteSetTheorems, TLAPS

(* A report has its six fields. *)
ReportShape ==
  report = [left |-> report.left, right |-> report.right, exit |-> report.exit,
            observed |-> report.observed, changes |-> report.changes, warned |-> report.warned]

(* During the merge both sides have passed their checks and their qualities *)
(* are in the report.                                                       *)
Gathered ==
  at = "merge" =>
    /\ CheckedRun(left) /\ CheckedRun(right)
    /\ report.left = Quality(left) /\ report.right = Quality(right)

ComparisonInv == ReportShape /\ Gathered /\ TrustIsEarned

-----------------------------------------------------------------------------
(* What the checks of a run say *)

(* A run that is checked, complete and verified has every count and outcome *)
(* that validate_comparison_run asks for.                                   *)
LEMMA VerifiedFacts ==
  ASSUME NEW run, ValidateComparisonRun(run), run.storage = "verified"
  PROVE  /\ run.meta.schema \in {3, 4} /\ run.meta.events = Len(run.events)
         /\ EvidenceValid(run.meta) /\ StateValid(run.meta) /\ OutcomeValid(run.meta)
         /\ run.meta.schema = 4 => run.raw # "none" /\ RawConsistent(run)
<1>1. ~Withheld(run)
  BY DEF Withheld
<1>2. /\ run.meta.schema \in {3, 4} /\ ValidateMetadata(run.meta)
      /\ ValidateRunFacts(run.meta, EventFacts(Len(run.events), run.eventSchema, Len(run.events), FALSE, FALSE), TRUE)
  BY <1>1 DEF ValidateComparisonRun
<1>3. run.meta.events = Len(run.events)
  BY <1>2 DEF ValidateRunFacts, EventFacts
<1>4. EvidenceValid(run.meta) /\ StateValid(run.meta) /\ OutcomeValid(run.meta)
  BY <1>2 DEF ValidateMetadata
<1>5. run.meta.schema = 4 => run.raw # "none" /\ RawConsistent(run)
  BY DEF ValidateComparisonRun
<1> QED
  BY <1>2, <1>3, <1>4, <1>5

(* A trusted quality is that of a checked run with complete, verified       *)
(* evidence, raw bytes included where the report is about traces.           *)
LEMMA TrustedIsEarned ==
  ASSUME NEW run, Trusted(Quality(run))
  PROVE  Earned(run)
<1>1. CheckedRun(run) /\ Capture(run) = "complete" /\ run.storage = "verified"
  BY DEF Trusted, Quality
<1>2. Loaded(run) /\ ValidateComparisonRun(run)
  BY <1>1 DEF CheckedRun
<1>3. /\ run.meta.schema \in {3, 4} /\ run.meta.events = Len(run.events)
      /\ EvidenceValid(run.meta) /\ StateValid(run.meta) /\ OutcomeValid(run.meta)
      /\ run.meta.schema = 4 => run.raw # "none" /\ RawConsistent(run)
  BY <1>1, <1>2, VerifiedFacts
<1>4. run.meta.completeness = "complete"
  BY <1>1 DEF Capture
<1>5. run.meta.target # NoExit /\ run.meta.collector = run.meta.target
  BY <1>3, <1>4 DEF OutcomeValid
<1>6. ASSUME TraceReport
      PROVE  run.meta.schema = 4 /\ run.receipt.kind = "Parsed" /\ run.raw = "verified"
  <2>1. RawOf(run) \in {"none", "verified"}
    BY <1>6 DEF Trusted, Quality
  <2>2. run.meta.schema = 4 /\ run.raw = "verified"
    BY <1>3, <2>1 DEF RawOf, IsNew
  <2> QED
    BY <1>1, <1>3, <2>2 DEF RawConsistent
<1>7. run.meta.schema >= 3
  BY <1>3
<1> QED
  BY <1>1, <1>3, <1>4, <1>5, <1>6, <1>7 DEF Earned

(* A checked run with that evidence has a trusted quality. *)
LEMMA EarnedIsTrusted ==
  ASSUME NEW run, CheckedRun(run), Earned(run)
  PROVE  Trusted(Quality(run))
<1>1. run.storage = "verified" /\ run.meta.completeness = "complete" /\ run.meta.target # NoExit
  BY DEF Earned
<1>2. Loaded(run) /\ ValidateComparisonRun(run)
  BY DEF CheckedRun
<1>3. EvidenceValid(run.meta) /\ StateValid(run.meta) /\ OutcomeValid(run.meta)
  BY <1>1, <1>2, VerifiedFacts
<1>4. run.meta.state = "completed"
  BY <1>1, <1>3 DEF StateValid
<1>5. Capture(run) = "complete"
  BY <1>1, <1>4 DEF Capture
<1>6. TraceReport => RawOf(run) = "verified" /\ ProvenanceOf(run) = "verified"
  <2>1. SUFFICES ASSUME TraceReport
                 PROVE  RawOf(run) = "verified" /\ ProvenanceOf(run) = "verified"
    OBVIOUS
  <2>2. run.meta.schema = 4 /\ run.raw = "verified"
    BY <2>1 DEF Earned
  <2>3. run.meta.raw # NoExit
    BY <1>1, <1>3 DEF OutcomeValid
  <2>4. run.meta.provenance
    BY <1>3, <2>2, <2>3 DEF EvidenceValid
  <2> QED
    BY <1>1, <1>2, <2>2, <2>4 DEF RawOf, ProvenanceOf, IsNew
<1> QED
  BY <1>1, <1>5, <1>6 DEF Trusted, Quality

(* A side no warning names has a trusted quality. *)
LEMMA UnwarnedIsTrusted ==
  ASSUME NEW run, CheckedRun(run), ~Warned(run, Quality(run))
  PROVE  Trusted(Quality(run))
<1>1. run.storage = "verified" /\ run.meta.state = "completed" /\ run.meta.completeness = "complete"
  BY DEF Warned
<1>2. Capture(run) = "complete"
  BY <1>1 DEF Capture
<1>3. TraceReport => Quality(run).raw = "verified" /\ Quality(run).provenance = "verified"
  BY DEF Warned
<1> QED
  BY <1>1, <1>2, <1>3 DEF Trusted, Quality

-----------------------------------------------------------------------------
(* The theorem *)

(* A step that keeps the inputs and the format keeps what is said of them. *)
LEMMA SideKept ==
  ASSUME left' = left, right' = right, format' = format
  PROVE  /\ CheckedRun(left)' <=> CheckedRun(left)
         /\ CheckedRun(right)' <=> CheckedRun(right)
         /\ Quality(left)' = Quality(left) /\ Quality(right)' = Quality(right)
<1>1. /\ TraceReport' <=> TraceReport
      /\ CheckedRun(left)' <=> CheckedRun(left)
      /\ CheckedRun(right)' <=> CheckedRun(right)
  BY DEF TraceReport, IsNew, Loaded, CheckedRun
<1> QED
  BY <1>1 DEF Quality

(* The last step decides the status from both qualities and names the sides *)
(* that are warned about.                                                   *)
LEMMA FinishStep ==
  ASSUME ComparisonInv, Finish
  PROVE  ComparisonInv'
<1> USE DEF ComparisonInv
<1>1. PICK final, seen :
        report' = [report EXCEPT
                     !.changes = final, !.observed = seen, !.exit = ExitCode(final),
                     !.warned = {side \in {"left", "right"} :
                                   IF side = "left" THEN Warned(left, report.left)
                                   ELSE Warned(right, report.right)}]
  BY DEF Finish
<1>2. at = "merge" /\ at' = "done" /\ left' = left /\ right' = right /\ format' = format
  BY DEF Finish
<1> DEFINE code == ExitCode(final)
           named == {side \in {"left", "right"} : IF side = "left" THEN Warned(left, report.left)
                                                  ELSE Warned(right, report.right)}
<1>3. /\ "left" \in named <=> Warned(left, report.left)
      /\ "right" \in named <=> Warned(right, report.right)
  OBVIOUS
<1>4. /\ Trusted(report.left) /\ Trusted(report.right) => code \in {0, 1}
      /\ ~(Trusted(report.left) /\ Trusted(report.right)) => code = 3
  BY DEF ExitCode
<1> HIDE DEF code, named
<1>5. report'.exit = code /\ report'.warned = named /\ ReportShape'
  BY <1>1 DEF ReportShape, code, named
<1>6. /\ CheckedRun(left) /\ CheckedRun(right)
      /\ report.left = Quality(left) /\ report.right = Quality(right)
  BY <1>2 DEF Gathered
<1>7. /\ Trusted(report.left) <=> Earned(left)
      /\ Trusted(report.right) <=> Earned(right)
  BY <1>6, TrustedIsEarned, EarnedIsTrusted
<1>8. /\ ~Earned(left) => Warned(left, report.left)
      /\ ~Earned(right) => Warned(right, report.right)
  BY <1>6, <1>7, UnwarnedIsTrusted
<1>9. /\ Earned(left)' <=> Earned(left)
      /\ Earned(right)' <=> Earned(right)
  BY <1>2 DEF Earned, TraceReport, IsNew, Loaded
<1>10. TrustIsEarned'
  BY <1>3, <1>4, <1>5, <1>7, <1>8, <1>9 DEF TrustIsEarned, Done
<1> QED
  BY <1>2, <1>5, <1>10 DEF Gathered

(* Nothing is gathered before the check. *)
LEMMA ComparisonInvInit == ComparisonInit => ComparisonInv
  BY DEF ComparisonInit, ComparisonInv, ReportShape, NoReport, Gathered, TrustIsEarned, Done

(* Every step keeps the report tied to the checked sides. *)
LEMMA ComparisonInvStep ==
  ASSUME ComparisonInv, [ComparisonNext]_comparisonVars
  PROVE  ComparisonInv'
<1> USE DEF ComparisonInv
<1>1. CASE Fail
  BY <1>1 DEF Fail, ReportShape, NoReport, Gathered, TrustIsEarned, Done
<1>2. CASE Begin
  <2>1. PICK changes : report' = [report EXCEPT !.left = Quality(left), !.right = Quality(right),
                                                !.changes = changes]
    BY <1>2 DEF Begin
  <2>2. /\ CheckedRun(left) /\ CheckedRun(right) /\ at' = "merge"
        /\ left' = left /\ right' = right /\ format' = format
    BY <1>2 DEF Begin
  <2>3. /\ CheckedRun(left)' /\ CheckedRun(right)'
        /\ Quality(left)' = Quality(left) /\ Quality(right)' = Quality(right)
    BY <2>2, SideKept
  <2>4. ReportShape' /\ report'.left = Quality(left) /\ report'.right = Quality(right)
    BY <2>1 DEF ReportShape
  <2> QED
    BY <2>2, <2>3, <2>4 DEF Gathered, TrustIsEarned, Done
<1>3. CASE TakeLeft \/ TakeRight \/ TakeBoth
  <2>1. PICK changes : report' = [report EXCEPT !.changes = changes]
    BY <1>3 DEF TakeLeft, TakeRight, TakeBoth, Merge
  <2>2. at = "merge" /\ at' = at /\ left' = left /\ right' = right /\ format' = format
    BY <1>3 DEF TakeLeft, TakeRight, TakeBoth, Merge
  <2>3. /\ CheckedRun(left)' <=> CheckedRun(left)
        /\ CheckedRun(right)' <=> CheckedRun(right)
        /\ Quality(left)' = Quality(left) /\ Quality(right)' = Quality(right)
    BY <2>2, SideKept
  <2>4. ReportShape' /\ report'.left = report.left /\ report'.right = report.right
    BY <2>1 DEF ReportShape
  <2> QED
    BY <2>2, <2>3, <2>4 DEF Gathered, TrustIsEarned, Done
<1>4. CASE Finish
  BY <1>4, FinishStep
<1>5. CASE UNCHANGED comparisonVars
  <2>1. left' = left /\ right' = right /\ format' = format /\ at' = at /\ report' = report
    BY <1>5 DEF comparisonVars
  <2>2. Gathered'
    BY <2>1, SideKept DEF Gathered
  <2>3. TrustIsEarned' /\ ReportShape'
    BY <2>1 DEF TrustIsEarned, Done, Earned, TraceReport, IsNew, Loaded, ReportShape
  <2> QED
    BY <2>2, <2>3
<1> QED
  BY <1>1, <1>2, <1>3, <1>4, <1>5 DEF ComparisonNext

(* Status 0 or 1 stands on evidence only, and a status of 3 names every     *)
(* side that cannot be trusted, whatever is compared.                       *)
THEOREM StatusIsEarned == ComparisonSpec => []TrustIsEarned
<1>1. ComparisonInit => ComparisonInv
  BY ComparisonInvInit
<1>2. ComparisonInv /\ [ComparisonNext]_comparisonVars => ComparisonInv'
  BY ComparisonInvStep
<1>3. ComparisonInv => TrustIsEarned
  BY DEF ComparisonInv
<1> QED
  BY <1>1, <1>2, <1>3, PTL DEF ComparisonSpec

-----------------------------------------------------------------------------
(* Orders by counting *)

(* The first N positions. *)
LEMMA CountFacts ==
  ASSUME NEW N \in Nat
  PROVE  IsFiniteSet(1 .. N) /\ Cardinality(1 .. N) = N
  <1>1. IsFiniteSet(1 .. N) /\ Cardinality(1 .. N) = IF 1 > N THEN 0 ELSE N - 1 + 1
    BY FS_Interval
  <1>2. QED  BY <1>1

(* B gives the elements before each one, and of two elements one is before *)
(* the other.                                                              *)
Orders(S, B) ==
  /\ B \in [S -> SUBSET S] /\ \A x \in S : x \notin B[x]
  /\ \A x, y \in S : x \in B[y] => B[x] \subseteq B[y]
  /\ \A x, y \in S : x = y \/ x \in B[y] \/ y \in B[x]

(* In such an order every place is taken once. *)
LEMMA Places ==
  ASSUME NEW S, IsFiniteSet(S), NEW B, Orders(S, B)
  PROVE  /\ \A x \in S : Cardinality(B[x]) \in 0 .. Cardinality(S) - 1
         /\ \A x, y \in S : Cardinality(B[x]) = Cardinality(B[y]) => x = y
         /\ \A x, y \in S : Cardinality(B[x]) < Cardinality(B[y]) => x \in B[y]
         /\ \A n \in 1 .. Cardinality(S) : \E x \in S : Cardinality(B[x]) = n - 1
  <1> USE DEF Orders
  <1>1. Cardinality(S) \in Nat
    BY FS_CardinalityType
  <1>2. ASSUME NEW x \in S
        PROVE  /\ IsFiniteSet(B[x]) /\ Cardinality(B[x]) \in Nat
               /\ Cardinality(B[x]) < Cardinality(S)
    <2>1. B[x] \in SUBSET S /\ B[x] # S
      OBVIOUS
    <2>2. IsFiniteSet(B[x]) /\ Cardinality(B[x]) <= Cardinality(S) /\ Cardinality(B[x]) # Cardinality(S)
      BY <2>1, FS_Subset
    <2>3. Cardinality(B[x]) \in Nat
      BY <2>2, FS_CardinalityType
    <2>4. QED  BY <1>1, <2>2, <2>3
  <1>3. ASSUME NEW x \in S, NEW y \in S, x \in B[y]
        PROVE  Cardinality(B[x]) < Cardinality(B[y])
    <2>1. B[x] \in SUBSET B[y] /\ B[x] # B[y]
      BY <1>3
    <2>2. Cardinality(B[x]) <= Cardinality(B[y]) /\ Cardinality(B[x]) # Cardinality(B[y])
      BY <1>2, <2>1, FS_Subset
    <2>3. Cardinality(B[x]) \in Nat /\ Cardinality(B[y]) \in Nat
      BY <1>2
    <2>4. QED  BY <2>2, <2>3
  <1>4. ASSUME NEW x \in S, NEW y \in S
        PROVE  /\ Cardinality(B[x]) = Cardinality(B[y]) => x = y
               /\ Cardinality(B[x]) < Cardinality(B[y]) => x \in B[y]
    <2>1. Cardinality(B[x]) \in Nat /\ Cardinality(B[y]) \in Nat
      BY <1>2
    <2>2. CASE x = y  BY <2>1, <2>2
    <2>3. CASE x \in B[y]  BY <1>3, <2>1, <2>3
    <2>4. CASE y \in B[x]
      <3>1. Cardinality(B[y]) < Cardinality(B[x])  BY <1>3, <2>4
      <3>2. QED  BY <2>1, <3>1
    <2>5. QED  BY <2>2, <2>3, <2>4
  <1>5. \A x \in S : Cardinality(B[x]) \in 0 .. Cardinality(S) - 1
    BY <1>1, <1>2
  <1>6. ASSUME NEW n \in 1 .. Cardinality(S)
        PROVE  \E x \in S : Cardinality(B[x]) = n - 1
    <2> DEFINE T == 0 .. Cardinality(S) - 1
               f == [x \in S |-> Cardinality(B[x])]
    <2>1. IsFiniteSet(T) /\ Cardinality(T) = Cardinality(S)
      <3>1. Cardinality(S) - 1 \in Int /\ 0 \in Int /\ ~(0 > Cardinality(S) - 1)  BY <1>1
      <3>2. IsFiniteSet(T) /\ Cardinality(T) = (Cardinality(S) - 1) - 0 + 1
        BY <3>1, FS_Interval
      <3>3. QED  BY <1>1, <3>2
    <2>2. f \in Injection(S, T)
      <3>1. f \in [S -> T]  BY <1>5
      <3>2. \A x, y \in S : f[x] = f[y] => x = y  BY <1>4
      <3>3. QED  BY <3>1, <3>2 DEF Injection, IsInjective
    <2>3. f \in Surjection(S, T)
      BY <2>1, <2>2, FS_Injection
    <2>4. n - 1 \in T  BY <1>1
    <2>5. QED  BY <2>3, <2>4 DEF Surjection
  <1>7. QED  BY <1>4, <1>5, <1>6

(* InOrder lists a finite set, each element after those before it. *)
LEMMA InOrderFacts ==
  ASSUME NEW S, IsFiniteSet(S), NEW B, Orders(S, B), NEW N, N = Cardinality(S)
  PROVE  /\ N \in Nat /\ InOrder(S, B) \in [1 .. N -> S]
         /\ \A n \in 1 .. N : Cardinality(B[InOrder(S, B)[n]]) = n - 1
         /\ \A m, n \in 1 .. N : InOrder(S, B)[m] = InOrder(S, B)[n] => m = n
         /\ \A m, n \in 1 .. N : m < n => InOrder(S, B)[m] \in B[InOrder(S, B)[n]]
         /\ \A x \in S : \E n \in 1 .. N : InOrder(S, B)[n] = x
  <1> DEFINE At(n) == CHOOSE x \in S : Cardinality(B[x]) = n - 1
  <1>1. N \in Nat  BY FS_CardinalityType
  <1>2. /\ \A x \in S : Cardinality(B[x]) \in 0 .. N - 1
        /\ \A x, y \in S : Cardinality(B[x]) = Cardinality(B[y]) => x = y
        /\ \A x, y \in S : Cardinality(B[x]) < Cardinality(B[y]) => x \in B[y]
        /\ \A n \in 1 .. N : \E x \in S : Cardinality(B[x]) = n - 1
    BY Places
  <1>3. InOrder(S, B) = [n \in 1 .. N |-> At(n)]  BY DEF InOrder
  <1>4. \A n \in 1 .. N : At(n) \in S /\ Cardinality(B[At(n)]) = n - 1
    BY <1>2
  <1> HIDE DEF At
  <1>5. InOrder(S, B) \in [1 .. N -> S] /\ \A n \in 1 .. N : InOrder(S, B)[n] = At(n)
    BY <1>3, <1>4
  <1>6. \A n \in 1 .. N : Cardinality(B[InOrder(S, B)[n]]) = n - 1
    BY <1>4, <1>5
  <1>7. ASSUME NEW m \in 1 .. N, NEW n \in 1 .. N
        PROVE  /\ InOrder(S, B)[m] = InOrder(S, B)[n] => m = n
               /\ m < n => InOrder(S, B)[m] \in B[InOrder(S, B)[n]]
    <2>1. Cardinality(B[At(m)]) = m - 1 /\ Cardinality(B[At(n)]) = n - 1 /\ At(m) \in S /\ At(n) \in S
      BY <1>4
    <2>2. m \in Nat /\ n \in Nat  BY <1>1
    <2>3. At(m) = At(n) => m = n
      <3>1. At(m) = At(n) => m - 1 = n - 1  BY <2>1
      <3>2. QED  BY <2>2, <3>1
    <2>4. m < n => At(m) \in B[At(n)]
      <3>1. m < n => m - 1 < n - 1  BY <2>2
      <3>2. QED  BY <1>2, <2>1, <3>1
    <2>5. QED  BY <1>5, <2>3, <2>4
  <1>8. ASSUME NEW x \in S
        PROVE  \E n \in 1 .. N : InOrder(S, B)[n] = x
    <2>1. PICK i \in 1 .. N : i = Cardinality(B[x]) + 1  BY <1>1, <1>2
    <2>2. Cardinality(B[x]) = i - 1  BY <1>1, <1>2, <2>1
    <2>3. At(i) = x  BY <1>2, <1>4, <2>2
    <2>4. QED  BY <1>5, <2>3
  <1>9. QED  BY <1>1, <1>5, <1>6, <1>7, <1>8

(* Sorted lists a finite set of numbers in ascending order. *)
LEMMA SortedFacts ==
  ASSUME NEW S \in SUBSET Nat, IsFiniteSet(S)
  PROVE  /\ Sorted(S) \in Seq(Nat)
         /\ \A i, j \in DOMAIN Sorted(S) : i < j => Sorted(S)[i] < Sorted(S)[j]
         /\ \A x : x \in S <=> \E i \in DOMAIN Sorted(S) : Sorted(S)[i] = x
  <1> DEFINE B == [x \in S |-> {y \in S : y < x}]
             N == Cardinality(S)
             s == InOrder(S, B)
  <1>1. \A x, y \in S : x \in B[y] <=> x < y  OBVIOUS
  <1>2. Orders(S, B)
    <2>1. B \in [S -> SUBSET S]  OBVIOUS
    <2>2. ASSUME NEW x \in S, NEW y \in S, x \in B[y], NEW z \in B[x]
          PROVE  z \in B[y]
      <3>1. z \in S /\ z \in Nat /\ x \in Nat /\ y \in Nat  BY <2>1
      <3>2. z < x /\ x < y  BY <2>2
      <3>3. z < y  BY <3>1, <3>2
      <3>4. QED  BY <3>1, <3>3
    <2>3. \A x, y \in S : x \in B[y] => B[x] \subseteq B[y]  BY <2>2
    <2>4. \A x, y \in S : x \in Nat /\ y \in Nat  OBVIOUS
    <2>5. /\ \A x \in S : x \notin B[x]
          /\ \A x, y \in S : x = y \/ x \in B[y] \/ y \in B[x]
      BY <1>1, <2>4
    <2> HIDE DEF B
    <2>6. QED  BY <2>1, <2>3, <2>5 DEF Orders
  <1>3. Sorted(S) = s  BY DEF Sorted
  <1> HIDE DEF B
  <1>4. /\ N \in Nat /\ s \in [1 .. N -> S]
        /\ \A m, n \in 1 .. N : m < n => s[m] \in B[s[n]]
        /\ \A x \in S : \E n \in 1 .. N : s[n] = x
    BY <1>2, InOrderFacts
  <1> HIDE DEF N, s
  <1>5. s \in Seq(Nat) /\ DOMAIN s = 1 .. N
    <2>1. s \in [1 .. N -> Nat]  BY <1>4
    <2>2. QED  BY <1>4, <2>1
  <1>6. \A m, n \in 1 .. N : m < n => s[m] < s[n]  BY <1>1, <1>4
  <1>7. \A x : x \in S <=> \E n \in 1 .. N : s[n] = x  BY <1>4
  <1>8. QED  BY <1>3, <1>5, <1>6, <1>7

(* A sequence of length N in another order. *)
Reorders(new, old, N) ==
  /\ DOMAIN new = 1 .. N
  /\ \E p \in [1 .. N -> 1 .. N] :
       /\ \A n \in 1 .. N : new[n] = old[p[n]]
       /\ \A m, n \in 1 .. N : p[m] = p[n] => m = n
       /\ \A i \in 1 .. N : \E n \in 1 .. N : p[n] = i

(* Ranked permutes the changes. *)
LEMMA RankedFacts ==
  ASSUME NEW changes, NEW N \in Nat, DOMAIN changes = 1 .. N,
         \A i \in 1 .. N : RankClass(changes[i]) \in Nat
  PROVE  Reorders(Ranked(changes), changes, N)
  <1> DEFINE S == 1 .. N
             B == [i \in S |-> {j \in S : Precedes(changes, j, i)}]
             p == InOrder(S, B)
  <1>1. IsFiniteSet(S) /\ Cardinality(S) = N
    BY CountFacts
  <1>2. Orders(S, B)
    <2>1. B \in [S -> SUBSET S] /\ \A i, j \in S : j \in B[i] <=> Precedes(changes, j, i)  OBVIOUS
    <2>2. \A i \in S : i \in Nat /\ RankClass(changes[i]) \in Nat  OBVIOUS
    <2>3. \A i \in S : ~Precedes(changes, i, i)  BY <2>2 DEF Precedes
    <2>4. \A i, j \in S : i = j \/ Precedes(changes, i, j) \/ Precedes(changes, j, i)
      BY <2>2 DEF Precedes
    <2>5. \A i, j, m \in S : Precedes(changes, m, i) /\ Precedes(changes, i, j) => Precedes(changes, m, j)
      BY <2>2 DEF Precedes
    <2> HIDE DEF B
    <2>6. \A i, j \in S : i \in B[j] => B[i] \subseteq B[j]
      <3>1. ASSUME NEW i \in S, NEW j \in S, i \in B[j], NEW m \in B[i]  PROVE m \in B[j]
        <4>1. m \in S  BY <2>1
        <4>2. QED  BY <2>1, <2>5, <3>1, <4>1
      <3>2. QED  BY <3>1
    <2>7. QED  BY <2>1, <2>3, <2>4, <2>6 DEF Orders
  <1>3. Ranked(changes) = [n \in S |-> changes[p[n]]]  BY DEF Ranked
  <1> HIDE DEF B
  <1>4. /\ p \in [S -> S] /\ \A m, n \in S : p[m] = p[n] => m = n
        /\ \A i \in S : \E n \in S : p[n] = i
    <2>1. PICK T, A, q : T = S /\ A = B /\ q = InOrder(T, A)  OBVIOUS
    <2> HIDE DEF S
    <2>2. IsFiniteSet(T) /\ Orders(T, A) /\ N = Cardinality(T)  BY <1>1, <1>2, <2>1
    <2>3. /\ q \in [1 .. N -> T] /\ \A m, n \in 1 .. N : q[m] = q[n] => m = n
          /\ \A i \in T : \E n \in 1 .. N : q[n] = i
      BY <2>1, <2>2, InOrderFacts
    <2>4. QED  BY <2>1, <2>3 DEF S
  <1> HIDE DEF p
  <1>5. QED  BY <1>3, <1>4 DEF Reorders

-----------------------------------------------------------------------------
(* The two sides *)

(* A row of a loaded event vector. *)
Rows == Events \cup {ExitRow}
RowsTyped == left.events \in Seq(Rows) /\ right.events \in Seq(Rows)

(* The loader's event vectors consist of rows. *)
LEMMA LoadsTyped ==
  ASSUME NEW case \in Cases, NEW run \in Loads(case)
  PROVE  run.events \in Seq(Rows)
  <1>1. PICK input \in case.inputs, events \in BoundedSeq(Events, case.maxEvents) :
          run = WithEvents(input, events)
    BY DEF Loads
  <1>2. PICK saved : saved = IF input.meta.raw = NoExit THEN events ELSE <<RootRow>> \o events \o <<ExitRow>>
    OBVIOUS
  <1>3. "events" \in DOMAIN input  BY ComparisonAssumption
  <1>4. run.events = IF input.withheld THEN <<>> ELSE saved
    <2>1. PICK count, receipt :
            run = [input EXCEPT !.events = IF input.withheld THEN <<>> ELSE saved,
                                !.meta.events = count, !.meta.lines = count, !.receipt = receipt]
      BY <1>1, <1>2 DEF WithEvents
    <2>2. QED  BY <1>3, <2>1
  <1>5. events \in Seq(Rows)
    <2>1. PICK m \in 0 .. case.maxEvents : events \in [1 .. m -> Events]
      BY <1>1, ComparisonAssumption DEF BoundedSeq, SeqOf
    <2>2. m \in Nat  BY ComparisonAssumption
    <2>3. events \in [1 .. m -> Rows]  BY <2>1 DEF Rows
    <2>4. QED  BY <2>2, <2>3
  <1>6. <<RootRow>> \in Seq(Rows) /\ <<ExitRow>> \in Seq(Rows)
    BY ComparisonAssumption DEF Rows, RootRow, Events, Keys
  <1>7. saved \in Seq(Rows)  BY <1>2, <1>5, <1>6
  <1>8. QED  BY <1>4, <1>7

(* The keys of an aggregate are those of the rows it admits, and a bucket  *)
(* has the outcomes seen under its key.                                    *)
LEMMA AggregateFacts ==
  ASSUME NEW run, run.events \in Seq(Rows)
  PROVE  /\ DOMAIN Aggregate(run) \in SUBSET Keys /\ IsFiniteSet(DOMAIN Aggregate(run))
         /\ \A k \in Keys : DOMAIN Bucket(run, k) = Seen(run, k)
         /\ \A k \in Keys : k \notin DOMAIN Aggregate(run) => Bucket(run, k) = <<>>
  <1> DEFINE indices == {i \in DOMAIN run.events : run.events[i].key # 0}
             admitted == IF OutcomeReport /\ run.storage = "unfinalized" THEN {} ELSE indices
             Outs(k) == {run.events[i].outcome : i \in {j \in admitted : run.events[j].key = k}}
  <1>1. Aggregate(run) = [k \in {run.events[i].key : i \in admitted} |->
                            [o \in Outs(k) |-> Occurrences(run, k, o)]]
    BY DEF Aggregate
  <1>2. DOMAIN Aggregate(run) = {run.events[i].key : i \in admitted}
    BY <1>1
  <1>3. \A k \in DOMAIN Aggregate(run) : DOMAIN Aggregate(run)[k] = Outs(k)
    BY <1>1
  <1>4. admitted \in SUBSET DOMAIN run.events  OBVIOUS
  <1>5. \A i \in admitted : run.events[i].key \in Keys
    <2>1. \A i \in admitted : run.events[i] \in Rows /\ run.events[i].key # 0  OBVIOUS
    <2>2. QED  BY <2>1 DEF Rows, Events, ExitRow
  <1>6. IsFiniteSet(admitted)
    <2>1. Len(run.events) \in Nat /\ DOMAIN run.events = 1 .. Len(run.events)  OBVIOUS
    <2>2. PICK n \in Nat : n = Len(run.events)  BY <2>1
    <2>3. IsFiniteSet(1 .. n)  BY FS_Interval
    <2>4. QED  BY <1>4, <2>1, <2>2, <2>3, FS_Subset
  <1> HIDE DEF admitted
  <1>7. IsFiniteSet(DOMAIN Aggregate(run))
    <2> DEFINE f == [i \in admitted |-> run.events[i].key]
    <2>1. f \in Surjection(admitted, DOMAIN Aggregate(run))
      BY <1>2 DEF Surjection
    <2>2. QED  BY <1>6, <2>1, FS_Surjection
  <1>8. ASSUME NEW k \in Keys
        PROVE  DOMAIN Bucket(run, k) = Outs(k)
    <2>1. CASE k \in DOMAIN Aggregate(run)
      BY <1>3, <2>1 DEF Bucket
    <2>2. CASE k \notin DOMAIN Aggregate(run)
      <3>1. Outs(k) = {}  BY <1>2, <2>2
      <3>2. Bucket(run, k) = <<>>  BY <2>2 DEF Bucket
      <3>3. DOMAIN Bucket(run, k) = {}  BY <3>2
      <3>4. QED  BY <3>1, <3>3
    <2>3. QED  BY <2>1, <2>2
  <1>9. ASSUME NEW k \in Keys
        PROVE  Outs(k) = Seen(run, k)
    <2>1. k # 0  BY ComparisonAssumption DEF Keys
    <2>2. CASE Shown(run)
      <3>1. admitted = indices  BY <2>2 DEF Shown, admitted
      <3>2. QED  BY <2>1, <2>2, <3>1 DEF Seen, Side
    <2>3. CASE ~Shown(run)
      <3>1. admitted = {}  BY <2>3 DEF Shown, admitted
      <3>2. QED  BY <2>3, <3>1 DEF Seen
    <2>4. QED  BY <2>2, <2>3
  <1>10. \A k \in Keys : k \notin DOMAIN Aggregate(run) => Bucket(run, k) = <<>>
    BY DEF Bucket
  <1>11. QED  BY <1>2, <1>5, <1>7, <1>8, <1>9, <1>10

-----------------------------------------------------------------------------
(* The merge *)

(* The changes that name an observation, and what they must say of it. *)
Named(changes, k) == {i \in DOMAIN changes : changes[i].key = k}
Reported(changes, k) ==
  IF Seen(left, k) = Seen(right, k) THEN Named(changes, k) = {}
  ELSE \E i \in DOMAIN changes :
         /\ Named(changes, k) = {i}
         /\ changes[i].left = Seen(left, k) /\ changes[i].right = Seen(right, k)

(* Keys still to be merged, in ascending order. *)
Ascending(keys) ==
  keys \in Seq(Nat) /\ \A i, j \in DOMAIN keys : i < j => keys[i] < keys[j]
Waiting(keys, k) == \E i \in DOMAIN keys : keys[i] = k

(* What is left of both sides are keys of both aggregates, common ones on  *)
(* both sides or neither.                                                  *)
Queued ==
  /\ Ascending(leftKeys) /\ Ascending(rightKeys)
  /\ \A k : Waiting(leftKeys, k) => k \in DOMAIN Aggregate(left)
  /\ \A k : Waiting(rightKeys, k) => k \in DOMAIN Aggregate(right)
  /\ \A k \in DOMAIN Aggregate(left) \cap DOMAIN Aggregate(right) :
       Waiting(leftKeys, k) <=> Waiting(rightKeys, k)

(* The changes are a sequence that can be ranked. *)
IsChange(c) == RankClass(c) \in Nat /\ {"key", "left", "right"} \subseteq DOMAIN c
Rankable(changes) ==
  /\ \E S : changes \in Seq(S)
  /\ \A i \in DOMAIN changes : IsChange(changes[i])

(* Keys that wait are not reported yet, the others are. *)
Settled ==
  /\ Rankable(report.changes)
  /\ \A k \in Keys : IF Waiting(leftKeys, k) \/ Waiting(rightKeys, k)
                     THEN Named(report.changes, k) = {} ELSE Reported(report.changes, k)
  /\ report.changes = <<>> => MetadataChanges = <<>>

Merging == at = "merge" => Queued /\ Settled

(* The first key is the smallest, and taking it leaves the others. *)
LEMMA TailFacts ==
  ASSUME NEW keys, Ascending(keys), keys # <<>>
  PROVE  /\ Ascending(Tail(keys)) /\ Waiting(keys, Head(keys))
         /\ \A k : Waiting(Tail(keys), k) <=> Waiting(keys, k) /\ k # Head(keys)
         /\ \A k : Waiting(keys, k) => k \in Nat /\ Head(keys) <= k
  <1>1. keys \in Seq(Nat) /\ Len(keys) \in Nat /\ Len(keys) # 0 /\ DOMAIN keys = 1 .. Len(keys)
    BY DEF Ascending
  <1>2. /\ Tail(keys) \in Seq(Nat) /\ Len(Tail(keys)) = Len(keys) - 1
        /\ DOMAIN Tail(keys) = 1 .. (Len(keys) - 1)
        /\ \A i \in 1 .. (Len(keys) - 1) : Tail(keys)[i] = keys[i + 1]
        /\ Head(keys) = keys[1] /\ 1 \in DOMAIN keys
    BY <1>1
  <1>3. \A i \in DOMAIN keys : keys[i] \in Nat /\ keys[1] <= keys[i] /\ (i # 1 => keys[1] < keys[i])
    <2>1. ASSUME NEW i \in DOMAIN keys
          PROVE  keys[i] \in Nat /\ keys[1] <= keys[i] /\ (i # 1 => keys[1] < keys[i])
      <3>1. keys[i] \in Nat /\ keys[1] \in Nat  BY <1>1, <1>2
      <3>2. i # 1 => 1 < i  BY <1>1
      <3>3. i # 1 => keys[1] < keys[i]  BY <1>2, <3>2 DEF Ascending
      <3>4. QED  BY <3>1, <3>3
    <2>2. QED  BY <2>1
  <1>4. Ascending(Tail(keys))
    <2>1. ASSUME NEW i \in DOMAIN Tail(keys), NEW j \in DOMAIN Tail(keys), i < j
          PROVE  Tail(keys)[i] < Tail(keys)[j]
      <3>1. i + 1 \in DOMAIN keys /\ j + 1 \in DOMAIN keys /\ i + 1 < j + 1  BY <1>1, <1>2, <2>1
      <3>2. keys[i + 1] < keys[j + 1]  BY <3>1 DEF Ascending
      <3>3. QED  BY <1>2, <3>2
    <2>2. QED  BY <1>2, <2>1 DEF Ascending
  <1>5. Waiting(keys, Head(keys))  BY <1>2 DEF Waiting
  <1>6. ASSUME NEW k
        PROVE  Waiting(Tail(keys), k) <=> Waiting(keys, k) /\ k # Head(keys)
    <2>1. ASSUME Waiting(Tail(keys), k)  PROVE Waiting(keys, k) /\ k # Head(keys)
      <3>1. PICK i \in 1 .. (Len(keys) - 1) : keys[i + 1] = k  BY <1>2, <2>1 DEF Waiting
      <3>2. i + 1 \in DOMAIN keys /\ i + 1 # 1  BY <1>1
      <3>3. keys[1] < keys[i + 1] /\ keys[1] \in Nat  BY <1>2, <1>3, <3>2
      <3>4. keys[1] # keys[i + 1]  BY <3>3
      <3>5. QED  BY <1>2, <3>1, <3>2, <3>4 DEF Waiting
    <2>2. ASSUME Waiting(keys, k), k # Head(keys)  PROVE Waiting(Tail(keys), k)
      <3>1. PICK i \in DOMAIN keys : keys[i] = k  BY <2>2 DEF Waiting
      <3>2. i # 1  BY <1>2, <2>2, <3>1
      <3>3. PICK j \in 1 .. (Len(keys) - 1) : j + 1 = i
        <4>1. i - 1 \in 1 .. (Len(keys) - 1) /\ (i - 1) + 1 = i  BY <1>1, <3>2
        <4>2. QED  BY <4>1
      <3>4. Tail(keys)[j] = k  BY <1>2, <3>1, <3>3
      <3>5. QED  BY <1>2, <3>4 DEF Waiting
    <2>3. QED  BY <2>1, <2>2
  <1>7. \A k : Waiting(keys, k) => k \in Nat /\ Head(keys) <= k
    BY <1>2, <1>3 DEF Waiting
  <1>8. QED  BY <1>4, <1>5, <1>6, <1>7

(* A change can be added at the end. *)
LEMMA AppendFacts ==
  ASSUME NEW S, NEW s \in Seq(S), NEW c
  PROVE  /\ s \o <<c>> \in Seq(S \cup {c}) /\ s \o <<>> = s
         /\ DOMAIN s = 1 .. Len(s) /\ Len(s) \in Nat
         /\ DOMAIN (s \o <<c>>) = 1 .. (Len(s) + 1) /\ s \o <<c>> # <<>>
         /\ \A i \in 1 .. Len(s) : (s \o <<c>>)[i] = s[i]
         /\ (s \o <<c>>)[Len(s) + 1] = c
  <1>1. s \in Seq(S \cup {c}) /\ <<c>> \in Seq(S \cup {c})  OBVIOUS
  <1>2. s \o <<c>> \in Seq(S \cup {c}) /\ Len(s \o <<c>>) = Len(s) + 1 /\ Len(s) \in Nat
    BY <1>1
  <1>3. s \o <<>> = s  OBVIOUS
  <1>4. \A i \in 1 .. Len(s) : (s \o <<c>>)[i] = s[i]  BY <1>1
  <1>5. (s \o <<c>>)[Len(s) + 1] = c  BY <1>1
  <1>6. s \o <<c>> # <<>>  BY <1>2
  <1>7. QED  BY <1>2, <1>3, <1>4, <1>5, <1>6

(* What one more merged key does to the changes. *)
Added(changes, k, new) ==
  /\ Rankable(new) /\ Reported(new, k) /\ (new = <<>> => changes = <<>>)
  /\ \A j \in Keys \ {k} : /\ Named(changes, j) = {} => Named(new, j) = {}
                           /\ Reported(changes, j) => Reported(new, j)

(* A key's change, if there is one, is added once and disturbs no other. *)
LEMMA ObservationFacts ==
  ASSUME NEW changes, Rankable(changes), NEW k \in Keys, Named(changes, k) = {},
         NEW l, NEW r, DOMAIN l = Seen(left, k), DOMAIN r = Seen(right, k),
         NEW new, new = changes \o ObservationChange(k, l, r)
  PROVE  Added(changes, k, new)
  <1>1. PICK S : changes \in Seq(S)  BY DEF Rankable
  <1>2. CASE DOMAIN l = DOMAIN r
    <2>1. ObservationChange(k, l, r) = <<>>  BY <1>2 DEF ObservationChange
    <2>2. new = changes  BY <1>1, <2>1, AppendFacts
    <2>3. QED  BY <1>2, <2>2 DEF Reported, Added
  <1>3. CASE DOMAIN l # DOMAIN r
    <2>1. PICK c, kind : /\ ObservationChange(k, l, r) = <<c>> /\ c.kind = kind /\ c.key = k
                         /\ c.left = DOMAIN l /\ c.right = DOMAIN r
                         /\ {"key", "left", "right"} \subseteq DOMAIN c
      BY <1>3 DEF ObservationChange, Change
    <2>2. PICK n \in Nat : n = Len(changes)  BY <1>1
    <2>3. /\ new \in Seq(S \cup {c}) /\ new # <<>>
          /\ DOMAIN changes = 1 .. n /\ DOMAIN new = 1 .. (n + 1)
          /\ \A i \in 1 .. n : new[i] = changes[i]
          /\ new[n + 1] = c
      BY <1>1, <2>1, <2>2, AppendFacts
    <2>4. k # 0  BY ComparisonAssumption DEF Keys
    <2>5. IsChange(c)
      <3>1. RankClass(c) \in Nat  BY <2>1, <2>4 DEF RankClass
      <3>2. QED  BY <2>1, <3>1 DEF IsChange
    <2>6. Rankable(new)
      <3>1. \A i \in DOMAIN new : i \in 1 .. n \/ i = n + 1  BY <2>3
      <3>2. \A i \in DOMAIN new : IsChange(new[i])
        BY <2>3, <2>5, <3>1 DEF Rankable
      <3>3. QED  BY <2>3, <3>2 DEF Rankable
    <2>7. Named(new, k) = {n + 1} /\ n + 1 \in DOMAIN new
      <3>1. \A i \in 1 .. n : changes[i].key # k  BY <2>3 DEF Named
      <3>2. n + 1 \in DOMAIN new /\ \A i \in DOMAIN new : i \in 1 .. n \/ i = n + 1  BY <2>3
      <3>3. QED  BY <2>1, <2>3, <3>1, <3>2 DEF Named
    <2>8. Reported(new, k)
      BY <1>3, <2>1, <2>3, <2>7 DEF Reported
    <2>9. ASSUME NEW j \in Keys \ {k}
          PROVE  Named(new, j) = Named(changes, j) /\ Named(changes, j) \subseteq 1 .. n
      <3>1. \A i \in DOMAIN new : i \in 1 .. n \/ i = n + 1  BY <2>3
      <3>2. 1 .. n \subseteq DOMAIN new  BY <2>3
      <3>3. QED  BY <2>1, <2>3, <3>1, <3>2 DEF Named
    <2>10. ASSUME NEW j \in Keys \ {k}, Reported(changes, j)
           PROVE  Reported(new, j)
      <3>1. CASE Seen(left, j) = Seen(right, j)  BY <2>9, <2>10, <3>1 DEF Reported
      <3>2. CASE Seen(left, j) # Seen(right, j)
        <4>1. PICK i \in DOMAIN changes : /\ Named(changes, j) = {i} /\ changes[i].left = Seen(left, j)
                                          /\ changes[i].right = Seen(right, j)
          BY <2>10, <3>2 DEF Reported
        <4>2. i \in DOMAIN new /\ new[i] = changes[i]  BY <2>3
        <4>3. QED  BY <2>9, <3>2, <4>1, <4>2 DEF Reported
      <3>3. QED  BY <3>1, <3>2
    <2>11. QED  BY <2>3, <2>6, <2>8, <2>9, <2>10 DEF Added
  <1>4. QED  BY <1>2, <1>3

(* A concatenation is empty only if its parts are. *)
LEMMA EmptyParts ==
  ASSUME NEW S, NEW a \in Seq(S), NEW b \in Seq(S), NEW c \in Seq(S), NEW d \in Seq(S), NEW e \in Seq(S),
         a \o b \o c \o d \o e = <<>>
  PROVE  a = <<>> /\ b = <<>> /\ c = <<>> /\ d = <<>> /\ e = <<>>
  <1>1. ASSUME NEW s \in Seq(S), NEW t \in Seq(S), s \o t = <<>>
        PROVE  s = <<>> /\ t = <<>>
    <2>1. Len(s \o t) = Len(s) + Len(t) /\ Len(s) \in Nat /\ Len(t) \in Nat  OBVIOUS
    <2>2. Len(s) = 0 /\ Len(t) = 0  BY <1>1, <2>1
    <2>3. QED  BY <2>2
  <1>2. a \o b \in Seq(S) /\ a \o b \o c \in Seq(S) /\ a \o b \o c \o d \in Seq(S)  OBVIOUS
  <1>3. a \o b \o c \o d = <<>> /\ e = <<>>  BY <1>1, <1>2
  <1>4. a \o b \o c = <<>> /\ d = <<>>  BY <1>1, <1>2, <1>3
  <1>5. a \o b = <<>> /\ c = <<>>  BY <1>1, <1>2, <1>4
  <1>6. QED  BY <1>1, <1>3, <1>4, <1>5

(* Five optional changes of the invocation, the target's end and the       *)
(* capture; none names an observation.                                     *)
LEMMA MetadataFacts ==
  /\ Rankable(MetadataChanges)
  /\ \A k \in Keys : Named(MetadataChanges, k) = {}
  /\ MetadataChanges = <<>> =>
       /\ TargetExit(left.meta) = TargetExit(right.meta)
       /\ left.meta.cwd = right.meta.cwd /\ left.meta.command = right.meta.command
       /\ left.meta.environment # "none" /\ right.meta.environment # "none" =>
            left.meta.environment = right.meta.environment
  <1> DEFINE Facts(m) == <<m.state, m.completeness, m.warned>>
             Selected(m) == IF m.environment = "none" THEN "unselected" ELSE m.environment
             When(differs, change) == IF differs THEN <<change>> ELSE <<>>
             c1 == MetadataChange("ExitStatus", TargetExit(left.meta), TargetExit(right.meta))
             c2 == MetadataChange("InitialWorkingDirectory", left.meta.cwd, right.meta.cwd)
             c3 == MetadataChange("CommandArguments", left.meta.command, right.meta.command)
             c4 == MetadataChange("CaptureCompleteness", Facts(left.meta), Facts(right.meta))
             c5 == MetadataChange("SelectedStartupEnvironment", Selected(left.meta), Selected(right.meta))
             w1 == When(TargetExit(left.meta) # TargetExit(right.meta), c1)
             w2 == When(left.meta.cwd # right.meta.cwd, c2)
             w3 == When(left.meta.command # right.meta.command, c3)
             w4 == When(Facts(left.meta) # Facts(right.meta), c4)
             w5 == When(Selected(left.meta) # Selected(right.meta), c5)
             S == {c1, c2, c3, c4, c5}
  <1>1. MetadataChanges = w1 \o w2 \o w3 \o w4 \o w5
    BY DEF MetadataChanges
  <1>2. ASSUME NEW kind \in {"ExitStatus", "InitialWorkingDirectory", "CommandArguments",
                             "CaptureCompleteness", "SelectedStartupEnvironment"},
               NEW l, NEW r
        PROVE  MetadataChange(kind, l, r).key = 0 /\ IsChange(MetadataChange(kind, l, r))
    <2>1. /\ MetadataChange(kind, l, r).key = 0 /\ MetadataChange(kind, l, r).kind = kind
          /\ {"key", "left", "right"} \subseteq DOMAIN MetadataChange(kind, l, r)
      BY DEF MetadataChange, Change
    <2>2. RankClass(MetadataChange(kind, l, r)) \in Nat  BY <2>1 DEF RankClass
    <2>3. QED  BY <2>1, <2>2 DEF IsChange
  <1>3. \A c \in S : c.key = 0 /\ IsChange(c)
    BY <1>2
  <1>4. w1 \in Seq(S) /\ w2 \in Seq(S) /\ w3 \in Seq(S) /\ w4 \in Seq(S) /\ w5 \in Seq(S)
    <2>1. c1 \in S /\ c2 \in S /\ c3 \in S /\ c4 \in S /\ c5 \in S  OBVIOUS
    <2> HIDE DEF c1, c2, c3, c4, c5, S, Facts, Selected
    <2>2. <<>> \in Seq(S) /\ \A c \in S : <<c>> \in Seq(S)  OBVIOUS
    <2>3. QED  BY <2>1, <2>2
  <1>5. /\ w1 = <<>> => TargetExit(left.meta) = TargetExit(right.meta)
        /\ w2 = <<>> => left.meta.cwd = right.meta.cwd
        /\ w3 = <<>> => left.meta.command = right.meta.command
        /\ w5 = <<>> => Selected(left.meta) = Selected(right.meta)
    <2>1. <<c1>> # <<>> /\ <<c2>> # <<>> /\ <<c3>> # <<>> /\ <<c5>> # <<>>
      <3> HIDE DEF c1, c2, c3, c5
      <3> QED  OBVIOUS
    <2> HIDE DEF c1, c2, c3, c4, c5, Selected
    <2>2. QED  BY <2>1
  <1>6. /\ left.meta.environment # "none" /\ right.meta.environment # "none"
        /\ Selected(left.meta) = Selected(right.meta)
        => left.meta.environment = right.meta.environment
    OBVIOUS
  <1> HIDE DEF w1, w2, w3, w4, w5, S, Selected
  <1>7. MetadataChanges \in Seq(S)
    BY <1>1, <1>4
  <1>8. MetadataChanges = <<>> => w1 = <<>> /\ w2 = <<>> /\ w3 = <<>> /\ w5 = <<>>
    <2>1. SUFFICES ASSUME MetadataChanges = <<>>
                   PROVE  w1 = <<>> /\ w2 = <<>> /\ w3 = <<>> /\ w5 = <<>>
      OBVIOUS
    <2>2. w1 \o w2 \o w3 \o w4 \o w5 = <<>>  BY <1>1, <2>1
    <2>3. QED  BY <1>4, <2>2, EmptyParts
  <1>9. \A i \in DOMAIN MetadataChanges : MetadataChanges[i] \in S
    BY <1>7
  <1>10. Rankable(MetadataChanges)  BY <1>3, <1>7, <1>9 DEF Rankable
  <1>11. \A k \in Keys : k # 0  BY ComparisonAssumption DEF Keys
  <1>12. \A k \in Keys : Named(MetadataChanges, k) = {}
    BY <1>3, <1>9, <1>11 DEF Named
  <1>13. QED  BY <1>5, <1>6, <1>8, <1>10, <1>12

(* What is said of the two sides depends on the inputs and the format. *)
LEMMA SidesKept ==
  ASSUME left' = left, right' = right, format' = format
  PROVE  /\ \A k : Seen(left, k)' = Seen(left, k) /\ Seen(right, k)' = Seen(right, k)
         /\ \A k : Side(left, k)' = Side(left, k) /\ Side(right, k)' = Side(right, k)
         /\ Aggregate(left)' = Aggregate(left) /\ Aggregate(right)' = Aggregate(right)
         /\ MetadataChanges' = MetadataChanges /\ RowsTyped' = RowsTyped
  <1>1. OutcomeReport' <=> OutcomeReport  BY DEF OutcomeReport
  <1>2. \A k : Side(left, k)' = Side(left, k) /\ Side(right, k)' = Side(right, k)
    BY DEF Side
  <1>3. \A k : Seen(left, k)' = Seen(left, k) /\ Seen(right, k)' = Seen(right, k)
    BY <1>1, <1>2 DEF Seen, Shown
  <1>4. Aggregate(left)' = Aggregate(left) /\ Aggregate(right)' = Aggregate(right)
    BY <1>1 DEF Aggregate
  <1>5. ASSUME NEW kind, NEW l, NEW r
        PROVE  MetadataChange(kind, l, r)' = MetadataChange(kind, l, r)
    BY <1>1 DEF MetadataChange, Change, TargetMapping, MetadataMapping
  <1>6. MetadataChanges' = MetadataChanges
    BY <1>5 DEF MetadataChanges
  <1>7. RowsTyped' = RowsTyped  BY DEF RowsTyped
  <1>8. QED  BY <1>2, <1>3, <1>4, <1>6, <1>7

(* Nothing is reported or left out when the merge begins. *)
LEMMA BeginMerging ==
  ASSUME RowsTyped, ReportShape, Begin
  PROVE  Merging' /\ RowsTyped'
  <1>1. /\ leftKeys' = Sorted(DOMAIN Aggregate(left)) /\ rightKeys' = Sorted(DOMAIN Aggregate(right))
        /\ left' = left /\ right' = right /\ format' = format
    BY DEF Begin
  <1>2. report'.changes = MetadataChanges
    BY DEF Begin, ReportShape
  <1>3. /\ \A k : Seen(left, k)' = Seen(left, k) /\ Seen(right, k)' = Seen(right, k)
        /\ Aggregate(left)' = Aggregate(left) /\ Aggregate(right)' = Aggregate(right)
        /\ MetadataChanges' = MetadataChanges /\ RowsTyped' = RowsTyped
    BY <1>1, SidesKept
  <1>4. /\ DOMAIN Aggregate(left) \in SUBSET Nat /\ IsFiniteSet(DOMAIN Aggregate(left))
        /\ DOMAIN Aggregate(right) \in SUBSET Nat /\ IsFiniteSet(DOMAIN Aggregate(right))
        /\ \A k \in Keys : /\ DOMAIN Bucket(left, k) = Seen(left, k)
                           /\ DOMAIN Bucket(right, k) = Seen(right, k)
                           /\ k \notin DOMAIN Aggregate(left) => Bucket(left, k) = <<>>
                           /\ k \notin DOMAIN Aggregate(right) => Bucket(right, k) = <<>>
    BY AggregateFacts, ComparisonAssumption DEF RowsTyped, Keys
  <1>5. /\ Ascending(leftKeys') /\ \A k : Waiting(leftKeys', k) <=> k \in DOMAIN Aggregate(left)
        /\ Ascending(rightKeys') /\ \A k : Waiting(rightKeys', k) <=> k \in DOMAIN Aggregate(right)
    BY <1>1, <1>4, SortedFacts DEF Ascending, Waiting
  <1>6. Queued'
    BY <1>3, <1>5 DEF Queued
  <1>7. /\ Rankable(MetadataChanges) /\ \A k \in Keys : Named(MetadataChanges, k) = {}
    BY MetadataFacts
  <1>8. ASSUME NEW k \in Keys, ~Waiting(leftKeys', k), ~Waiting(rightKeys', k)
        PROVE  Seen(left, k) = Seen(right, k)
    BY <1>4, <1>5, <1>8
  <1>9. Settled'
    <2>1. Rankable(report'.changes)  BY <1>2, <1>7
    <2>2. \A k \in Keys : Named(report'.changes, k) = {}  BY <1>2, <1>7
    <2>3. ASSUME NEW k \in Keys
          PROVE  (IF Waiting(leftKeys, k) \/ Waiting(rightKeys, k)
                  THEN Named(report.changes, k) = {} ELSE Reported(report.changes, k))'
      BY <1>3, <1>8, <2>2 DEF Reported
    <2>4. QED  BY <1>2, <1>3, <2>1, <2>3 DEF Settled
  <1>10. QED  BY <1>3, <1>6, <1>9 DEF Merging

(* One key is reported and waits no longer; the others are as before. *)
LEMMA MergeSettles ==
  ASSUME Settled, ReportShape, NEW k \in Keys, NEW l, NEW r, Merge(k, l, r),
         DOMAIN l = Seen(left, k), DOMAIN r = Seen(right, k),
         Waiting(leftKeys, k) \/ Waiting(rightKeys, k),
         \A j \in Keys : Waiting(leftKeys', j) \/ Waiting(rightKeys', j)
                           <=> (Waiting(leftKeys, j) \/ Waiting(rightKeys, j)) /\ j # k
  PROVE  Settled'
  <1>1. left' = left /\ right' = right /\ format' = format
    BY DEF Merge
  <1>2. report'.changes = report.changes \o ObservationChange(k, l, r)
    BY DEF Merge, ReportShape
  <1>3. /\ \A j : Seen(left, j)' = Seen(left, j) /\ Seen(right, j)' = Seen(right, j)
        /\ MetadataChanges' = MetadataChanges
    BY <1>1, SidesKept
  <1>4. PICK old, new : old = report.changes /\ new = old \o ObservationChange(k, l, r)
    OBVIOUS
  <1>5. Rankable(old) /\ Named(old, k) = {}
    BY <1>4 DEF Settled
  <1>6. /\ Rankable(new) /\ Reported(new, k) /\ (new = <<>> => old = <<>>)
        /\ \A j \in Keys \ {k} : /\ Named(old, j) = {} => Named(new, j) = {}
                                 /\ Reported(old, j) => Reported(new, j)
    <2>1. new = old \o ObservationChange(k, l, r)  BY <1>4
    <2>2. Added(old, k, new)  BY <1>5, <2>1, ObservationFacts
    <2>3. QED  BY <2>2 DEF Added
  <1>7. report'.changes = new  BY <1>2, <1>4
  <1>8. ASSUME NEW j \in Keys
        PROVE  IF Waiting(leftKeys', j) \/ Waiting(rightKeys', j)
               THEN Named(new, j) = {} ELSE Reported(new, j)
    <2>1. CASE j = k  BY <1>6, <2>1
    <2>2. CASE j # k  BY <1>4, <1>6, <2>2 DEF Settled
    <2>3. QED  BY <2>1, <2>2
  <1>9. ASSUME NEW j \in Keys
        PROVE  (IF Waiting(leftKeys, j) \/ Waiting(rightKeys, j)
                THEN Named(report.changes, j) = {} ELSE Reported(report.changes, j))'
    <2>1. Reported(new, j) => Reported(report.changes, j)'
      BY <1>3, <1>7 DEF Reported
    <2>2. Named(report.changes, j)' = Named(new, j)  BY <1>7
    <2>3. QED  BY <1>8, <2>1, <2>2
  <1>10. Rankable(report.changes)'  BY <1>6, <1>7
  <1>11. (report.changes = <<>> => MetadataChanges = <<>>)'
    BY <1>3, <1>4, <1>6, <1>7 DEF Settled
  <1>12. QED  BY <1>9, <1>10, <1>11 DEF Settled

(* The keys and buckets of the typed sides. *)
LEMMA BucketFacts ==
  ASSUME RowsTyped
  PROVE  /\ DOMAIN Aggregate(left) \subseteq Keys /\ DOMAIN Aggregate(right) \subseteq Keys
         /\ \A k \in Keys : /\ DOMAIN Bucket(left, k) = Seen(left, k)
                            /\ DOMAIN Bucket(right, k) = Seen(right, k)
                            /\ k \notin DOMAIN Aggregate(left) => Bucket(left, k) = <<>>
                            /\ k \notin DOMAIN Aggregate(right) => Bucket(right, k) = <<>>
  BY AggregateFacts DEF RowsTyped

(* ordered_aggregates takes the smaller key, from both sides if both have  *)
(* it: a key that one side has passed is not a key of the other.           *)
LEMMA TakeMerging ==
  ASSUME RowsTyped, ReportShape, Merging, TakeLeft \/ TakeRight \/ TakeBoth
  PROVE  Merging' /\ \E k \in Keys : Merge(k, Bucket(left, k), Bucket(right, k))
  <1>1. at = "merge" /\ left' = left /\ right' = right /\ format' = format
    BY DEF TakeLeft, TakeRight, TakeBoth, Merge
  <1>2. Queued /\ Settled  BY <1>1 DEF Merging
  <1>3. Aggregate(left)' = Aggregate(left) /\ Aggregate(right)' = Aggregate(right)
    BY <1>1, SidesKept
  <1>4. /\ Ascending(leftKeys) /\ Ascending(rightKeys)
        /\ \A k : Waiting(leftKeys, k) => k \in DOMAIN Aggregate(left) /\ k \in Keys
        /\ \A k : Waiting(rightKeys, k) => k \in DOMAIN Aggregate(right) /\ k \in Keys
        /\ \A k \in DOMAIN Aggregate(left) \cap DOMAIN Aggregate(right) :
             Waiting(leftKeys, k) <=> Waiting(rightKeys, k)
    BY <1>2, BucketFacts DEF Queued
  <1>5. /\ leftKeys = <<>> => \A k : ~Waiting(leftKeys, k)
        /\ rightKeys = <<>> => \A k : ~Waiting(rightKeys, k)
    BY DEF Waiting
  <1>6. CASE TakeLeft
    <2>1. leftKeys # <<>>  BY <1>6 DEF TakeLeft
    <2>2. PICK k : k = Head(leftKeys)  OBVIOUS
    <2>3. /\ Ascending(Tail(leftKeys)) /\ Waiting(leftKeys, k)
          /\ \A j : Waiting(Tail(leftKeys), j) <=> Waiting(leftKeys, j) /\ j # k
          /\ k \in Nat
      BY <1>4, <2>1, <2>2, TailFacts
    <2>4. ~Waiting(rightKeys, k)
      <3>1. CASE rightKeys = <<>>  BY <1>5, <3>1
      <3>2. CASE rightKeys # <<>>
        <4>1. k < Head(rightKeys)  BY <1>6, <2>2, <3>2 DEF TakeLeft
        <4>2. /\ \A j : Waiting(rightKeys, j) => j \in Nat /\ Head(rightKeys) <= j
              /\ Waiting(rightKeys, Head(rightKeys))
          BY <1>4, <3>2, TailFacts
        <4>3. QED  BY <2>3, <4>1, <4>2
      <3>3. QED  BY <3>1, <3>2
    <2>5. k \in Keys /\ k \in DOMAIN Aggregate(left) /\ k \notin DOMAIN Aggregate(right)
      BY <1>4, <2>3, <2>4
    <2>6. DOMAIN Bucket(left, k) = Seen(left, k) /\ DOMAIN Bucket(right, k) = Seen(right, k)
          /\ Bucket(right, k) = <<>>
      BY <2>5, BucketFacts
    <2>7. Merge(k, Bucket(left, k), Bucket(right, k)) /\ leftKeys' = Tail(leftKeys) /\ rightKeys' = rightKeys
      BY <1>6, <2>2, <2>6 DEF TakeLeft
    <2>8. Queued'
      BY <1>3, <1>4, <2>3, <2>5, <2>7 DEF Queued
    <2>9. \A j \in Keys : Waiting(leftKeys', j) \/ Waiting(rightKeys', j)
                            <=> (Waiting(leftKeys, j) \/ Waiting(rightKeys, j)) /\ j # k
      BY <2>3, <2>4, <2>7
    <2>10. Settled'
      BY <1>2, <2>3, <2>5, <2>6, <2>7, <2>9, MergeSettles
    <2>11. QED  BY <2>5, <2>7, <2>8, <2>10 DEF Merging
  <1>7. CASE TakeRight
    <2>1. rightKeys # <<>>  BY <1>7 DEF TakeRight
    <2>2. PICK k : k = Head(rightKeys)  OBVIOUS
    <2>3. /\ Ascending(Tail(rightKeys)) /\ Waiting(rightKeys, k)
          /\ \A j : Waiting(Tail(rightKeys), j) <=> Waiting(rightKeys, j) /\ j # k
          /\ k \in Nat
      BY <1>4, <2>1, <2>2, TailFacts
    <2>4. ~Waiting(leftKeys, k)
      <3>1. CASE leftKeys = <<>>  BY <1>5, <3>1
      <3>2. CASE leftKeys # <<>>
        <4>1. Head(leftKeys) > k  BY <1>7, <2>2, <3>2 DEF TakeRight
        <4>2. /\ \A j : Waiting(leftKeys, j) => j \in Nat /\ Head(leftKeys) <= j
              /\ Waiting(leftKeys, Head(leftKeys))
          BY <1>4, <3>2, TailFacts
        <4>3. QED  BY <2>3, <4>1, <4>2
      <3>3. QED  BY <3>1, <3>2
    <2>5. k \in Keys /\ k \in DOMAIN Aggregate(right) /\ k \notin DOMAIN Aggregate(left)
      BY <1>4, <2>3, <2>4
    <2>6. DOMAIN Bucket(left, k) = Seen(left, k) /\ DOMAIN Bucket(right, k) = Seen(right, k)
          /\ Bucket(left, k) = <<>>
      BY <2>5, BucketFacts
    <2>7. Merge(k, Bucket(left, k), Bucket(right, k)) /\ rightKeys' = Tail(rightKeys) /\ leftKeys' = leftKeys
      BY <1>7, <2>2, <2>6 DEF TakeRight
    <2>8. Queued'
      BY <1>3, <1>4, <2>3, <2>5, <2>7 DEF Queued
    <2>9. \A j \in Keys : Waiting(leftKeys', j) \/ Waiting(rightKeys', j)
                            <=> (Waiting(leftKeys, j) \/ Waiting(rightKeys, j)) /\ j # k
      BY <2>3, <2>4, <2>7
    <2>10. Settled'
      BY <1>2, <2>3, <2>5, <2>6, <2>7, <2>9, MergeSettles
    <2>11. QED  BY <2>5, <2>7, <2>8, <2>10 DEF Merging
  <1>8. CASE TakeBoth
    <2>1. leftKeys # <<>> /\ rightKeys # <<>>  BY <1>8 DEF TakeBoth
    <2>2. PICK k : k = Head(leftKeys) /\ k = Head(rightKeys)  BY <1>8 DEF TakeBoth
    <2>3. /\ Ascending(Tail(leftKeys)) /\ Ascending(Tail(rightKeys))
          /\ Waiting(leftKeys, k) /\ Waiting(rightKeys, k)
          /\ \A j : Waiting(Tail(leftKeys), j) <=> Waiting(leftKeys, j) /\ j # k
          /\ \A j : Waiting(Tail(rightKeys), j) <=> Waiting(rightKeys, j) /\ j # k
      BY <1>4, <2>1, <2>2, TailFacts
    <2>4. k \in Keys  BY <1>4, <2>3
    <2>5. DOMAIN Bucket(left, k) = Seen(left, k) /\ DOMAIN Bucket(right, k) = Seen(right, k)
      BY <2>4, BucketFacts
    <2>6. /\ Merge(k, Bucket(left, k), Bucket(right, k))
          /\ leftKeys' = Tail(leftKeys) /\ rightKeys' = Tail(rightKeys)
      BY <1>8, <2>2 DEF TakeBoth
    <2>7. Queued'
      BY <1>3, <1>4, <2>3, <2>6 DEF Queued
    <2>8. \A j \in Keys : Waiting(leftKeys', j) \/ Waiting(rightKeys', j)
                            <=> (Waiting(leftKeys, j) \/ Waiting(rightKeys, j)) /\ j # k
      BY <2>3, <2>6
    <2>9. Settled'
      BY <1>2, <2>3, <2>4, <2>5, <2>6, <2>8, MergeSettles
    <2>10. QED  BY <2>4, <2>6, <2>7, <2>9 DEF Merging
  <1>9. QED  BY <1>6, <1>7, <1>8

(* A change of the report, from the merged one. *)
FinalChange(c) ==
  IF TraceReport /\ c.kind = "ExitStatus"
  THEN [c EXCEPT !.leftSamples = TargetSamples(left), !.rightSamples = TargetSamples(right)] ELSE c

(* The n-th final change is the p[n]-th merged one, up to its samples. *)
Permuted(N, p) ==
  /\ DOMAIN report.changes = 1 .. N /\ DOMAIN report'.changes = 1 .. N
  /\ \A m, n \in 1 .. N : p[m] = p[n] => m = n
  /\ \A i \in 1 .. N : \E n \in 1 .. N : p[n] = i
  /\ \A n \in 1 .. N : /\ report'.changes[n].key = report.changes[p[n]].key
                       /\ report'.changes[n].left = report.changes[p[n]].left
                       /\ report'.changes[n].right = report.changes[p[n]].right
                       /\ report'.changes[n] = FinalChange(report.changes[p[n]])

(* The report of the exhausted merge is a permutation of its changes. *)
LEMMA FinalChanges ==
  ASSUME ReportShape, Rankable(report.changes), Finish
  PROVE  /\ \E N \in Nat : \E p \in [1 .. N -> 1 .. N] : Permuted(N, p)
         /\ report'.changes = <<>> => report.changes = <<>>
         /\ report'.exit = ExitCode(report'.changes)
  <1>1. PICK S : report.changes \in Seq(S)  BY DEF Rankable
  <1>2. PICK N \in Nat : N = Len(report.changes) /\ DOMAIN report.changes = 1 .. N  BY <1>1
  <1>3. \A i \in 1 .. N : RankClass(report.changes[i]) \in Nat  BY <1>2 DEF Rankable, IsChange
  <1>4. PICK old, ranked : old = report.changes /\ ranked = Ranked(old)  OBVIOUS
  <1>5. /\ DOMAIN ranked = 1 .. N
        /\ \E p \in [1 .. N -> 1 .. N] :
             /\ \A n \in 1 .. N : ranked[n] = old[p[n]]
             /\ \A m, n \in 1 .. N : p[m] = p[n] => m = n
             /\ \A i \in 1 .. N : \E n \in 1 .. N : p[n] = i
    <2>1. DOMAIN old = 1 .. N /\ \A i \in 1 .. N : RankClass(old[i]) \in Nat  BY <1>2, <1>3, <1>4
    <2>2. Reorders(Ranked(old), old, N)  BY <2>1, RankedFacts
    <2>3. QED  BY <1>4, <2>2 DEF Reorders
  <1>6. PICK p \in [1 .. N -> 1 .. N] :
             /\ \A n \in 1 .. N : ranked[n] = old[p[n]]
             /\ \A m, n \in 1 .. N : p[m] = p[n] => m = n
             /\ \A i \in 1 .. N : \E n \in 1 .. N : p[n] = i
    BY <1>5
  <1> DEFINE Final(n) == FinalChange(ranked[n])
  <1>7. /\ report'.changes = [n \in DOMAIN ranked |-> Final(n)]
        /\ report'.exit = ExitCode([n \in DOMAIN ranked |-> Final(n)])
    <2>1. PICK final, seen, warned :
            /\ final = [n \in DOMAIN ranked |-> Final(n)]
            /\ report' = [report EXCEPT !.changes = final, !.observed = seen,
                                        !.exit = ExitCode(final), !.warned = warned]
      BY <1>4 DEF Finish, FinalChange
    <2> HIDE DEF Final
    <2>2. report'.changes = final /\ report'.exit = ExitCode(final)
      BY <2>1 DEF ReportShape
    <2>3. QED  BY <2>1, <2>2
  <1>8. ASSUME NEW n \in 1 .. N
        PROVE  Final(n).key = old[p[n]].key /\ Final(n).left = old[p[n]].left
               /\ Final(n).right = old[p[n]].right
    <2>1. p[n] \in 1 .. N /\ ranked[n] = old[p[n]]  BY <1>6
    <2>2. {"key", "left", "right"} \subseteq DOMAIN old[p[n]]
      BY <1>2, <1>4, <2>1 DEF Rankable, IsChange
    <2>3. ASSUME NEW x, NEW y
          PROVE  LET c == [ranked[n] EXCEPT !.leftSamples = x, !.rightSamples = y]
                 IN c.key = ranked[n].key /\ c.left = ranked[n].left /\ c.right = ranked[n].right
      BY <2>1, <2>2
    <2>4. QED  BY <2>1, <2>3 DEF FinalChange
  <1> HIDE DEF Final
  <1>9. /\ DOMAIN report'.changes = 1 .. N
        /\ \A n \in 1 .. N : report'.changes[n] = Final(n)
    BY <1>5, <1>7
  <1>10. report'.changes = <<>> => report.changes = <<>>
    <2>1. SUFFICES ASSUME report'.changes = <<>>  PROVE report.changes = <<>>
      OBVIOUS
    <2>2. 1 .. N = {}  BY <1>9, <2>1
    <2>3. N = 0  BY <2>2
    <2>4. QED  BY <1>1, <1>2, <2>3
  <1>11. report'.exit = ExitCode(report'.changes)  BY <1>7
  <1>12. \A n \in 1 .. N : /\ report'.changes[n].key = report.changes[p[n]].key
                           /\ report'.changes[n].left = report.changes[p[n]].left
                           /\ report'.changes[n].right = report.changes[p[n]].right
    BY <1>4, <1>8, <1>9
  <1>13. Permuted(N, p)
    <2>1. ASSUME NEW n \in 1 .. N  PROVE report'.changes[n] = FinalChange(report.changes[p[n]])
      <3>1. ranked[n] = report.changes[p[n]]  BY <1>4, <1>6
      <3>2. QED  BY <1>9, <3>1 DEF Final
    <2>2. QED  BY <1>2, <1>6, <1>9, <1>12, <2>1 DEF Permuted
  <1>14. QED  BY <1>10, <1>11, <1>13

(* A trusted run has the fields that equality is claimed for. *)
LEMMA TrustedFields ==
  ASSUME NEW run, CheckedRun(run), Trusted(Quality(run))
  PROVE  /\ Shown(run) /\ TargetExit(run.meta) = run.meta.target
         /\ run.meta.environment # "none"
  <1>1. Earned(run)  BY TrustedIsEarned
  <1>2. run.storage = "verified" /\ run.meta.target # NoExit  BY <1>1 DEF Earned
  <1>3. ValidateComparisonRun(run)  BY DEF CheckedRun
  <1>4. run.meta.schema \in {3, 4}  BY <1>2, <1>3, VerifiedFacts
  <1>5. run.meta.schema >= 2  BY <1>4
  <1>6. run.meta.environment # "none"  BY <1>3, <1>5 DEF ValidateComparisonRun
  <1>7. QED  BY <1>2, <1>6 DEF Shown, TargetExit

(* The report says what the exhausted merge has settled. *)
LEMMA FinishExact ==
  ASSUME ComparisonInv, Merging, Finish
  PROVE  DifferencesExact'
  <1>1. /\ at = "merge" /\ left' = left /\ right' = right /\ format' = format
        /\ leftKeys = <<>> /\ rightKeys = <<>>
    BY DEF Finish, Exhausted
  <1>2. Settled /\ ReportShape /\ Gathered  BY <1>1 DEF Merging, ComparisonInv
  <1>3. \A k \in Keys : Reported(report.changes, k)
    BY <1>1, <1>2 DEF Settled, Waiting
  <1>4. /\ \A k : Seen(left, k)' = Seen(left, k) /\ Seen(right, k)' = Seen(right, k)
        /\ \A k : Side(left, k)' = Side(left, k) /\ Side(right, k)' = Side(right, k)
    BY <1>1, SidesKept
  <1>a. /\ \E N \in Nat : \E p \in [1 .. N -> 1 .. N] : Permuted(N, p)
        /\ report'.changes = <<>> => report.changes = <<>>
        /\ report'.exit = ExitCode(report'.changes)
    BY <1>2, FinalChanges DEF Settled
  <1>b. PICK N \in Nat : \E p \in [1 .. N -> 1 .. N] : Permuted(N, p)  BY <1>a
  <1>c. PICK p \in [1 .. N -> 1 .. N] : Permuted(N, p)  BY <1>b
  <1>5. /\ DOMAIN report.changes = 1 .. N /\ DOMAIN report'.changes = 1 .. N
        /\ \A m, n \in 1 .. N : p[m] = p[n] => m = n
        /\ \A i \in 1 .. N : \E n \in 1 .. N : p[n] = i
        /\ \A n \in 1 .. N : /\ report'.changes[n].key = report.changes[p[n]].key
                             /\ report'.changes[n].left = report.changes[p[n]].left
                             /\ report'.changes[n].right = report.changes[p[n]].right
    BY <1>c DEF Permuted
  <1>6. ASSUME NEW k \in Keys
        PROVE  Reported(report'.changes, k)
    <2>1. CASE Seen(left, k) = Seen(right, k)
      <3>1. \A i \in 1 .. N : report.changes[i].key # k
        BY <1>3, <1>5, <2>1 DEF Reported, Named
      <3>2. ASSUME NEW n \in 1 .. N  PROVE report'.changes[n].key # k
        <4>1. p[n] \in 1 .. N  OBVIOUS
        <4>2. QED  BY <1>5, <3>1, <4>1
      <3>3. Named(report'.changes, k) = {}  BY <1>5, <3>2 DEF Named
      <3>4. QED  BY <2>1, <3>3 DEF Reported
    <2>2. CASE Seen(left, k) # Seen(right, k)
      <3>1. PICK i \in 1 .. N : /\ \A j \in 1 .. N : report.changes[j].key = k <=> j = i
                                /\ report.changes[i].left = Seen(left, k)
                                /\ report.changes[i].right = Seen(right, k)
        BY <1>3, <1>5, <2>2 DEF Reported, Named
      <3>2. PICK n \in 1 .. N : p[n] = i  BY <1>5
      <3>3. ASSUME NEW m \in 1 .. N  PROVE report'.changes[m].key = k <=> m = n
        <4>1. p[m] \in 1 .. N /\ (p[m] = i <=> m = n)  BY <1>5, <3>2
        <4>2. report'.changes[m].key = report.changes[p[m]].key  BY <1>5
        <4>3. QED  BY <3>1, <4>1, <4>2
      <3>4. Named(report'.changes, k) = {n}  BY <1>5, <3>3 DEF Named
      <3>5. report'.changes[n].left = Seen(left, k) /\ report'.changes[n].right = Seen(right, k)
        BY <1>5, <3>1, <3>2
      <3>6. QED  BY <1>5, <2>2, <3>4, <3>5 DEF Reported
    <2>3. QED  BY <2>1, <2>2
  <1>7. ASSUME report'.exit = 0
        PROVE  /\ \A k \in Keys : Side(left, k) = Side(right, k)
               /\ left.meta.target = right.meta.target /\ left.meta.cwd = right.meta.cwd
               /\ left.meta.command = right.meta.command
               /\ left.meta.environment = right.meta.environment
    <2>1. /\ report'.changes = <<>> /\ Trusted(Quality(left)) /\ Trusted(Quality(right))
          /\ CheckedRun(left) /\ CheckedRun(right)
      <3>1. ExitCode(report'.changes) = 0  BY <1>a, <1>7
      <3>2. Trusted(report.left) /\ Trusted(report.right) /\ report'.changes = <<>>
        BY <3>1 DEF ExitCode
      <3>3. QED  BY <1>1, <1>2, <3>2 DEF Gathered
    <2>2. /\ Shown(left) /\ TargetExit(left.meta) = left.meta.target /\ left.meta.environment # "none"
          /\ Shown(right) /\ TargetExit(right.meta) = right.meta.target /\ right.meta.environment # "none"
      BY <2>1, TrustedFields
    <2>3. MetadataChanges = <<>>  BY <1>2, <1>a, <2>1 DEF Settled
    <2>4. /\ left.meta.target = right.meta.target /\ left.meta.cwd = right.meta.cwd
          /\ left.meta.command = right.meta.command
          /\ left.meta.environment = right.meta.environment
      BY <2>2, <2>3, MetadataFacts
    <2>5. ASSUME NEW k \in Keys  PROVE Side(left, k) = Side(right, k)
      <3>1. \A i \in DOMAIN report'.changes : FALSE  BY <2>1
      <3>2. Seen(left, k) = Seen(right, k)  BY <1>6, <3>1 DEF Reported
      <3>3. QED  BY <2>2, <3>2 DEF Seen
    <2>6. QED  BY <2>4, <2>5
  <1>8. QED
    <2>1. ASSUME NEW k \in Keys
          PROVE  (LET found == {i \in DOMAIN report.changes : report.changes[i].key = k}
                  IN IF Seen(left, k) = Seen(right, k) THEN found = {}
                     ELSE \E i \in DOMAIN report.changes :
                            /\ found = {i}
                            /\ report.changes[i].left = Seen(left, k)
                            /\ report.changes[i].right = Seen(right, k))'
      BY <1>4, <1>6 DEF Reported, Named
    <2>2. (report.exit = 0 =>
             /\ \A k \in Keys : Side(left, k) = Side(right, k)
             /\ left.meta.target = right.meta.target /\ left.meta.cwd = right.meta.cwd
             /\ left.meta.command = right.meta.command
             /\ left.meta.environment = right.meta.environment)'
      BY <1>1, <1>4, <1>7
    <2>3. QED  BY <2>1, <2>2 DEF DifferencesExact

-----------------------------------------------------------------------------
(* Samples and references *)

(* A bucket holds occurrences, each of them under one outcome. *)
IsBucket(bucket) ==
  /\ DOMAIN bucket \subseteq Nat /\ IsFiniteSet(Indices(bucket)) /\ Indices(bucket) \subseteq Nat
  /\ \A o \in DOMAIN bucket : bucket[o] \in Seq(Nat) /\ bucket[o] # <<>> /\ IsInjective(bucket[o])
  /\ \A o, p \in DOMAIN bucket : Range(bucket[o]) \cap Range(bucket[p]) # {} => o = p

(* Every index of a bucket has its one outcome. *)
LEMMA OutcomeFacts ==
  ASSUME NEW bucket, IsBucket(bucket)
  PROVE  /\ \A i \in Indices(bucket) : OutcomeOf(bucket, i) \in DOMAIN bucket
                                       /\ i \in Range(bucket[OutcomeOf(bucket, i)])
         /\ \A o \in DOMAIN bucket : \A i \in Range(bucket[o]) :
              i \in Indices(bucket) /\ OutcomeOf(bucket, i) = o
         /\ \A o \in DOMAIN bucket : bucket[o][1] \in Range(bucket[o])
  <1>1. ASSUME NEW i \in Indices(bucket)
        PROVE  OutcomeOf(bucket, i) \in DOMAIN bucket /\ i \in Range(bucket[OutcomeOf(bucket, i)])
    <2>1. \E o \in DOMAIN bucket : i \in Range(bucket[o])  BY DEF Indices
    <2>2. QED  BY <2>1 DEF OutcomeOf
  <1>2. ASSUME NEW o \in DOMAIN bucket, NEW i \in Range(bucket[o])
        PROVE  i \in Indices(bucket) /\ OutcomeOf(bucket, i) = o
    <2>1. i \in Indices(bucket)  BY DEF Indices
    <2>2. OutcomeOf(bucket, i) \in DOMAIN bucket /\ i \in Range(bucket[OutcomeOf(bucket, i)])  BY <1>1, <2>1
    <2>3. Range(bucket[o]) \cap Range(bucket[OutcomeOf(bucket, i)]) # {}  BY <2>2
    <2>4. QED  BY <2>1, <2>2, <2>3 DEF IsBucket
  <1>3. ASSUME NEW o \in DOMAIN bucket
        PROVE  bucket[o][1] \in Range(bucket[o])
    <2>1. bucket[o] \in Seq(Nat) /\ bucket[o] # <<>>  BY DEF IsBucket
    <2>2. 1 \in DOMAIN bucket[o]  BY <2>1
    <2>3. QED  BY <2>2 DEF Range
  <1>4. QED  BY <1>1, <1>2, <1>3

(* The entries of a bucket are as many as its indices. *)
LEMMA TotalFacts ==
  ASSUME NEW bucket, IsBucket(bucket)
  PROVE  Total(bucket) = Cardinality(Indices(bucket))
  <1> DEFINE T == UNION {{o} \X DOMAIN bucket[o] : o \in DOMAIN bucket}
             f == [e \in T |-> bucket[e[1]][e[2]]]
             I == Indices(bucket)
  <1>1. \A e \in T : \E o \in DOMAIN bucket : \E n \in DOMAIN bucket[o] : e = <<o, n>>
    OBVIOUS
  <1>2. \A o \in DOMAIN bucket : \A n \in DOMAIN bucket[o] : <<o, n>> \in T
    OBVIOUS
  <1> HIDE DEF T
  <1>3. \A o \in DOMAIN bucket : \A n \in DOMAIN bucket[o] : bucket[o][n] \in Range(bucket[o])
    BY DEF Range
  <1>4. f \in [T -> I]
    <2>1. ASSUME NEW e \in T  PROVE bucket[e[1]][e[2]] \in I
      <3>1. PICK o \in DOMAIN bucket : \E n \in DOMAIN bucket[o] : e = <<o, n>>  BY <1>1
      <3>2. PICK n \in DOMAIN bucket[o] : e = <<o, n>>  BY <3>1
      <3>3. bucket[o][n] \in Range(bucket[o])  BY <1>3
      <3>4. bucket[o][n] \in I  BY <3>3, OutcomeFacts
      <3>5. QED  BY <3>2, <3>4
    <2>2. QED  BY <2>1
  <1>5. \A d, e \in T : f[d] = f[e] => d = e
    <2>1. ASSUME NEW d \in T, NEW e \in T, f[d] = f[e]  PROVE d = e
      <3>1. PICK o \in DOMAIN bucket : \E n \in DOMAIN bucket[o] : d = <<o, n>>  BY <1>1
      <3>2. PICK n \in DOMAIN bucket[o] : d = <<o, n>>  BY <3>1
      <3>3. PICK p \in DOMAIN bucket : \E m \in DOMAIN bucket[p] : e = <<p, m>>  BY <1>1
      <3>4. PICK m \in DOMAIN bucket[p] : e = <<p, m>>  BY <3>3
      <3>5. bucket[o][n] = bucket[p][m]  BY <2>1, <3>2, <3>4
      <3>6. Range(bucket[o]) \cap Range(bucket[p]) # {}  BY <1>3, <3>5
      <3>7. o = p  BY <3>6 DEF IsBucket
      <3>8. n = m  BY <3>5, <3>7 DEF IsBucket, IsInjective
      <3>9. QED  BY <3>2, <3>4, <3>7, <3>8
    <2>2. QED  BY <2>1
  <1>6. \A i \in I : \E e \in T : f[e] = i
    <2>1. ASSUME NEW i \in I  PROVE \E e \in T : f[e] = i
      <3>1. PICK o \in DOMAIN bucket : i \in Range(bucket[o])  BY DEF Indices
      <3>2. PICK n \in DOMAIN bucket[o] : bucket[o][n] = i  BY <3>1 DEF Range
      <3>3. <<o, n>> \in T  BY <1>2
      <3>4. f[<<o, n>>] = i  BY <3>2, <3>3
      <3>5. QED  BY <3>3, <3>4
    <2>2. QED  BY <2>1
  <1>7. IsFiniteSet(I)  BY DEF IsBucket
  <1> HIDE DEF f, I
  <1>8. f \in Injection(T, I) /\ f \in Surjection(T, I)
    BY <1>4, <1>5, <1>6 DEF Injection, Surjection, IsInjective
  <1>9. Cardinality(T) = Cardinality(I)  BY <1>7, <1>8, FS_Injection
  <1>10. QED  BY <1>9 DEF Total, T, I

(* Passes, outcomes and indices order the occurrences of a bucket. *)
LEMMA SoonerOrders ==
  ASSUME NEW bucket, IsBucket(bucket), NEW other
  PROVE  Orders(Indices(bucket),
                [i \in Indices(bucket) |-> {j \in Indices(bucket) : Sooner(bucket, other, j, i)}])
  <1> DEFINE S == Indices(bucket)
             B == [i \in S |-> {j \in S : Sooner(bucket, other, j, i)}]
             a(i) == OutcomeOf(bucket, i)
             p(i) == Pass(bucket, other, a(i), i)
  <1>1. \A i \in S : i \in Nat /\ a(i) \in Nat /\ p(i) \in Nat
    <2>1. \A i \in S : i \in Nat /\ a(i) \in Nat  BY OutcomeFacts DEF IsBucket
    <2>2. \A i \in S : p(i) \in Nat  BY DEF Pass
    <2>3. QED  BY <2>1, <2>2
  <1>2. \A i, j \in S : Sooner(bucket, other, i, j) <=>
          p(i) < p(j) \/ (p(i) = p(j) /\ (a(i) < a(j) \/ (a(i) = a(j) /\ i < j)))
    BY DEF Sooner
  <1> HIDE DEF a, p, S
  <1>3. B \in [S -> SUBSET S] /\ \A i, j \in S : j \in B[i] <=> Sooner(bucket, other, j, i)
    OBVIOUS
  <1> HIDE DEF B
  <1>4. \A i \in S : ~Sooner(bucket, other, i, i)  BY <1>1, <1>2
  <1>5. \A i, j \in S : i = j \/ Sooner(bucket, other, i, j) \/ Sooner(bucket, other, j, i)
    BY <1>1, <1>2
  <1>6. ASSUME NEW i \in S, NEW j \in S, NEW m \in S,
               Sooner(bucket, other, m, i), Sooner(bucket, other, i, j)
        PROVE  Sooner(bucket, other, m, j)
    BY <1>1, <1>2, <1>6
  <1>7. \A i, j \in S : i \in B[j] => B[i] \subseteq B[j]
    <2>1. ASSUME NEW i \in S, NEW j \in S, i \in B[j], NEW m \in B[i]  PROVE m \in B[j]
      <3>1. m \in S  BY <1>3
      <3>2. QED  BY <1>3, <1>6, <2>1, <3>1
    <2>2. QED  BY <2>1
  <1>8. Orders(S, B)  BY <1>3, <1>4, <1>5, <1>7 DEF Orders
  <1>9. QED  BY <1>8 DEF S, B

Smaller(m, n) == IF m < n THEN m ELSE n

(* A prefix of a sequence of length N. *)
LEMMA PrefixFacts ==
  ASSUME NEW S, NEW N \in Nat, NEW s \in [1 .. N -> S], NEW m \in 0 .. N
  PROVE  /\ SubSeq(s, 1, m) \in Seq(S) /\ Len(SubSeq(s, 1, m)) = m
         /\ DOMAIN SubSeq(s, 1, m) = 1 .. m
         /\ \A n \in 1 .. m : SubSeq(s, 1, m)[n] = s[n]
  <1>1. s \in Seq(S) /\ Len(s) = N  OBVIOUS
  <1>2. SubSeq(s, 1, m) \in Seq(S) /\ Len(SubSeq(s, 1, m)) = m  BY <1>1
  <1>3. \A n \in 1 .. m : SubSeq(s, 1, m)[n] = s[n]  BY <1>1
  <1>4. QED  BY <1>2, <1>3

(* The outcomes of sampled occurrences. *)
SampledOutcomes(bucket, s) == {OutcomeOf(bucket, s[n]) : n \in DOMAIN s}

(* M distinct occurrences with as many side-only outcomes as can be. *)
IsSample(bucket, other, s, M) ==
  /\ M \in Nat /\ s \in Seq(Indices(bucket)) /\ Len(s) = M /\ DOMAIN s = 1 .. M
  /\ \A m, n \in 1 .. M : s[m] = s[n] => m = n
  /\ Cardinality(SampledOutcomes(bucket, s) \ DOMAIN other) =
       Smaller(Cardinality(DOMAIN bucket \ DOMAIN other), EvidenceSampleLimit)

(* The first occurrences of side-only outcomes take the first places, so   *)
(* samples show as many of these outcomes as the limit admits.             *)
LEMMA SampleFacts ==
  ASSUME NEW bucket, IsBucket(bucket), IsFiniteSet(DOMAIN bucket), NEW other
  PROVE  IsSample(bucket, other, SampleEventIndices(bucket, other),
                  Smaller(Cardinality(Indices(bucket)), EvidenceSampleLimit))
  <1>0. PICK s, only, M : /\ s = SampleEventIndices(bucket, other) /\ only = DOMAIN bucket \ DOMAIN other
                          /\ M = Smaller(Cardinality(Indices(bucket)), EvidenceSampleLimit)
    OBVIOUS
  <1> DEFINE S == Indices(bucket)
             B == [i \in S |-> {j \in S : Sooner(bucket, other, j, i)}]
             N == Cardinality(S)
             met == InOrder(S, B)
             a(i) == OutcomeOf(bucket, i)
             first == {i \in S : Pass(bucket, other, a(i), i) = 1}
             F == Cardinality(first)
             O == {a(s[n]) : n \in 1 .. M} \ DOMAIN other
             L == EvidenceSampleLimit
  <1>1. IsFiniteSet(S) /\ L \in Nat  BY ComparisonAssumption DEF IsBucket
  <1>2. /\ N \in Nat /\ met \in [1 .. N -> S]
        /\ \A n \in 1 .. N : Cardinality(B[met[n]]) = n - 1
        /\ \A m, n \in 1 .. N : met[m] = met[n] => m = n
        /\ \A x \in S : \E n \in 1 .. N : met[n] = x
    <2>1. Orders(S, B)  BY SoonerOrders
    <2> HIDE DEF S, B
    <2>2. QED  BY <1>1, <2>1, InOrderFacts
  <1>3. s = SubSeq(met, 1, M)  BY <1>0 DEF SampleEventIndices, Smaller
  <1>4. M \in Nat /\ M \in 0 .. N /\ M <= L /\ (N <= L => M = N) /\ (N > L => M = L)
    BY <1>0, <1>1, <1>2 DEF Smaller
  <1>5. \A i \in S : a(i) \in DOMAIN bucket /\ i \in Range(bucket[a(i)])
    BY OutcomeFacts
  <1>6. /\ \A o \in DOMAIN bucket : bucket[o][1] \in S /\ a(bucket[o][1]) = o
        /\ \A i \in first : i \in S /\ a(i) \in only /\ i = bucket[a(i)][1]
        /\ \A o \in only : bucket[o][1] \in first
    <2>1. \A o \in DOMAIN bucket : bucket[o][1] \in S /\ a(bucket[o][1]) = o  BY OutcomeFacts
    <2>2. \A i \in first : i \in S /\ a(i) \in only /\ i = bucket[a(i)][1]  BY <1>0, <1>5 DEF Pass
    <2>3. \A o \in only : bucket[o][1] \in first  BY <1>0, <2>1 DEF Pass
    <2>4. QED  BY <2>1, <2>2, <2>3
  <1>7. ASSUME NEW x \in S
        PROVE  /\ x \in first => B[x] \subseteq first /\ x \notin B[x]
               /\ x \notin first => first \subseteq B[x]
               /\ B[x] \in SUBSET S
    <2>1. Orders(S, B)  BY SoonerOrders
    <2>2. x \notin B[x]  BY <2>1 DEF Orders
    <2>3. ASSUME NEW y \in S
          PROVE  /\ Sooner(bucket, other, y, x) /\ x \in first => y \in first
                 /\ y \in first /\ x \notin first => Sooner(bucket, other, y, x)
      <3>1. /\ Pass(bucket, other, a(x), x) \in {1, 2, 3}
            /\ Pass(bucket, other, a(y), y) \in {1, 2, 3}
        BY DEF Pass
      <3>2. Sooner(bucket, other, y, x) =>
              Pass(bucket, other, a(y), y) <= Pass(bucket, other, a(x), x)
        BY <3>1 DEF Sooner
      <3>3. Pass(bucket, other, a(y), y) < Pass(bucket, other, a(x), x) => Sooner(bucket, other, y, x)
        BY DEF Sooner
      <3>4. QED  BY <3>1, <3>2, <3>3
    <2>4. \A y \in first : y \in S  OBVIOUS
    <2>5. B[x] = {y \in S : Sooner(bucket, other, y, x)}  OBVIOUS
    <2> HIDE DEF B, S, first
    <2>6. QED  BY <2>2, <2>3, <2>4, <2>5
  <1>8. first \in SUBSET S  OBVIOUS
  <1> HIDE DEF S, B, N, met, a, first, L
  <1>9. IsFiniteSet(first) /\ F \in Nat /\ F <= N
    <2>1. IsFiniteSet(first) /\ F <= N  BY <1>1, <1>8, FS_Subset DEF N
    <2>2. QED  BY <2>1, FS_CardinalityType
  <1>10. F = Cardinality(only) /\ IsFiniteSet(only)
    <2> DEFINE f == [i \in first |-> a(i)]
    <2>1. f \in [first -> only]  BY <1>6
    <2>2. \A x, y \in first : f[x] = f[y] => x = y
      <3>1. ASSUME NEW x \in first, NEW y \in first, f[x] = f[y]  PROVE x = y
        <4>1. x = bucket[a(x)][1] /\ y = bucket[a(y)][1]  BY <1>6
        <4>2. a(x) = a(y)  BY <3>1
        <4>3. QED  BY <4>1, <4>2
      <3>2. QED  BY <3>1
    <2>3. \A o \in only : \E x \in first : f[x] = o
      <3>1. ASSUME NEW o \in only  PROVE \E x \in first : f[x] = o
        <4>1. bucket[o][1] \in first /\ a(bucket[o][1]) = o  BY <1>0, <1>6
        <4>2. f[bucket[o][1]] = o  BY <4>1
        <4>3. QED  BY <4>1, <4>2
      <3>2. QED  BY <3>1
    <2>4. IsFiniteSet(only)  BY <1>0, FS_Difference
    <2> HIDE DEF f
    <2>5. f \in Injection(first, only) /\ f \in Surjection(first, only)
      BY <2>1, <2>2, <2>3 DEF Injection, Surjection, IsInjective
    <2>6. QED  BY <2>4, <2>5, FS_Injection
  <1>11. ASSUME NEW n \in 1 .. N
         PROVE  met[n] \in first <=> n <= F
    <2>1. met[n] \in S /\ Cardinality(B[met[n]]) = n - 1 /\ n \in Nat  BY <1>2
    <2>2. PICK x \in S : x = met[n]  BY <2>1
    <2>3. IsFiniteSet(B[x]) /\ Cardinality(B[x]) \in Nat
      BY <1>1, <1>7, FS_Subset, FS_CardinalityType
    <2>4. CASE x \in first
      <3>1. B[x] \in SUBSET first /\ B[x] # first  BY <1>7, <2>4
      <3>2. Cardinality(B[x]) <= F /\ Cardinality(B[x]) # F  BY <1>9, <3>1, FS_Subset
      <3>3. n - 1 < F  BY <1>9, <2>1, <2>2, <2>3, <3>2
      <3>4. QED  BY <1>9, <2>1, <2>2, <2>4, <3>3
    <2>5. CASE x \notin first
      <3>1. first \in SUBSET B[x]  BY <1>7, <2>5
      <3>2. F <= Cardinality(B[x])  BY <2>3, <3>1, FS_Subset
      <3>3. F <= n - 1  BY <2>1, <2>2, <3>2
      <3>4. QED  BY <1>9, <2>1, <2>2, <2>5, <3>3
    <2>6. QED  BY <2>4, <2>5
  <1>12. /\ s \in Seq(S) /\ Len(s) = M /\ DOMAIN s = 1 .. M
         /\ \A n \in 1 .. M : s[n] = met[n] /\ n \in 1 .. N
    <2>1. \A n \in 1 .. M : n \in 1 .. N  BY <1>2, <1>4
    <2>2. QED  BY <1>2, <1>3, <1>4, <2>1, PrefixFacts
  <1>13. \A m, n \in 1 .. M : s[m] = s[n] => m = n  BY <1>2, <1>12
  <1>14. O \subseteq only
    <2>1. \A n \in 1 .. M : s[n] \in S  BY <1>2, <1>12
    <2>2. QED  BY <1>0, <1>5, <2>1
  <1>15. CASE F <= L
    <2>1. F <= M  BY <1>1, <1>2, <1>4, <1>9, <1>15
    <2>2. ASSUME NEW o \in only  PROVE o \in O
      <3>1. bucket[o][1] \in first /\ bucket[o][1] \in S /\ a(bucket[o][1]) = o  BY <1>0, <1>6, <1>8
      <3>2. PICK n \in 1 .. N : met[n] = bucket[o][1]  BY <1>2, <3>1
      <3>3. n <= F  BY <1>11, <3>1, <3>2
      <3>4. n \in 1 .. M  BY <1>2, <1>4, <1>9, <2>1, <3>3
      <3>5. a(s[n]) = o  BY <1>12, <3>1, <3>2, <3>4
      <3>6. QED  BY <1>0, <3>4, <3>5
    <2>3. O = only  BY <1>14, <2>2
    <2>4. Smaller(Cardinality(only), L) = F  BY <1>1, <1>9, <1>10, <1>15 DEF Smaller
    <2>5. Cardinality(O) = Smaller(Cardinality(only), L)  BY <1>10, <2>3, <2>4
    <2>6. SampledOutcomes(bucket, s) \ DOMAIN other = O  BY <1>12 DEF SampledOutcomes, a
    <2> HIDE DEF O
    <2>7. QED  BY <1>0, <1>4, <1>12, <1>13, <2>5, <2>6 DEF S, L, IsSample
  <1>16. CASE F > L
    <2>1. M = L /\ M < F  BY <1>1, <1>2, <1>4, <1>9, <1>16
    <2>2. ASSUME NEW n \in 1 .. M  PROVE s[n] \in first /\ a(s[n]) \in only
      <3>1. n <= F /\ n \in 1 .. N /\ s[n] = met[n]  BY <1>4, <1>9, <1>12, <2>1
      <3>2. QED  BY <1>6, <1>11, <3>1
    <2> DEFINE f == [n \in 1 .. M |-> a(s[n])]
    <2>3. f \in [1 .. M -> O] /\ \A o \in O : \E n \in 1 .. M : f[n] = o  BY <1>0, <2>2
    <2>4. \A m, n \in 1 .. M : f[m] = f[n] => m = n
      <3>1. ASSUME NEW m \in 1 .. M, NEW n \in 1 .. M, f[m] = f[n]  PROVE m = n
        <4>1. s[m] = bucket[a(s[m])][1] /\ s[n] = bucket[a(s[n])][1]  BY <1>6, <2>2
        <4>2. a(s[m]) = a(s[n])  BY <3>1
        <4>3. QED  BY <1>13, <4>1, <4>2
      <3>2. QED  BY <3>1
    <2> HIDE DEF f, O
    <2>5. f \in Injection(1 .. M, O) /\ f \in Surjection(1 .. M, O)
      BY <2>3, <2>4 DEF Injection, Surjection, IsInjective
    <2>6. IsFiniteSet(1 .. M) /\ Cardinality(1 .. M) = M
      BY <1>4, CountFacts
    <2>7. Cardinality(O) = Cardinality(1 .. M)  BY <2>5, <2>6, FS_Surjection
    <2>8. Smaller(Cardinality(only), L) = L  BY <1>1, <1>9, <1>10, <1>16 DEF Smaller
    <2>9. Cardinality(O) = Smaller(Cardinality(only), L)  BY <2>1, <2>6, <2>7, <2>8
    <2>10. SampledOutcomes(bucket, s) \ DOMAIN other = O  BY <1>12 DEF SampledOutcomes, a, O
    <2>11. QED  BY <1>0, <1>4, <1>12, <1>13, <2>9, <2>10 DEF S, L, IsSample
  <1>17. QED  BY <1>1, <1>9, <1>15, <1>16

(* The bucket of a key holds the occurrences that are shown, all of them,  *)
(* under the outcomes they had.                                            *)
LEMMA OccurrenceFacts ==
  ASSUME NEW run, run.events \in Seq(Rows), NEW k \in Keys, NEW b, b = Bucket(run, k)
  PROVE  /\ IsBucket(b) /\ IsFiniteSet(DOMAIN b) /\ DOMAIN b = Seen(run, k)
         /\ Shown(run) => Indices(b) = {i \in DOMAIN run.events : run.events[i].key = k}
         /\ ~Shown(run) => b = <<>>
         /\ \A i \in Indices(b) : /\ i \in DOMAIN run.events /\ run.events[i].key = k
                                  /\ OutcomeOf(b, i) = run.events[i].outcome
  <1> DEFINE D == DOMAIN run.events
             Occ(o) == {i \in D : run.events[i].key = k /\ run.events[i].outcome = o}
  <1>1. D \in SUBSET Nat /\ IsFiniteSet(D)
    <2>1. PICK n \in Nat : D = 1 .. n  OBVIOUS
    <2>2. QED  BY <2>1, CountFacts
  <1>2. DOMAIN b = Seen(run, k)  BY AggregateFacts
  <1>3. \A i \in D : run.events[i].outcome \in Nat
    <2>1. \A i \in D : run.events[i] \in Rows  OBVIOUS
    <2>2. \A r \in Rows : r.outcome \in Nat
      <3>1. Outcomes \subseteq Nat /\ Success \in Nat  BY ComparisonAssumption
      <3>2. \A r \in Events : r.outcome \in Nat  BY <3>1 DEF Events
      <3>3. ExitRow.outcome \in Nat  BY <3>1 DEF ExitRow
      <3>4. QED  BY <3>2, <3>3 DEF Rows
    <2>3. QED  BY <2>1, <2>2
  <1>4. \A o \in DOMAIN b : b[o] = Occurrences(run, k, o)
    <2>1. CASE k \in DOMAIN Aggregate(run)
      <3>1. b = Aggregate(run)[k]  BY <2>1 DEF Bucket
      <3>2. QED  BY <2>1, <3>1 DEF Aggregate
    <2>2. CASE k \notin DOMAIN Aggregate(run)
      <3>1. b = <<>>  BY <2>2 DEF Bucket
      <3>2. QED  BY <3>1
    <2>3. QED  BY <2>1, <2>2
  <1>5. ASSUME NEW o
        PROVE  Occ(o) \in SUBSET Nat /\ IsFiniteSet(Occ(o)) /\ Occurrences(run, k, o) = Sorted(Occ(o))
    <2>1. Occ(o) \in SUBSET D  OBVIOUS
    <2>2. Occurrences(run, k, o) = Sorted(Occ(o))  BY DEF Occurrences
    <2> HIDE DEF Occ, D
    <2>3. QED  BY <1>1, <2>1, <2>2, FS_Subset
  <1>6. \A o \in Seen(run, k) : Occ(o) # {}  BY DEF Seen, Side
  <1>7. \A o : \A i \in Occ(o) : i \in D /\ run.events[i].key = k /\ run.events[i].outcome = o
    OBVIOUS
  <1>8. \A i \in D : run.events[i].key = k => i \in Occ(run.events[i].outcome)
    OBVIOUS
  <1> HIDE DEF Occ
  <1>9. ASSUME NEW o \in DOMAIN b
        PROVE  b[o] \in Seq(Nat) /\ b[o] # <<>> /\ IsInjective(b[o]) /\ Range(b[o]) = Occ(o)
    <2>1. PICK q, T : q = Sorted(T) /\ q = b[o] /\ T = Occ(o)  BY <1>4, <1>5
    <2>a. T \in SUBSET Nat /\ IsFiniteSet(T)  BY <1>5, <2>1
    <2>2. /\ q \in Seq(Nat)
          /\ \A i, j \in DOMAIN q : i < j => q[i] < q[j]
          /\ \A x : x \in T <=> \E i \in DOMAIN q : q[i] = x
      <3>1. /\ Sorted(T) \in Seq(Nat)
            /\ \A i, j \in DOMAIN Sorted(T) : i < j => Sorted(T)[i] < Sorted(T)[j]
            /\ \A x : x \in T <=> \E i \in DOMAIN Sorted(T) : Sorted(T)[i] = x
        BY <2>a, SortedFacts
      <3>2. q = Sorted(T)  BY <2>1
      <3>3. QED  BY <3>1, <3>2, Zenon
    <2>3. Range(q) = Occ(o)  BY <2>1, <2>2 DEF Range
    <2>4. q # <<>>  BY <1>2, <1>6, <2>1, <2>2
    <2>5. IsInjective(q)
      <3>1. ASSUME NEW i \in DOMAIN q, NEW j \in DOMAIN q, q[i] = q[j]  PROVE i = j
        <4>1. i \in Nat /\ j \in Nat /\ q[i] \in Nat /\ q[j] \in Nat  BY <2>2
        <4>2. ~(i < j) /\ ~(j < i)  BY <2>2, <3>1, <4>1
        <4>3. QED  BY <4>1, <4>2
      <3>2. QED  BY <3>1 DEF IsInjective
    <2>6. QED  BY <2>1, <2>2, <2>3, <2>4, <2>5
  <1>10. \A i \in Indices(b) : \E o \in DOMAIN b : i \in Occ(o)  BY <1>9 DEF Indices
  <1>11. \A o \in DOMAIN b : Occ(o) \subseteq Indices(b)  BY <1>9 DEF Indices
  <1>12. Indices(b) \in SUBSET D  BY <1>7, <1>10
  <1>13. IsBucket(b)
    <2>1. ASSUME NEW o \in DOMAIN b, NEW p \in DOMAIN b, Range(b[o]) \cap Range(b[p]) # {}
          PROVE  o = p
      <3>1. PICK i : i \in Occ(o) /\ i \in Occ(p)  BY <1>9, <2>1
      <3>2. QED  BY <1>7, <3>1
    <2>2. DOMAIN b \subseteq Nat
      <3>1. \A o \in DOMAIN b : \E i \in Occ(o) : TRUE  BY <1>2, <1>6
      <3>2. QED  BY <1>3, <1>7, <3>1
    <2>3. IsFiniteSet(Indices(b)) /\ Indices(b) \subseteq Nat  BY <1>1, <1>12, FS_Subset
    <2>4. QED  BY <1>9, <2>1, <2>2, <2>3 DEF IsBucket
  <1>14. ASSUME NEW i \in Indices(b)
         PROVE  i \in D /\ run.events[i].key = k /\ OutcomeOf(b, i) = run.events[i].outcome
    <2>1. PICK o \in DOMAIN b : i \in Occ(o)  BY <1>10
    <2>2. i \in Range(b[o])  BY <1>9, <2>1
    <2>3. OutcomeOf(b, i) = o  BY <1>13, <2>2, OutcomeFacts
    <2>4. QED  BY <1>7, <2>1, <2>3
  <1>15. ASSUME Shown(run)
         PROVE  Indices(b) = {i \in D : run.events[i].key = k}
    <2>1. ASSUME NEW i \in D, run.events[i].key = k  PROVE i \in Indices(b)
      <3>1. run.events[i].outcome \in Seen(run, k)  BY <1>15, <2>1 DEF Seen, Side
      <3>2. QED  BY <1>2, <1>8, <1>11, <2>1, <3>1
    <2>2. QED  BY <1>14, <2>1
  <1>16. ASSUME ~Shown(run)
         PROVE  b = <<>>
    <2>1. DOMAIN Aggregate(run) = {}  BY <1>16 DEF Aggregate, Shown
    <2>2. QED  BY <2>1 DEF Bucket
  <1>17. IsFiniteSet(DOMAIN b)
    <2> DEFINE f == [i \in Indices(b) |-> OutcomeOf(b, i)]
    <2>1. f \in [Indices(b) -> DOMAIN b]  BY <1>13, OutcomeFacts
    <2>2. ASSUME NEW o \in DOMAIN b  PROVE \E i \in Indices(b) : f[i] = o
      <3>1. b[o][1] \in Indices(b) /\ OutcomeOf(b, b[o][1]) = o  BY <1>13, OutcomeFacts
      <3>2. QED  BY <3>1
    <2> HIDE DEF f
    <2>3. f \in Surjection(Indices(b), DOMAIN b)  BY <2>1, <2>2 DEF Surjection
    <2>4. QED  BY <1>13, <2>3, FS_Surjection DEF IsBucket
  <1>18. QED  BY <1>2, <1>13, <1>14, <1>15, <1>16, <1>17

(* What the change of a key shows of one side. *)
LEMMA SideBacked ==
  ASSUME NEW run, run.events \in Seq(Rows), NEW k \in Keys, NEW b, b = Bucket(run, k), NEW other,
         NEW s, s = SampleEventIndices(b, other), NEW map, map = NormalizedMapping(run, b, s),
         NEW c, c.key = k
  PROVE  /\ Shown(run) => Explains(run, c, s, DOMAIN b, DOMAIN other)
         /\ OutcomeReport => Referred(run, c, map, s)
  <1> DEFINE I == Indices(b)
             M == Smaller(Cardinality(I), EvidenceSampleLimit)
  <1>1. /\ IsBucket(b) /\ IsFiniteSet(DOMAIN b)
        /\ Shown(run) => I = {i \in DOMAIN run.events : run.events[i].key = k}
        /\ ~Shown(run) => b = <<>>
        /\ \A i \in I : /\ i \in DOMAIN run.events /\ run.events[i].key = k
                        /\ OutcomeOf(b, i) = run.events[i].outcome
    BY OccurrenceFacts
  <1>2. /\ M \in Nat /\ s \in Seq(I) /\ Len(s) = M /\ DOMAIN s = 1 .. M
        /\ \A m, n \in 1 .. M : s[m] = s[n] => m = n
        /\ Cardinality(SampledOutcomes(b, s) \ DOMAIN other) =
             Smaller(Cardinality(DOMAIN b \ DOMAIN other), EvidenceSampleLimit)
    <2>1. IsSample(b, other, s, M)  BY <1>1, SampleFacts
    <2> HIDE DEF M
    <2>2. QED  BY <2>1 DEF IsSample
  <1> HIDE DEF I, M
  <1>3. \A n \in 1 .. M : s[n] \in I  BY <1>2
  <1>4. ASSUME Shown(run)
        PROVE  Explains(run, c, s, DOMAIN b, DOMAIN other)
    <2>1. IsInjective(s)  BY <1>2 DEF IsInjective
    <2>2. \A i \in DOMAIN s : run.events[s[i]].key = c.key  BY <1>1, <1>2, <1>3
    <2>3. I = {i \in DOMAIN run.events : run.events[i].key = c.key}  BY <1>1, <1>4
    <2>4. Len(s) = IF Cardinality(I) < EvidenceSampleLimit THEN Cardinality(I) ELSE EvidenceSampleLimit
      BY <1>2 DEF M, Smaller
    <2>5. {run.events[s[i]].outcome : i \in DOMAIN s} = SampledOutcomes(b, s)
      <3>1. \A n \in DOMAIN s : OutcomeOf(b, s[n]) = run.events[s[n]].outcome  BY <1>1, <1>2, <1>3
      <3>2. QED  BY <3>1 DEF SampledOutcomes
    <2>6. Cardinality({run.events[s[i]].outcome : i \in DOMAIN s} \ DOMAIN other) =
            Smaller(Cardinality(DOMAIN b \ DOMAIN other), EvidenceSampleLimit)
      BY <1>2, <2>5
    <2>7. QED  BY <2>1, <2>2, <2>3, <2>4, <2>6 DEF Explains, Smaller
  <1>5. ASSUME OutcomeReport
        PROVE  Referred(run, c, map, s)
    <2>1. CASE run.storage = "unfinalized"
      <3>1. b = <<>>  BY <1>1, <1>5, <2>1 DEF Shown
      <3>2. I = {}  BY <3>1 DEF I, Indices
      <3>3. Cardinality(I) = 0  BY <3>2, FS_EmptySet
      <3>4. M = 0  BY <3>3, ComparisonAssumption DEF M, Smaller
      <3>5. s = <<>>  BY <1>2, <3>4
      <3>6. map.source = "Withheld" /\ map.references = {} /\ map.samples = <<>>
        BY <2>1 DEF NormalizedMapping, MetadataMapping, NoMapping
      <3>7. QED  BY <2>1, <3>5, <3>6 DEF Referred
    <2>2. CASE run.storage # "unfinalized"
      <3>1. /\ map.samples = s /\ map.references = I /\ map.count = Total(b)
            /\ map.omitted = Total(b) - Len(s)
        BY <2>2 DEF NormalizedMapping, I
      <3>2. Total(b) = Cardinality(I)  BY <1>1, TotalFacts DEF I
      <3>3. Range(s) \subseteq I  BY <1>2, <1>3 DEF Range
      <3>4. Shown(run)  BY <2>2 DEF Shown
      <3>5. QED  BY <1>1, <2>2, <3>1, <3>2, <3>3, <3>4 DEF Referred
    <2>3. QED  BY <2>1, <2>2
  <1>6. QED  BY <1>4, <1>5

(* What a change must show before the end: samples and references of an    *)
(* observation, references of the metadata, the target's of its exit.      *)
ChangeFields ==
  {"kind", "key", "left", "right", "leftSamples", "rightSamples", "leftMap", "rightMap"}
Backed(c) ==
  /\ DOMAIN c = ChangeFields
  /\ c.key # 0 => /\ Shown(left) => Explains(left, c, c.leftSamples, c.left, c.right)
                  /\ Shown(right) => Explains(right, c, c.rightSamples, c.right, c.left)
  /\ c.kind = "ExitStatus" =>
       /\ c.key = 0
       /\ OutcomeReport => c.leftMap = TargetMapping(left) /\ c.rightMap = TargetMapping(right)
  /\ c.kind # "ExitStatus" /\ OutcomeReport =>
       /\ Referred(left, c, c.leftMap, c.leftSamples)
       /\ Referred(right, c, c.rightMap, c.rightSamples)

Backing == at = "merge" => \A i \in DOMAIN report.changes : Backed(report.changes[i])

(* It depends on the inputs and the format only. *)
LEMMA BackedKept ==
  ASSUME left' = left, right' = right, format' = format
  PROVE  \A c : Backed(c)' <=> Backed(c)
  <1>1. (OutcomeReport' <=> OutcomeReport) /\ \A run : Shown(run)' <=> Shown(run)
    BY DEF OutcomeReport, Shown
  <1>2. (Shown(left)' <=> Shown(left)) /\ (Shown(right)' <=> Shown(right))
    BY <1>1 DEF Shown
  <1>3. TargetMapping(left)' = TargetMapping(left) /\ TargetMapping(right)' = TargetMapping(right)
    BY DEF TargetMapping, MetadataMapping
  <1>4. \A c, s, mine, other :
          /\ Explains(left, c, s, mine, other)' <=> Explains(left, c, s, mine, other)
          /\ Explains(right, c, s, mine, other)' <=> Explains(right, c, s, mine, other)
          /\ Referred(left, c, mine, s)' <=> Referred(left, c, mine, s)
          /\ Referred(right, c, mine, s)' <=> Referred(right, c, mine, s)
    BY DEF Explains, Referred
  <1>5. QED  BY <1>1, <1>2, <1>3, <1>4 DEF Backed

(* Metadata refer to nothing, and nothing of them is sampled. *)
LEMMA MetadataReferred ==
  ASSUME NEW run, NEW c, c.key = 0
  PROVE  Referred(run, c, MetadataMapping(run), <<>>)
  <1>1. Cardinality({}) = 0 /\ Range(<<>>) = {} /\ Len(<<>>) = 0
    BY FS_EmptySet DEF Range
  <1>2. QED  BY <1>1 DEF Referred, MetadataMapping, NoMapping

(* The changes of the invocation, the target's end and the capture. *)
LEMMA MetadataBacked ==
  \A i \in DOMAIN MetadataChanges : Backed(MetadataChanges[i])
  <1> DEFINE Facts(m) == <<m.state, m.completeness, m.warned>>
             Selected(m) == IF m.environment = "none" THEN "unselected" ELSE m.environment
             When(differs, change) == IF differs THEN <<change>> ELSE <<>>
             c1 == MetadataChange("ExitStatus", TargetExit(left.meta), TargetExit(right.meta))
             c2 == MetadataChange("InitialWorkingDirectory", left.meta.cwd, right.meta.cwd)
             c3 == MetadataChange("CommandArguments", left.meta.command, right.meta.command)
             c4 == MetadataChange("CaptureCompleteness", Facts(left.meta), Facts(right.meta))
             c5 == MetadataChange("SelectedStartupEnvironment", Selected(left.meta), Selected(right.meta))
             w1 == When(TargetExit(left.meta) # TargetExit(right.meta), c1)
             w2 == When(left.meta.cwd # right.meta.cwd, c2)
             w3 == When(left.meta.command # right.meta.command, c3)
             w4 == When(Facts(left.meta) # Facts(right.meta), c4)
             w5 == When(Selected(left.meta) # Selected(right.meta), c5)
             S == {c1, c2, c3, c4, c5}
  <1>1. MetadataChanges = w1 \o w2 \o w3 \o w4 \o w5
    BY DEF MetadataChanges
  <1>2. ASSUME NEW kind \in {"InitialWorkingDirectory", "CommandArguments",
                             "CaptureCompleteness", "SelectedStartupEnvironment"},
               NEW l, NEW r
        PROVE  Backed(MetadataChange(kind, l, r))
    <2>1. PICK c : c = MetadataChange(kind, l, r)  OBVIOUS
    <2>2. /\ DOMAIN c = ChangeFields /\ c.key = 0 /\ c.kind = kind
          /\ c.leftSamples = <<>> /\ c.rightSamples = <<>>
          /\ OutcomeReport => c.leftMap = MetadataMapping(left) /\ c.rightMap = MetadataMapping(right)
      BY <2>1 DEF MetadataChange, Change, ChangeFields
    <2>3. Referred(left, c, MetadataMapping(left), <<>>) /\ Referred(right, c, MetadataMapping(right), <<>>)
      BY <2>2, MetadataReferred
    <2>4. Backed(c)  BY <2>2, <2>3 DEF Backed
    <2>5. QED  BY <2>1, <2>4
  <1>3. Backed(c1)
    <2>1. /\ DOMAIN c1 = ChangeFields /\ c1.key = 0 /\ c1.kind = "ExitStatus"
          /\ OutcomeReport => c1.leftMap = TargetMapping(left) /\ c1.rightMap = TargetMapping(right)
      BY DEF MetadataChange, Change, ChangeFields
    <2> HIDE DEF c1
    <2>2. QED  BY <2>1 DEF Backed
  <1>4. Backed(c2) /\ Backed(c3) /\ Backed(c4) /\ Backed(c5)
    BY <1>2
  <1>5. w1 \in Seq(S) /\ w2 \in Seq(S) /\ w3 \in Seq(S) /\ w4 \in Seq(S) /\ w5 \in Seq(S)
    <2>1. c1 \in S /\ c2 \in S /\ c3 \in S /\ c4 \in S /\ c5 \in S  OBVIOUS
    <2> HIDE DEF c1, c2, c3, c4, c5, S, Facts, Selected
    <2>2. <<>> \in Seq(S) /\ \A c \in S : <<c>> \in Seq(S)  OBVIOUS
    <2>3. QED  BY <2>1, <2>2
  <1>6. \A c \in S : Backed(c)
    <2> HIDE DEF c1, c2, c3, c4, c5
    <2>1. QED  BY <1>3, <1>4
  <1> HIDE DEF w1, w2, w3, w4, w5, S
  <1>7. w1 \o w2 \o w3 \o w4 \o w5 \in Seq(S)
    <2>1. w1 \o w2 \in Seq(S)  BY <1>5
    <2>2. w1 \o w2 \o w3 \in Seq(S)  BY <1>5, <2>1
    <2>3. w1 \o w2 \o w3 \o w4 \in Seq(S)  BY <1>5, <2>2
    <2>4. QED  BY <1>5, <2>3
  <1>8. PICK m : m = MetadataChanges /\ m \in Seq(S)  BY <1>1, <1>7
  <1>9. \A i \in DOMAIN m : m[i] \in S  BY <1>8
  <1>10. QED  BY <1>6, <1>8, <1>9

(* The change of a merged key. *)
LEMMA ObservationBacked ==
  ASSUME RowsTyped, NEW k \in Keys, NEW l, NEW r, l = Bucket(left, k), r = Bucket(right, k),
         DOMAIN l # DOMAIN r
  PROVE  \E c : ObservationChange(k, l, r) = <<c>> /\ Backed(c)
  <1>1. PICK c : ObservationChange(k, l, r) = <<c>> /\
                 c = Change(ChangeKind(k, l, r), k, DOMAIN l, DOMAIN r,
                            SampleEventIndices(l, r), SampleEventIndices(r, l),
                            NormalizedMapping(left, l, SampleEventIndices(l, r)),
                            NormalizedMapping(right, r, SampleEventIndices(r, l)))
    BY DEF ObservationChange
  <1>2. PICK s, t : s = SampleEventIndices(l, r) /\ t = SampleEventIndices(r, l)  OBVIOUS
  <1>3. PICK lm, rm : lm = NormalizedMapping(left, l, s) /\ rm = NormalizedMapping(right, r, t)  OBVIOUS
  <1>4. c = Change(ChangeKind(k, l, r), k, DOMAIN l, DOMAIN r, s, t, lm, rm)  BY <1>1, <1>2, <1>3
  <1>5. /\ DOMAIN c = ChangeFields /\ c.key = k /\ c.kind = ChangeKind(k, l, r)
        /\ c.left = DOMAIN l /\ c.right = DOMAIN r /\ c.leftSamples = s /\ c.rightSamples = t
        /\ OutcomeReport => c.leftMap = lm /\ c.rightMap = rm
    BY <1>4 DEF Change, ChangeFields
  <1>6. ChangeKind(k, l, r) # "ExitStatus"
    BY ComparisonAssumption DEF ChangeKind, Keys
  <1>7. left.events \in Seq(Rows) /\ right.events \in Seq(Rows)  BY DEF RowsTyped
  <1>8. /\ Shown(left) => Explains(left, c, s, DOMAIN l, DOMAIN r)
        /\ OutcomeReport => Referred(left, c, lm, s)
    BY <1>2, <1>3, <1>5, <1>7, SideBacked
  <1>9. /\ Shown(right) => Explains(right, c, t, DOMAIN r, DOMAIN l)
        /\ OutcomeReport => Referred(right, c, rm, t)
    BY <1>2, <1>3, <1>5, <1>7, SideBacked
  <1>10. Backed(c)  BY <1>5, <1>6, <1>8, <1>9 DEF Backed
  <1>11. QED  BY <1>1, <1>10

(* The exit refers to the same event with and without the mapping. *)
LEMMA TargetReferred ==
  ASSUME NEW run, CheckedRun(run), OutcomeReport, NEW c, c.key = 0
  PROVE  Referred(run, c, TargetMapping(run), TargetSamples(run))
  <1>1. CASE run.storage = "verified" /\ run.meta.schema = 4 /\ run.meta.provenance
    <2>1. PICK e : e = run.meta.events  OBVIOUS
    <2>2. /\ TargetSamples(run) = <<e>>
          /\ TargetMapping(run) = [source |-> "TargetProvenance", count |-> 1, samples |-> <<e>>,
                                   omitted |-> 0, references |-> {e}]
      BY <1>1, <2>1 DEF TargetSamples, TargetMapping
    <2>3. Cardinality({e}) = 1 /\ Range(<<e>>) \subseteq {e} /\ Len(<<e>>) = 1
      <3>1. Cardinality({e}) = 1  BY FS_Singleton
      <3>2. DOMAIN <<e>> = 1 .. 1 /\ <<e>>[1] = e /\ Len(<<e>>) = 1  OBVIOUS
      <3>3. \A i \in 1 .. 1 : i = 1  OBVIOUS
      <3>4. Range(<<e>>) \subseteq {e}  BY <3>2, <3>3 DEF Range
      <3>5. QED  BY <3>1, <3>2, <3>4
    <2>4. QED  BY <1>1, <2>2, <2>3 DEF Referred
  <1>2. CASE ~(run.storage = "verified" /\ run.meta.schema = 4 /\ run.meta.provenance)
    <2>1. TargetMapping(run) = MetadataMapping(run)  BY <1>2 DEF TargetMapping
    <2>2. TargetSamples(run) = <<>>
      <3>1. CASE run.storage # "verified"  BY <3>1 DEF TargetSamples
      <3>2. CASE run.storage = "verified"
        <4>1. ValidateComparisonRun(run)  BY DEF CheckedRun
        <4>2. EvidenceValid(run.meta)  BY <3>2, <4>1, VerifiedFacts
        <4>3. ~run.meta.provenance  BY <1>2, <3>2, <4>2 DEF EvidenceValid
        <4>4. QED  BY <4>3 DEF TargetSamples
      <3>3. QED  BY <3>1, <3>2
    <2>3. QED  BY <2>1, <2>2, MetadataReferred
  <1>3. QED  BY <1>1, <1>2

(* What the final changes show. *)
LEMMA FinishBacked ==
  ASSUME ComparisonInv, Merging, Backing, Finish
  PROVE  SamplesExplain' /\ ReferencesComplete'
  <1>1. at = "merge" /\ left' = left /\ right' = right /\ format' = format
    BY DEF Finish
  <1>2. Settled /\ ReportShape /\ CheckedRun(left) /\ CheckedRun(right)
    BY <1>1 DEF Merging, ComparisonInv, Gathered
  <1>3. \E N \in Nat : \E p \in [1 .. N -> 1 .. N] : Permuted(N, p)
    BY <1>2, FinalChanges DEF Settled
  <1>4. PICK N \in Nat : \E p \in [1 .. N -> 1 .. N] : Permuted(N, p)  BY <1>3
  <1>5. PICK p \in [1 .. N -> 1 .. N] : Permuted(N, p)  BY <1>4
  <1>6. /\ DOMAIN report.changes = 1 .. N /\ DOMAIN report'.changes = 1 .. N
        /\ \A n \in 1 .. N : report'.changes[n] = FinalChange(report.changes[p[n]])
    BY <1>5 DEF Permuted
  <1>7. /\ Shown(left)' <=> Shown(left)
        /\ Shown(right)' <=> Shown(right)
        /\ OutcomeReport' <=> OutcomeReport
    BY <1>1 DEF Shown, OutcomeReport
  <1>8. \A c, s, mine, other :
          /\ Explains(left, c, s, mine, other)' <=> Explains(left, c, s, mine, other)
          /\ Explains(right, c, s, mine, other)' <=> Explains(right, c, s, mine, other)
          /\ Referred(left, c, mine, s)' <=> Referred(left, c, mine, s)
          /\ Referred(right, c, mine, s)' <=> Referred(right, c, mine, s)
    BY <1>1 DEF Explains, Referred
  <1>9. ASSUME NEW n \in 1 .. N, NEW d, d = report'.changes[n]
        PROVE  /\ d.key # 0 => /\ Shown(left) => Explains(left, d, d.leftSamples, d.left, d.right)
                               /\ Shown(right) => Explains(right, d, d.rightSamples, d.right, d.left)
               /\ OutcomeReport => /\ Referred(left, d, d.leftMap, d.leftSamples)
                                   /\ Referred(right, d, d.rightMap, d.rightSamples)
    <2>1. PICK c : c = report.changes[p[n]] /\ d = FinalChange(c)  BY <1>6, <1>9
    <2>2. Backed(c)
      <3>1. p[n] \in 1 .. N  OBVIOUS
      <3>2. QED  BY <1>1, <1>6, <2>1, <3>1 DEF Backing
    <2>3. CASE c.kind # "ExitStatus"
      <3>1. d = c  BY <2>1, <2>3 DEF FinalChange
      <3>2. QED  BY <2>2, <2>3, <3>1 DEF Backed
    <2>4. CASE c.kind = "ExitStatus" /\ ~OutcomeReport
      <3>1. c.key = 0 /\ DOMAIN c = ChangeFields  BY <2>2, <2>4 DEF Backed
      <3>2. d.key = 0  BY <2>1, <3>1 DEF FinalChange, ChangeFields
      <3>3. QED  BY <2>4, <3>2
    <2>5. CASE c.kind = "ExitStatus" /\ OutcomeReport
      <3>1. /\ c.key = 0 /\ DOMAIN c = ChangeFields
            /\ c.leftMap = TargetMapping(left) /\ c.rightMap = TargetMapping(right)
        BY <2>2, <2>5 DEF Backed
      <3>2. TraceReport  BY <2>5 DEF OutcomeReport, TraceReport
      <3>3. d = [c EXCEPT !.leftSamples = TargetSamples(left), !.rightSamples = TargetSamples(right)]
        BY <2>1, <2>5, <3>2 DEF FinalChange
      <3>4. /\ d.key = 0 /\ d.leftMap = TargetMapping(left) /\ d.rightMap = TargetMapping(right)
            /\ d.leftSamples = TargetSamples(left) /\ d.rightSamples = TargetSamples(right)
        BY <3>1, <3>3 DEF ChangeFields
      <3>5. /\ Referred(left, d, TargetMapping(left), TargetSamples(left))
            /\ Referred(right, d, TargetMapping(right), TargetSamples(right))
        BY <1>2, <2>5, <3>4, TargetReferred
      <3>6. QED  BY <3>4, <3>5
    <2>6. QED  BY <2>3, <2>4, <2>5
  <1>10. SamplesExplain'
    BY <1>6, <1>7, <1>8, <1>9 DEF SamplesExplain
  <1>11. ReferencesComplete'
    BY <1>6, <1>7, <1>8, <1>9 DEF ReferencesComplete
  <1>12. QED  BY <1>10, <1>11

(* The merge adds what is backed. *)
LEMMA MergeBacking ==
  ASSUME RowsTyped, ReportShape, Merging, Backing, at = "merge", NEW k \in Keys,
         Merge(k, Bucket(left, k), Bucket(right, k))
  PROVE  Backing'
  <1>1. /\ left' = left /\ right' = right /\ format' = format
        /\ report'.changes = report.changes \o ObservationChange(k, Bucket(left, k), Bucket(right, k))
    BY DEF Merge, ReportShape
  <1>2. PICK l, r, old, new :
          /\ l = Bucket(left, k) /\ r = Bucket(right, k) /\ old = report.changes
          /\ new = old \o ObservationChange(k, l, r)
    OBVIOUS
  <1>3. PICK S : old \in Seq(S)  BY <1>2 DEF Merging, Settled, Rankable
  <1>4. \A i \in DOMAIN old : Backed(old[i])  BY <1>2 DEF Backing
  <1>5. \A i \in DOMAIN new : Backed(new[i])
    <2>1. CASE DOMAIN l = DOMAIN r
      <3>1. ObservationChange(k, l, r) = <<>>  BY <2>1 DEF ObservationChange
      <3>2. new = old  BY <1>2, <1>3, <3>1, AppendFacts
      <3>3. QED  BY <1>4, <3>2
    <2>2. CASE DOMAIN l # DOMAIN r
      <3>1. PICK c : ObservationChange(k, l, r) = <<c>> /\ Backed(c)
        BY <1>2, <2>2, ObservationBacked
      <3>2. PICK n \in Nat : n = Len(old)  BY <1>3
      <3>3. /\ DOMAIN old = 1 .. n /\ DOMAIN new = 1 .. (n + 1)
            /\ \A i \in 1 .. n : new[i] = old[i]
            /\ new[n + 1] = c
        BY <1>2, <1>3, <3>1, <3>2, AppendFacts
      <3>4. \A i \in DOMAIN new : i \in 1 .. n \/ i = n + 1  BY <3>3
      <3>5. QED  BY <1>4, <3>1, <3>3, <3>4
    <2>3. QED  BY <2>1, <2>2
  <1>6. report'.changes = new  BY <1>1, <1>2
  <1>7. \A c : Backed(c)' <=> Backed(c)  BY <1>1, BackedKept
  <1>8. ASSUME NEW i \in DOMAIN report'.changes  PROVE Backed(report.changes[i])'
    BY <1>1, <1>5, <1>6, <1>7, BackedKept
  <1>9. QED  BY <1>8 DEF Backing

(* The inductive invariant of the comparison. *)
MergeInv ==
  /\ ComparisonInv /\ RowsTyped /\ Merging /\ Backing
  /\ DifferencesExact /\ SamplesExplain /\ ReferencesComplete

(* It holds initially. *)
LEMMA MergeInvInit == ComparisonInit => MergeInv
  <1>1. SUFFICES ASSUME ComparisonInit  PROVE MergeInv  OBVIOUS
  <1>2. ComparisonInv  BY <1>1, ComparisonInvInit
  <1>3. RowsTyped  BY <1>1, LoadsTyped DEF ComparisonInit, RowsTyped
  <1>4. at = "check"  BY <1>1 DEF ComparisonInit
  <1>5. QED
    BY <1>2, <1>3, <1>4
    DEF MergeInv, Merging, Backing, DifferencesExact, SamplesExplain, ReferencesComplete, Done

(* A step without effect keeps it. *)
LEMMA MergeInvStutter ==
  ASSUME MergeInv, ComparisonInv', UNCHANGED comparisonVars
  PROVE  MergeInv'
  <1>1. /\ left' = left /\ right' = right /\ format' = format /\ at' = at /\ report' = report
        /\ leftKeys' = leftKeys /\ rightKeys' = rightKeys
    BY DEF comparisonVars
  <1>2. /\ \A k : Seen(left, k)' = Seen(left, k) /\ Seen(right, k)' = Seen(right, k)
        /\ \A k : Side(left, k)' = Side(left, k) /\ Side(right, k)' = Side(right, k)
        /\ Aggregate(left)' = Aggregate(left) /\ Aggregate(right)' = Aggregate(right)
        /\ MetadataChanges' = MetadataChanges /\ RowsTyped' = RowsTyped
    BY <1>1, SidesKept
  <1>3. Queued' <=> Queued  BY <1>1, <1>2 DEF Queued
  <1>4. Settled' <=> Settled  BY <1>1, <1>2 DEF Settled, Reported
  <1>5. DifferencesExact' <=> DifferencesExact  BY <1>1, <1>2 DEF DifferencesExact, Done
  <1>6. Backing'
    <2>1. \A c : Backed(c)' <=> Backed(c)  BY <1>1, BackedKept
    <2>2. QED  BY <1>1, <2>1 DEF MergeInv, Backing
  <1>7. SamplesExplain' <=> SamplesExplain
    BY <1>1 DEF SamplesExplain, Done, Explains, Shown, OutcomeReport
  <1>8. ReferencesComplete' <=> ReferencesComplete
    BY <1>1 DEF ReferencesComplete, Done, Referred, OutcomeReport
  <1>9. QED  BY <1>1, <1>2, <1>3, <1>4, <1>5, <1>6, <1>7, <1>8 DEF MergeInv, Merging

(* Every step preserves it. *)
LEMMA MergeInvStep ==
  ASSUME MergeInv, [ComparisonNext]_comparisonVars
  PROVE  MergeInv'
  <1>1. /\ ComparisonInv' /\ ReportShape
        /\ ComparisonInv /\ RowsTyped /\ Merging /\ Backing
    BY ComparisonInvStep DEF MergeInv, ComparisonInv
  <1>2. CASE Fail
    <2>1. left' = left /\ right' = right /\ format' = format /\ at' = "done" /\ report'.exit = 2
      BY <1>2 DEF Fail, NoReport
    <2>2. RowsTyped'  BY <1>1, <2>1, SidesKept
    <2>3. QED
      BY <1>1, <2>1, <2>2
      DEF MergeInv, Merging, Backing, DifferencesExact, SamplesExplain, ReferencesComplete, Done
  <1>3. CASE Begin
    <2>1. Merging' /\ RowsTyped'  BY <1>1, <1>3, BeginMerging
    <2>2. /\ at' = "merge" /\ left' = left /\ right' = right /\ format' = format
          /\ report'.changes = MetadataChanges
      BY <1>1, <1>3 DEF Begin, ReportShape
    <2>3. Backing'
      <3>1. \A c : Backed(c)' <=> Backed(c)  BY <2>2, BackedKept
      <3>2. \A i \in DOMAIN report'.changes : Backed(report'.changes[i])
        BY <2>2, MetadataBacked
      <3>3. QED  BY <3>1, <3>2 DEF Backing
    <2>4. QED
      BY <1>1, <2>1, <2>2, <2>3 DEF MergeInv, DifferencesExact, SamplesExplain, ReferencesComplete, Done
  <1>4. CASE TakeLeft \/ TakeRight \/ TakeBoth
    <2>1. Merging' /\ \E k \in Keys : Merge(k, Bucket(left, k), Bucket(right, k))
      BY <1>1, <1>4, TakeMerging
    <2>2. left' = left /\ right' = right /\ format' = format /\ at = "merge" /\ at' = "merge"
      BY <1>4 DEF TakeLeft, TakeRight, TakeBoth, Merge
    <2>3. RowsTyped'  BY <1>1, <2>2, SidesKept
    <2>4. Backing'  BY <1>1, <2>1, <2>2, MergeBacking
    <2>5. QED
      BY <1>1, <2>1, <2>2, <2>3, <2>4
      DEF MergeInv, DifferencesExact, SamplesExplain, ReferencesComplete, Done
  <1>5. CASE Finish
    <2>1. DifferencesExact'  BY <1>1, <1>5, FinishExact
    <2>2. SamplesExplain' /\ ReferencesComplete'  BY <1>1, <1>5, FinishBacked
    <2>3. left' = left /\ right' = right /\ format' = format /\ at' = "done"  BY <1>5 DEF Finish
    <2>4. RowsTyped'  BY <1>1, <2>3, SidesKept
    <2>5. QED  BY <1>1, <2>1, <2>2, <2>3, <2>4 DEF MergeInv, Merging, Backing
  <1>6. CASE UNCHANGED comparisonVars
    BY <1>1, <1>6, MergeInvStutter
  <1>7. QED  BY <1>2, <1>3, <1>4, <1>5, <1>6 DEF ComparisonNext

(* It holds throughout a comparison. *)
LEMMA MergeInvHolds == ComparisonSpec => []MergeInv
  <1>1. ComparisonInit => MergeInv  BY MergeInvInit
  <1>2. MergeInv /\ [ComparisonNext]_comparisonVars => MergeInv'  BY MergeInvStep
  <1>3. QED  BY <1>1, <1>2, PTL DEF ComparisonSpec

(* The report names exactly the observations whose outcome sets differ, and *)
(* equality is claimed only when everything compared agrees, whatever the   *)
(* event vectors.                                                           *)
THEOREM DifferencesAreExact == ComparisonSpec => []DifferencesExact
  <1>1. MergeInv => DifferencesExact  BY DEF MergeInv
  <1>2. QED  BY <1>1, MergeInvHolds, PTL

(* The samples of every change are distinct occurrences of its observation, *)
(* as many as the limit admits, and outcomes only one side has come first,  *)
(* for every limit and however often common outcomes are repeated.          *)
THEOREM SamplesDoExplain == ComparisonSpec => []SamplesExplain
  <1>1. MergeInv => SamplesExplain  BY DEF MergeInv
  <1>2. QED  BY <1>1, MergeInvHolds, PTL

(* A v6 report refers to all saved occurrences of a changed observation and *)
(* to nothing of an unfinalized run, whatever the event vectors.            *)
THEOREM ReferencesAreComplete == ComparisonSpec => []ReferencesComplete
  <1>1. MergeInv => ReferencesComplete  BY DEF MergeInv
  <1>2. QED  BY <1>1, MergeInvHolds, PTL
==============================================================================
