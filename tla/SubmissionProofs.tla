-------------------------- MODULE SubmissionProofs --------------------------
(***************************************************************************)
(* What is proved of Submission, for numbers of any width: that frames and *)
(* indices go together, in the master and in what a task is told, that the *)
(* records of clients, jobs and slots stay well formed whatever the range  *)
(* becomes, and that clients tell the truth; that a script has the names   *)
(* it reads; that what is finished with 0 is rendered, nothing is rendered *)
(* that was not asked for, and nothing twice.                              *)
(***************************************************************************)
EXTENDS Submission, TLAPS, SequenceTheorems, FiniteSetTheorems, WellFoundedInduction

----------------------------------------------------------------------------
(* Arithmetic: quotients, and numbers that do not wrap.                    *)
LEMMA Modulus == 2 ^ Width \in Nat \ {0}
  BY WidthAssumption

LEMMA WrapSmall ==
  ASSUME NEW n \in Nat, n < 2 ^ Width PROVE Wrap(n) = n
  BY Modulus DEF Wrap

LEMMA WrapOnce ==
  ASSUME NEW n \in Nat, 2 ^ Width <= n, n < 2 ^ Width + 2 ^ Width
  PROVE Wrap(n) = n - 2 ^ Width
  BY Modulus DEF Wrap

LEMMA Quotient ==
  ASSUME NEW a \in Nat, NEW b \in Nat \ {0}
  PROVE /\ a \div b \in Nat
        /\ (a \div b) * b <= a
        /\ a < (a \div b) * b + b
  OBVIOUS

LEMMA Distribute ==
  ASSUME NEW a \in Int, NEW b \in Int, NEW k \in Int
  PROVE (a + b) * k = a * k + b * k /\ (a - b) * k = a * k - b * k
  OBVIOUS

LEMMA Associate ==
  ASSUME NEW a \in Int, NEW b \in Int, NEW k \in Int
  PROVE (a * b) * k = a * (b * k) /\ a * b = b * a
  OBVIOUS

LEMMA Grows ==
  ASSUME NEW a \in Int, NEW b \in Int, NEW k \in Nat, a <= b
  PROVE a * k <= b * k
  OBVIOUS

LEMMA QuotientIs ==
  ASSUME NEW a \in Nat, NEW b \in Nat \ {0}, NEW q \in Nat, q * b <= a, a < q * b + b
  PROVE a \div b = q
<1> DEFINE p == a \div b
<1>1. p \in Nat /\ p * b <= a /\ a < p * b + b
  BY Quotient
<1> HIDE DEF p
<1>2. CASE p < q
  <2>1. (p + 1) * b <= q * b
    BY <1>1, <1>2, Grows
  <2> QED BY <2>1, <1>1, Distribute
<1>3. CASE q < p
  <2>1. (q + 1) * b <= p * b
    BY <1>1, <1>3, Grows
  <2> QED BY <2>1, <1>1, Distribute
<1> QED BY <1>1, <1>2, <1>3 DEF p

LEMMA RemainderIs ==
  ASSUME NEW a \in Nat, NEW b \in Nat \ {0}
  PROVE a % b = a - (a \div b) * b
  OBVIOUS

LEMMA SmallQuotient ==
  ASSUME NEW a \in Nat, NEW b \in Nat \ {0}, a < b
  PROVE a \div b = 0
  OBVIOUS

----------------------------------------------------------------------------
(* Ranges.  Size is how far apart the numbers of two indices are.          *)
Size(r) == r.block * r.step

LEMMA Numbers ==
  ASSUME NEW r, InNumbers(r)
  PROVE /\ {r.start, r.end, r.step, r.block, Size(r)} \subseteq Nat
        /\ r.start < 2 ^ Width /\ r.end < 2 ^ Width /\ r.step < 2 ^ Width
        /\ r.block < 2 ^ Width /\ Size(r) < 2 ^ Width
  BY Modulus DEF InNumbers, FrameNumbersUsed, Size

(* The steps of a range of which there is a frame: the sum does not wrap.  *)
LEMMA Steps ==
  ASSUME NEW r, InNumbers(r), r.start <= r.end, job_nframes(r) # 0
  PROVE /\ r.step \in Nat \ {0} /\ r.block \in Nat \ {0}
        /\ r.end - r.start \in Nat
        /\ \E steps \in Nat :
             /\ job_nframes(r) = (steps + r.block - 1) \div r.block
             /\ steps * r.step <= r.end - r.start + r.step
             /\ r.end - r.start < steps * r.step
             /\ steps # 0
<1> DEFINE M == 2 ^ Width
           start == r.start
           last == r.end
           L == r.end - r.start
           s == r.step
           b == r.block
           sum == last - start + s
           steps == Wrap(sum) \div s
<1>1. /\ M \in Nat \ {0} /\ L \in Nat /\ L < M /\ s \in Nat /\ b \in Nat /\ s < M /\ b < M
      /\ sum \in Nat /\ sum = L + s
  BY Numbers, Modulus
<1>2. s # 0 /\ b # 0 /\ job_nframes(r) = Wrap(steps + b - 1) \div b
  BY DEF job_nframes
<1>3. \A n \in Nat : (n < M => Wrap(n) = n) /\ (M <= n /\ n < M + M => Wrap(n) = n - M)
  BY WrapSmall, WrapOnce
<1> HIDE DEF M, L, s, b, sum
<1>4. sum < M
  <2> SUFFICES ASSUME M <= sum PROVE FALSE
    BY <1>1
  <2>1. Wrap(sum) = sum - M /\ sum - M \in Nat /\ sum - M < s
    BY <1>1, <1>3
  <2>2. steps = 0
    BY <2>1, <1>1, <1>2, SmallQuotient
  <2>3. Wrap(steps + b - 1) = b - 1
    BY <2>2, <1>1, <1>2, <1>3
  <2>4. (b - 1) \div b = 0
    BY <1>1, <1>2, SmallQuotient
  <2> QED BY <2>3, <2>4, <1>2
<1>5. steps = sum \div s
  BY <1>1, <1>3, <1>4
<1>6. steps \in Nat /\ steps * s <= sum /\ sum < steps * s + s
  BY <1>1, <1>2, <1>5, Quotient
<1> HIDE DEF steps
<1>7. steps < M
  <2> SUFFICES ASSUME sum < steps PROVE FALSE
    BY <1>1, <1>4, <1>6
  <2>1. steps * 1 <= steps * s
    BY <1>1, <1>2, <1>6, Grows, Associate
  <2> QED BY <2>1, <1>1, <1>6
<1>8. steps + b - 1 < M
  <2> SUFFICES ASSUME M <= steps + b - 1 PROVE FALSE
    BY <1>1, <1>6
  <2>1. /\ Wrap(steps + b - 1) = steps + b - 1 - M
        /\ steps + b - 1 - M \in Nat /\ steps + b - 1 - M < b
    BY <1>1, <1>2, <1>3, <1>6, <1>7
  <2> QED BY <2>1, <1>1, <1>2, SmallQuotient
<1>9. Wrap(steps + b - 1) = steps + b - 1
  BY <1>1, <1>2, <1>3, <1>6, <1>8
<1>10. L < steps * s
  <2>1. steps * s \in Nat
    BY <1>1, <1>6
  <2> QED BY <2>1, <1>1, <1>6
<1>11. steps # 0
  BY <1>10, <1>1
<1> QED BY <1>1, <1>2, <1>6, <1>9, <1>10, <1>11 DEF L, s, b, sum

(* The frames of a range, last one not full, cover it and no more.         *)
LEMMA FramesCover ==
  ASSUME NEW r, InNumbers(r), r.start <= r.end, job_nframes(r) # 0
  PROVE /\ job_nframes(r) \in Nat \ {0} /\ Size(r) \in Nat \ {0}
        /\ r.end - r.start \in Nat
        /\ (job_nframes(r) - 1) * Size(r) <= r.end - r.start
        /\ r.end - r.start < job_nframes(r) * Size(r)
<1> DEFINE L == r.end - r.start
           s == r.step
           b == r.block
           n == job_nframes(r)
           z == Size(r)
<1>1. s \in Nat \ {0} /\ b \in Nat \ {0} /\ L \in Nat
  BY Steps
<1>2. PICK steps \in Nat : /\ n = (steps + b - 1) \div b
                          /\ steps * s <= L + s /\ L < steps * s /\ steps # 0
  BY Steps
<1>3. z = b * s
  BY DEF Size
<1> HIDE DEF L, s, b, n, z
<1>4. n \in Nat /\ n * b <= steps + b - 1 /\ steps + b - 1 < n * b + b
  BY <1>1, <1>2, Quotient
<1>5. n # 0
  BY <1>4, <1>2, <1>1
<1>6. z \in Nat \ {0}
  BY <1>1, <1>3
<1>7. L < n * z
  <2>1. steps <= n * b
    BY <1>4, <1>1
  <2>2. steps * s <= (n * b) * s
    BY <2>1, <1>1, <1>4, Grows
  <2>3. (n * b) * s = n * z
    BY <1>1, <1>3, <1>4, Associate
  <2>4. steps * s \in Int /\ n * z \in Int
    BY <1>1, <1>4, <1>6
  <2> QED BY <2>2, <2>3, <2>4, <1>1, <1>2
<1>8. (n - 1) * z <= L
  <2>1. n * b - b = (n - 1) * b
    BY <1>1, <1>4, Distribute
  <2>2. (n - 1) * b <= steps - 1
    BY <2>1, <1>1, <1>4
  <2>3. ((n - 1) * b) * s <= (steps - 1) * s
    BY <2>2, <1>1, <1>4, Grows
  <2>4. ((n - 1) * b) * s = (n - 1) * z
    BY <1>1, <1>3, <1>4, Associate
  <2>5. (steps - 1) * s = steps * s - s
    BY <1>1, Distribute
  <2>6. steps * s \in Int /\ (n - 1) * z \in Int
    BY <1>1, <1>4, <1>6
  <2> QED BY <2>3, <2>4, <2>5, <2>6, <1>1, <1>2
<1> QED BY <1>1, <1>4, <1>5, <1>6, <1>7, <1>8 DEF n, z, L

(* The number the master hears of, its distance from the first frame.      *)
LEMMA IndexOfNumber ==
  ASSUME NEW r, InNumbers(r), NEW n \in Int, job_frame_number_correct(r, n),
         job_nframes(r) # 0
  PROVE /\ r.start <= r.end
        /\ n - r.start \in Nat /\ n - r.start <= r.end - r.start
        /\ job_frame_number_to_index(r, n) = (n - r.start) \div Size(r)
        /\ job_frame_number_to_index(r, n) \in 0 .. job_nframes(r) - 1
<1>1. r.start \in Nat /\ r.end \in Nat /\ r.end < 2 ^ Width /\ 2 ^ Width \in Nat
  BY Numbers, Modulus
<1>2. r.start <= n /\ n <= r.end
  BY DEF job_frame_number_correct
<1> DEFINE d == n - r.start
           z == Size(r)
           nf == job_nframes(r)
           i == d \div z
<1>3. r.start <= r.end
  BY <1>1, <1>2
<1>4. d \in Nat /\ d <= r.end - r.start /\ d < 2 ^ Width
  BY <1>1, <1>2
<1>5. /\ z \in Nat \ {0} /\ z < 2 ^ Width /\ nf \in Nat \ {0}
      /\ r.end - r.start < nf * z /\ r.end - r.start \in Nat
  BY <1>3, FramesCover, Numbers
<1>6. job_frame_number_to_index(r, n) = i
  <2>1. Wrap(d) = d /\ Wrap(z) = z
    BY <1>4, <1>5, WrapSmall
  <2> QED BY <2>1 DEF job_frame_number_to_index, Size
<1>7. i \in Nat /\ i * z <= d
  BY <1>4, <1>5, Quotient
<1>8. i < nf
  <2> HIDE DEF i, d, z, nf
  <2> SUFFICES ASSUME nf <= i PROVE FALSE
    BY <1>5, <1>7
  <2>1. nf * z <= i * z
    BY <1>5, <1>7, Grows
  <2>2. nf * z \in Int /\ i * z \in Int
    BY <1>5, <1>7
  <2> QED BY <2>1, <2>2, <1>4, <1>5, <1>7
<1> QED BY <1>3, <1>4, <1>5, <1>6, <1>7, <1>8

LEMMA Multiple ==
  ASSUME NEW a \in Nat, NEW b \in Nat \ {0}
  PROVE (a * b) % b = 0 /\ (a * b) \div b = a
<1> DEFINE m == a * b
<1>1. m \in Nat
  OBVIOUS
<1>2. m \div b = a
  BY <1>1, QuotientIs
<1>3. m % b = m - (m \div b) * b
  BY <1>1, RemainderIs
<1> QED BY <1>1, <1>2, <1>3

(* The number of an index is in the range and leads back to the index.     *)
LEMMA NumberOfIndex ==
  ASSUME NEW r, InNumbers(r), r.start <= r.end, NEW i \in 0 .. job_nframes(r) - 1,
         job_nframes(r) # 0
  PROVE /\ job_frame_index_to_number(r, i) = r.start + i * Size(r)
        /\ i * Size(r) \in Nat /\ i * Size(r) <= r.end - r.start
        /\ job_frame_number_correct(r, job_frame_index_to_number(r, i))
        /\ job_frame_number_to_index(r, job_frame_index_to_number(r, i)) = i
<1> DEFINE z == Size(r)
           nf == job_nframes(r)
           d == i * z
           n == r.start + d
<1>1. r.start \in Nat /\ r.end \in Nat /\ r.end < 2 ^ Width /\ 2 ^ Width \in Nat
  BY Numbers, Modulus
<1>2. r.step \in Nat \ {0} /\ r.block \in Nat \ {0}
  BY Steps
<1>3. z \in Nat \ {0} /\ nf \in Nat \ {0} /\ (nf - 1) * z <= r.end - r.start
  BY FramesCover
<1>4. i \in Nat /\ i <= nf - 1
  BY <1>3
<1>5. d \in Nat /\ d <= r.end - r.start
  <2> HIDE DEF z, nf
  <2>1. d <= (nf - 1) * z
    BY <1>3, <1>4, Grows
  <2>2. d \in Nat /\ (nf - 1) * z \in Int
    BY <1>3, <1>4
  <2> QED BY <2>1, <2>2, <1>1, <1>3
<1>6. i * r.block * r.step = d
  BY <1>2, <1>4, Associate DEF Size
<1>7. job_frame_index_to_number(r, i) = n
  <2>1. n \in Nat /\ n < 2 ^ Width
    BY <1>1, <1>5
  <2>2. Wrap(n) = n
    BY <2>1, WrapSmall
  <2> QED BY <2>2, <1>6 DEF job_frame_index_to_number
<1>8. n - r.start = d
  BY <1>1, <1>5
<1>9. job_frame_number_correct(r, n)
  <2>1. d = (i * r.block) * r.step /\ i * r.block \in Nat
    BY <1>2, <1>4, <1>6
  <2>2. d % r.step = 0
    BY <2>1, <1>2, Multiple
  <2>3. r.start <= n /\ n <= r.end
    BY <1>1, <1>5
  <2> QED BY <2>2, <2>3, <1>8 DEF job_frame_number_correct
<1>10. job_frame_number_to_index(r, n) = i
  <2>1. n \in Int
    BY <1>1, <1>5
  <2>2. job_frame_number_to_index(r, n) = d \div z
    BY <2>1, <1>3, <1>8, <1>9, IndexOfNumber
  <2> QED BY <2>2, <1>3, <1>4, Multiple
<1> QED BY <1>5, <1>7, <1>9, <1>10

(* Every frame that is asked for belongs to one index, and every index has *)
(* frames (job.c:285, 831-849).                                            *)
THEOREM EveryFrameHasOneIndex ==
  ASSUME NEW r, InNumbers(r), r.start <= r.end, job_nframes(r) # 0
  PROVE /\ \A n \in FramesAsked(r) :
             \E i \in 0 .. job_nframes(r) - 1 :
               /\ n \in FramesOfIndex(r, i)
               /\ \A k : n \in FramesOfIndex(r, k) => k = i
        /\ \A i \in 0 .. job_nframes(r) - 1 :
             job_frame_index_to_number(r, i) \in FramesOfIndex(r, i)
<1>1. r.start \in Nat /\ r.end \in Nat
  BY Numbers
<1>2. ASSUME NEW n \in FramesAsked(r)
      PROVE \E i \in 0 .. job_nframes(r) - 1 :
               /\ n \in FramesOfIndex(r, i)
               /\ \A k : n \in FramesOfIndex(r, k) => k = i
  <2>1. n \in Int /\ job_frame_number_correct(r, n)
    BY <1>1 DEF FramesAsked
  <2>2. job_frame_number_to_index(r, n) \in 0 .. job_nframes(r) - 1
    BY <2>1, IndexOfNumber
  <2>3. n \in FramesOfIndex(r, job_frame_number_to_index(r, n))
    BY DEF FramesOfIndex
  <2> QED BY <2>2, <2>3 DEF FramesOfIndex
<1>3. ASSUME NEW i \in 0 .. job_nframes(r) - 1
      PROVE job_frame_index_to_number(r, i) \in FramesOfIndex(r, i)
  <2> DEFINE n == job_frame_index_to_number(r, i)
  <2>1. /\ n = r.start + i * Size(r) /\ i * Size(r) \in Nat
        /\ i * Size(r) <= r.end - r.start
        /\ job_frame_number_correct(r, n) /\ job_frame_number_to_index(r, n) = i
    BY NumberOfIndex
  <2>2. n \in r.start .. r.end
    BY <2>1, <1>1
  <2> QED BY <2>1, <2>2 DEF FramesOfIndex, FramesAsked
<1> QED BY <1>2, <1>3

LEMMA ByOne ==
  ASSUME NEW d \in Int PROVE d % 1 = 0
  OBVIOUS

(* The frames of an index, in blocks of single steps.                      *)
LEMMA SingleSteps ==
  ASSUME NEW r, InNumbers(r), r.start <= r.end, NEW i \in 0 .. job_nframes(r) - 1,
         job_nframes(r) # 0, r.step = 1, NEW m \in Int
  PROVE m \in FramesOfIndex(r, i) <=>
          LET n == job_frame_index_to_number(r, i) IN n <= m /\ m < n + r.block /\ m <= r.end
<1> DEFINE n == job_frame_index_to_number(r, i)
           b == r.block
           d == m - r.start
<1>1. r.start \in Nat /\ r.end \in Nat
  BY Numbers
<1>2. b \in Nat \ {0} /\ Size(r) = b
  BY Steps DEF Size
<1>3. n = r.start + i * b /\ i * b \in Nat
  BY <1>2, NumberOfIndex
<1>4. i \in Nat
  OBVIOUS
<1>5. ASSUME m \in FramesOfIndex(r, i) PROVE n <= m /\ m < n + b /\ m <= r.end
  <2>1. /\ job_frame_number_correct(r, m) /\ job_frame_number_to_index(r, m) = i
        /\ m <= r.end
    BY <1>1, <1>5 DEF FramesOfIndex, FramesAsked
  <2>2. d \in Nat /\ i = d \div b
    BY <2>1, <1>2, IndexOfNumber
  <2>3. i * b <= d /\ d < i * b + b
    BY <2>2, <1>2, Quotient
  <2> HIDE DEF n
  <2> QED BY <2>1, <2>2, <2>3, <1>1, <1>2, <1>3
<1>6. ASSUME n <= m, m < n + b, m <= r.end PROVE m \in FramesOfIndex(r, i)
  <2>1. d \in Nat /\ i * b <= d /\ d < i * b + b /\ r.start <= m
    <3> HIDE DEF n
    <3> QED BY <1>1, <1>2, <1>3, <1>6
  <2>2. job_frame_number_correct(r, m)
    BY <2>1, <1>6, ByOne DEF job_frame_number_correct
  <2>3. d \div b = i
    BY <2>1, <1>2, <1>4, QuotientIs
  <2>4. job_frame_number_to_index(r, m) = i
    BY <2>2, <2>3, <1>2, IndexOfNumber
  <2>5. m \in r.start .. r.end
    BY <2>1, <1>1, <1>6
  <2> QED BY <2>2, <2>4, <2>5 DEF FramesOfIndex, FramesAsked
<1> QED BY <1>5, <1>6

(* The frame of an index, in steps of single frames.                       *)
LEMMA SingleFrames ==
  ASSUME NEW r, InNumbers(r), r.start <= r.end, NEW i \in 0 .. job_nframes(r) - 1,
         job_nframes(r) # 0, r.block = 1
  PROVE FramesOfIndex(r, i) = {job_frame_index_to_number(r, i)}
<1> DEFINE n == job_frame_index_to_number(r, i)
           s == r.step
<1>1. r.start \in Nat /\ r.end \in Nat
  BY Numbers
<1>2. s \in Nat \ {0} /\ Size(r) = s
  BY Steps DEF Size
<1>3. n = r.start + i * s /\ i * s \in Nat
  BY <1>2, NumberOfIndex
<1>4. n \in FramesOfIndex(r, i)
  BY EveryFrameHasOneIndex
<1>5. ASSUME NEW m \in FramesOfIndex(r, i) PROVE m = n
  <2> DEFINE d == m - r.start
  <2>1. /\ job_frame_number_correct(r, m) /\ job_frame_number_to_index(r, m) = i
        /\ m \in Int
    BY <1>1 DEF FramesOfIndex, FramesAsked
  <2>2. d \in Nat /\ i = d \div s
    BY <2>1, <1>2, IndexOfNumber
  <2>3. d % s = 0
    BY <2>1 DEF job_frame_number_correct
  <2>4. d % s = d - (d \div s) * s
    BY <2>2, <1>2, RemainderIs
  <2>5. d = i * s
    BY <2>2, <2>3, <2>4, <1>3
  <2> HIDE DEF n
  <2> QED BY <2>1, <2>5, <1>1, <1>3
<1> QED BY <1>4, <1>5

(* Unless blocks have a step, the frames that a task is told to render are *)
(* those its index stands for: the list of the environment, and what the   *)
(* templates work out of the block (task.c:161-176, the templates of etc). *)
THEOREM BlocksAreIndices ==
  ASSUME NEW r, InNumbers(r), r.start <= r.end, NEW i \in 0 .. job_nframes(r) - 1,
         job_nframes(r) # 0, ~ Strides(r), NEW template,
         template.frames \in {"block", "steps"} \/ (template.frames = "frame" /\ r.block = 1)
  PROVE LET t == task_set_to_job_frame(r, job_frame_index_to_number(r, i))
        IN  Frames(template, t) = FramesOfIndex(r, i) /\ PadFrames(t) = FramesOfIndex(r, i)
<1> DEFINE n == job_frame_index_to_number(r, i)
           b == r.block
           t == task_set_to_job_frame(r, n)
<1>1. r.start \in Nat /\ r.end \in Nat
  BY Numbers
<1>2. r.step \in Nat \ {0} /\ b \in Nat \ {0}
  BY Steps
<1>3. n \in Nat /\ n <= r.end
  <2>1. n = r.start + i * Size(r) /\ i * Size(r) \in Nat /\ i * Size(r) <= r.end - r.start
    BY NumberOfIndex
  <2> HIDE DEF n
  <2> QED BY <2>1, <1>1
<1>4. t.frame = n /\ t.end = r.end /\ t.step = r.step /\ t.block = b
  BY DEF task_set_to_job_frame
<1>5. CASE r.step = 1
  <2>1. \A m \in Int : m \in FramesOfIndex(r, i) <=> n <= m /\ m < n + b /\ m <= r.end
    BY <1>5, SingleSteps
  <2>2. FramesOfIndex(r, i) \subseteq Int
    BY <1>1 DEF FramesOfIndex, FramesAsked
  <2> HIDE DEF n, t, b
  <2>3. /\ BlockEnd(t) \in Int
        /\ \A m \in Int : m <= BlockEnd(t) <=> m < n + b /\ m <= r.end
    BY <1>1, <1>2, <1>3, <1>4 DEF BlockEnd
  <2>4. \A m : m \in FramesOfIndex(r, i) <=> m \in n .. BlockEnd(t)
    BY <2>1, <2>2, <2>3, <1>3
  <2>5. FramesOfIndex(r, i) = n .. BlockEnd(t)
    BY <2>4
  <2>6. PadFrames(t) = FramesOfIndex(r, i)
    <3>1. \A m : m \in PadFrames(t) <=> m \in Int /\ n <= m /\ m < n + b /\ m <= r.end
      BY <1>1, <1>2, <1>3, <1>4 DEF PadFrames
    <3> QED BY <3>1, <2>1, <2>2
  <2>7. \A m \in n .. BlockEnd(t) : (m - n) % r.step = 0
    BY <2>3, <1>3, <1>5, ByOne
  <2>8. ASSUME template.frames \in {"block", "steps"} PROVE Frames(template, t) = n .. BlockEnd(t)
    BY <2>7, <2>8, <1>4 DEF Frames
  <2>9. ASSUME template.frames = "frame", b = 1 PROVE Frames(template, t) = FramesOfIndex(r, i)
    <3>1. FramesOfIndex(r, i) = {n}
      BY <2>9, SingleFrames DEF b, n
    <3> QED BY <2>9, <3>1, <1>4 DEF Frames
  <2>10. Frames(template, t) = FramesOfIndex(r, i)
    BY <2>5, <2>8, <2>9 DEF b
  <2> QED BY <2>6, <2>10 DEF t, n
<1>6. CASE b = 1
  <2>1. FramesOfIndex(r, i) = {n}
    BY <1>6, SingleFrames
  <2> HIDE DEF n, t, b
  <2>2. BlockEnd(t) = n
    BY <1>1, <1>3, <1>4, <1>6 DEF BlockEnd
  <2>3. n .. n = {n}
    BY <1>3
  <2>4. (n - n) % r.step = 0
    BY <1>2, <1>3
  <2>5. PadFrames(t) = {n}
    BY <1>1, <1>3, <1>4, <1>6 DEF PadFrames
  <2>6. template.frames \in {"frame", "block", "steps"}
    OBVIOUS
  <2>7. Frames(template, t) = {n}
    <3>1. CASE template.frames = "frame"
      BY <3>1, <1>4 DEF Frames
    <3>2. CASE template.frames \in {"block", "steps"}
      <4>1. \A m : m \in Frames(template, t) <=> m \in {n}
        BY <3>2, <2>2, <2>3, <2>4, <1>4 DEF Frames
      <4> QED BY <4>1
    <3> QED BY <3>1, <3>2, <2>6
  <2> QED BY <2>1, <2>5, <2>7 DEF t, n
<1> QED BY <1>2, <1>5, <1>6 DEF Strides

----------------------------------------------------------------------------
(* The inductive invariant: what every client, job and slot looks like.    *)
Sane(order) ==
  /\ InNumbers(job_bswap_from_network(Sent(order)))
  /\ \A r \in order.changes : InNumbers(r)
ClientOK(c) ==
  /\ client[c] = [at |-> client[c].at, order |-> client[c].order,
                  script |-> client[c].script, told |-> client[c].told]
  /\ client[c].at \in {"starts", "open", "named", "closed", "done"}
  /\ client[c].script \in Seconds \cup Clients
  /\ client[c].told \in {"no", "failed", "sent"}
  /\ client[c].at # "done" => client[c].told = "no" /\ ~ job[c].queued
  /\ client[c].at # "done" \/ job[c].queued => Sane(client[c].order)
  /\ client[c].told = "sent" => job[c].queued
  /\ client[c].told = "failed" => ~ job[c].queued \/ SaysFailed(client[c].order)
ClientsOK == client = [c \in Clients |-> client[c]] /\ \A c \in Clients : ClientOK(c)

FrameOK(f) ==
  /\ f = [status |-> f.status, exit |-> f.exit, requeued |-> f.requeued, slot |-> f.slot]
  /\ f.status \in {"waiting", "assigned", "finished", "error"}
  /\ f.requeued \in 0 .. MaxRequeues
  /\ f.status = "assigned" => f.slot \in DOMAIN slot
FramesOK(frames, n) ==
  frames = [i \in 0 .. n - 1 |-> frames[i]] /\ \A i \in 0 .. n - 1 : FrameOK(frames[i])
JobOK(c) ==
  \/ job[c] = NoJob
  \/ /\ job[c] = [queued |-> TRUE, range |-> job[c].range, frames |-> job[c].frames]
     /\ InNumbers(job[c].range) /\ job_nframes(job[c].range) # 0
     /\ FramesOK(job[c].frames, job_nframes(job[c].range))
JobsOK == job = [c \in Clients |-> job[c]] /\ \A c \in Clients : JobOK(c)

SlotOK(s) ==
  \/ slot[s] = Free
  \/ /\ slot[s] = [held |-> TRUE, job |-> slot[s].job, exit |-> slot[s].exit, task |-> slot[s].task]
     /\ slot[s].exit \in {"none", "zero", "one", "signal"}
     /\ slot[s].job \in Clients /\ job[slot[s].job].queued
SlotsOK == slot = [s \in DOMAIN slot |-> slot[s]] /\ \A s \in DOMAIN slot : SlotOK(s)

RenderedOK ==
  rendered = [c \in Clients |-> rendered[c]] /\ \A c \in Clients : rendered[c] \in [FrameNumbersUsed -> 0 .. 2]

IInv == now \in Seconds /\ ClientsOK /\ JobsOK /\ SlotsOK /\ RenderedOK

LEMMA JobFields ==
  ASSUME NEW a, NEW b, NEW q, NEW j, j = [queued |-> q, range |-> a, frames |-> b]
  PROVE j.queued = q /\ j.range = a /\ j.frames = b
  OBVIOUS

LEMMA Shapes ==
  ASSUME NEW c \in Clients, IInv
  PROVE /\ job[c].queued \in BOOLEAN
        /\ job[c].queued =>
             /\ job[c] = [queued |-> TRUE, range |-> job[c].range, frames |-> job[c].frames]
             /\ InNumbers(job[c].range) /\ job_nframes(job[c].range) # 0
             /\ FramesOK(job[c].frames, job_nframes(job[c].range))
        /\ ~ job[c].queued => job[c] = NoJob
<1>1. JobOK(c)
  BY DEF IInv, JobsOK
<1>2. NoJob.queued = FALSE
  BY DEF NoJob
<1>3. CASE job[c] = NoJob
  BY <1>2, <1>3
<1>4. CASE job[c] # NoJob
  <2>1. /\ job[c] = [queued |-> TRUE, range |-> job[c].range, frames |-> job[c].frames]
        /\ InNumbers(job[c].range) /\ job_nframes(job[c].range) # 0
        /\ FramesOK(job[c].frames, job_nframes(job[c].range))
    BY <1>1, <1>4, Zenon DEF JobOK
  <2>2. job[c].queued = TRUE
    BY <2>1, JobFields
  <2> QED BY <2>1, <2>2, Zenon
<1> QED BY <1>3, <1>4

(* A client that was at work changes its place, its script or what it is   *)
(* told, and no job but its own changes.                                   *)
LEMMA ClientWorks ==
  ASSUME IInv, NEW c \in Clients, client[c].at # "done",
         NEW a \in {"starts", "open", "named", "closed", "done"},
         NEW t \in {"no", "failed", "sent"},
         a # "done" => t = "no" /\ ~ job'[c].queued,
         t = "sent" => job'[c].queued,
         t = "failed" => ~ job'[c].queued \/ SaysFailed(client[c].order),
         NEW f \in Seconds \cup Clients,
         client' = [client EXCEPT ![c] = [at |-> a, order |-> client[c].order,
                                         script |-> f, told |-> t]],
         \A d \in Clients \ {c} : job'[d].queued = job[d].queued
  PROVE ClientsOK'
<1>1. client = [d \in Clients |-> client[d]] /\ \A d \in Clients : ClientOK(d)
  BY DEF IInv, ClientsOK
<1>2. client' = [d \in Clients |-> client'[d]]
  BY <1>1, Zenon
<1>3. Sane(client[c].order)
  BY <1>1, Zenon DEF ClientOK
<1>4. ASSUME NEW d \in Clients PROVE ClientOK(d)'
  <2>1. CASE d = c
    <3>1. client'[c] = [at |-> a, order |-> client[c].order, script |-> f, told |-> t]
      BY <1>1, Zenon
    <3>2. /\ client'[c].at = a /\ client'[c].order = client[c].order
          /\ client'[c].script = f /\ client'[c].told = t
      BY <3>1
    <3> QED BY <2>1, <3>1, <3>2, <1>3 DEF ClientOK, Seconds, Sane, SaysFailed
  <2>2. CASE d # c
    <3>1. client'[d] = client[d]
      BY <2>2, <1>1, Zenon
    <3>2. ClientOK(d) /\ job'[d].queued = job[d].queued
      BY <2>2, <1>1
    <3> QED BY <3>1, <3>2 DEF ClientOK, Seconds, Sane, SaysFailed
  <2> QED BY <2>1, <2>2
<1> QED BY <1>2, <1>4, Zenon DEF ClientsOK

(* Clients and slots depend on jobs only by whether they are queued.       *)
LEMMA ClientsKept ==
  ASSUME IInv, client' = client, \A c \in Clients : job'[c].queued = job[c].queued
  PROVE ClientsOK'
  BY DEF IInv, ClientsOK, ClientOK, Sane, Seconds

LEMMA SlotsKept ==
  ASSUME IInv, slot' = slot, \A c \in Clients : job'[c].queued = job[c].queued
  PROVE SlotsOK'
  BY Zenon DEF IInv, SlotsOK, SlotOK, Free

LEMMA JobsKept ==
  ASSUME IInv, job' = job, DOMAIN slot' = DOMAIN slot
  PROVE JobsOK'
  BY Zenon DEF IInv, JobsOK, JobOK, FramesOK, FrameOK, NoJob

(* A job's table is replaced by one of well-formed frames.                 *)
LEMMA TableChanges ==
  ASSUME IInv, NEW c \in Clients, NEW r, InNumbers(r), job_nframes(r) # 0,
         NEW frames, FramesOK(frames, job_nframes(r))',
         job' = [job EXCEPT ![c] = [queued |-> TRUE, range |-> r, frames |-> frames]],
         DOMAIN slot' = DOMAIN slot
  PROVE /\ JobsOK' /\ job'[c].queued = TRUE
        /\ \A d \in Clients \ {c} : job'[d].queued = job[d].queued
<1>1. job = [d \in Clients |-> job[d]] /\ \A d \in Clients : JobOK(d)
  BY Zenon DEF IInv, JobsOK
<1>2. job' = [d \in Clients |-> job'[d]]
  BY <1>1, Zenon
<1>3. ASSUME NEW d \in Clients
      PROVE JobOK(d)' /\ job'[d].queued = IF d = c THEN TRUE ELSE job[d].queued
  <2>1. CASE d = c
    <3>1. job'[c] = [queued |-> TRUE, range |-> r, frames |-> frames]
      BY <1>1, Zenon
    <3>2. job'[c].range = r /\ job'[c].frames = frames /\ job'[c].queued = TRUE
      BY <3>1, JobFields
    <3>3. InNumbers(job'[c].range) /\ job_nframes(job'[c].range) # 0
      BY <3>2, Zenon
    <3>4. FramesOK(job[c].frames, job_nframes(job[c].range))'
      BY <3>2, Zenon
    <3> QED BY <2>1, <3>1, <3>2, <3>3, <3>4, Zenon DEF JobOK
  <2>2. CASE d # c
    <3>1. job'[d] = job[d]
      BY <2>2, <1>1, Zenon
    <3>2. JobOK(d)
      BY <1>1
    <3>3. JobOK(d)'
      <4>1. CASE job[d] = NoJob
        BY <4>1, <3>1, Zenon DEF JobOK, NoJob
      <4>2. CASE job[d] # NoJob
        <5>1. PICK o, old : o = job[d].range /\ old = job[d].frames
          OBVIOUS
        <5>2. /\ job[d] = [queued |-> TRUE, range |-> o, frames |-> old]
              /\ InNumbers(o) /\ job_nframes(o) # 0 /\ FramesOK(old, job_nframes(o))
          BY <3>2, <4>2, <5>1, Zenon DEF JobOK
        <5>3. FramesOK(old, job_nframes(o))'
          BY <5>2, Zenon DEF FramesOK, FrameOK
        <5>4. FramesOK(job[d].frames, job_nframes(job[d].range))'
          BY <3>1, <5>1, <5>3, Zenon
        <5>5. /\ job'[d] = [queued |-> TRUE, range |-> job'[d].range, frames |-> job'[d].frames]
              /\ InNumbers(job'[d].range) /\ job_nframes(job'[d].range) # 0
          BY <3>1, <5>1, <5>2, Zenon
        <5> QED BY <5>4, <5>5, Zenon DEF JobOK
      <4> QED BY <4>1, <4>2
    <3>4. job'[d].queued = IF d = c THEN TRUE ELSE job[d].queued
      BY <2>2, <3>1
    <3> QED BY <3>3, <3>4
  <2> QED BY <2>1, <2>2
<1> QED BY <1>2, <1>3, Zenon DEF JobsOK

(* One record of it is.                                                    *)
LEMMA FrameChanges ==
  ASSUME IInv, NEW c \in Clients, job[c].queued, NEW i, NEW f,
         i \in Indices(c) => FrameOK(f), WithFrame(c, i, f), DOMAIN slot' = DOMAIN slot
  PROVE JobsOK' /\ \A d \in Clients : job'[d].queued = job[d].queued
<1>1. PICK r, old : /\ job[c] = [queued |-> TRUE, range |-> r, frames |-> old]
                    /\ InNumbers(r) /\ job_nframes(r) # 0 /\ FramesOK(old, job_nframes(r))
  BY Shapes, Zenon
<1> DEFINE new == [old EXCEPT ![i] = f]
           n == job_nframes(r)
<1>2. job[c].frames = old
  BY <1>1, JobFields
<1>3. job' = [job EXCEPT ![c] = [queued |-> TRUE, range |-> r, frames |-> new]]
  <2>1. [job[c] EXCEPT !.frames = new] = [queued |-> TRUE, range |-> r, frames |-> new]
    <3> HIDE DEF new
    <3> DEFINE With(j) == [j EXCEPT !.frames = new]
               Old(q) == [queued |-> q, range |-> r, frames |-> old]
               New(q) == [queued |-> q, range |-> r, frames |-> new]
    <3>1. ASSUME NEW j, NEW q, j = Old(q) PROVE With(j) = New(q)
      <4>1. j \in [queued : {q}, range : {r}, frames : {old}]
        BY <3>1, Zenon
      <4> QED BY <4>1, SMT
    <3>2. job[c] = Old(TRUE)
      BY <1>1
    <3> HIDE DEF With, Old, New
    <3>3. With(job[c]) = New(TRUE)
      BY <3>1, <3>2, Zenon
    <3> QED BY <3>3, Zenon DEF With, New
  <2>2. job' = [job EXCEPT ![c] = [job[c] EXCEPT !.frames = [job[c].frames EXCEPT ![i] = f]]]
    BY Zenon DEF WithFrame
  <2> QED BY <2>1, <2>2, <1>2, Zenon
<1>4. FramesOK(new, n)'
  <2>1. old = [k \in 0 .. n - 1 |-> old[k]] /\ \A k \in 0 .. n - 1 : FrameOK(old[k])
    BY <1>1, Zenon DEF FramesOK
  <2>2. new = [k \in 0 .. n - 1 |-> new[k]]
    BY <2>1, Zenon
  <2>3. Indices(c) = 0 .. n - 1
    BY <2>1, <1>2, Zenon DEF Indices
  <2>4. ASSUME NEW k \in 0 .. n - 1 PROVE FrameOK(new[k])'
    <3>1. FrameOK(new[k])
      BY <2>1, <2>3, <2>4, Zenon
    <3> HIDE DEF new
    <3> QED BY <3>1, Zenon DEF FrameOK
  <2> HIDE DEF new, n
  <2> QED BY <2>2, <2>4, Zenon DEF FramesOK
<1> HIDE DEF new
<1>5. JobsOK' /\ job'[c].queued = TRUE /\ \A d \in Clients \ {c} : job'[d].queued = job[d].queued
  BY <1>1, <1>3, <1>4, TableChanges, Zenon
<1>6. job[c].queued = TRUE
  BY Shapes, Zenon
<1> QED BY <1>5, <1>6, Zenon

LEMMA ClientWith ==
  ASSUME NEW c, client[c] = [at |-> client[c].at, order |-> client[c].order,
                             script |-> client[c].script, told |-> client[c].told]
  PROVE \A a, f, t :
          LET x == client[c]
          IN  /\ [x EXCEPT !.at = a]
                 = [at |-> a, order |-> x.order, script |-> x.script, told |-> x.told]
              /\ [[x EXCEPT !.at = a] EXCEPT !.script = f]
                 = [at |-> a, order |-> x.order, script |-> f, told |-> x.told]
              /\ [[x EXCEPT !.at = a] EXCEPT !.told = t]
                 = [at |-> a, order |-> x.order, script |-> x.script, told |-> t]
<1> SUFFICES ASSUME NEW x, x = client[c], NEW a, NEW f, NEW t
    PROVE /\ [x EXCEPT !.at = a]
             = [at |-> a, order |-> x.order, script |-> x.script, told |-> x.told]
          /\ [[x EXCEPT !.at = a] EXCEPT !.script = f]
             = [at |-> a, order |-> x.order, script |-> f, told |-> x.told]
          /\ [[x EXCEPT !.at = a] EXCEPT !.told = t]
             = [at |-> a, order |-> x.order, script |-> x.script, told |-> t]
  BY Zenon
<1> PICK a0, o, f0, t0 : a0 = x.at /\ o = x.order /\ f0 = x.script /\ t0 = x.told
  OBVIOUS
<1>1. x \in [at : {a0}, order : {o}, script : {f0}, told : {t0}]
  BY Zenon
<1>2. [x EXCEPT !.at = a] = [at |-> a, order |-> o, script |-> f0, told |-> t0]
  BY <1>1, SMT
<1>3. PICK y : y = [x EXCEPT !.at = a]
  OBVIOUS
<1>4. y \in [at : {a}, order : {o}, script : {f0}, told : {t0}]
  BY <1>2, <1>3, Zenon
<1>5. /\ [y EXCEPT !.script = f] = [at |-> a, order |-> o, script |-> f, told |-> t0]
      /\ [y EXCEPT !.told = t] = [at |-> a, order |-> o, script |-> f0, told |-> t]
  BY <1>4, SMT
<1> QED BY <1>2, <1>3, <1>5, Zenon

(* The steps of a client before its job is registered.                     *)
LEMMA ClientSteps ==
  ASSUME IInv, NEW c \in Clients, UNCHANGED <<now, job, slot, rendered>>, ~ At(c, "done"),
         \/ \E a \in {"named", "closed"} : Moved(c, a)
         \/ \E a \in {"open", "closed"} : Writes(c, a)
         \/ Refused(c)
  PROVE IInv'
<1> DEFINE x == client[c]
<1>1. client = [d \in Clients |-> client[d]] /\ ClientOK(c)
  BY DEF IInv, ClientsOK
<1>2. /\ x = [at |-> x.at, order |-> x.order, script |-> x.script, told |-> x.told]
      /\ x.script \in Seconds \cup Clients /\ x.at # "done" /\ x.told = "no"
  BY <1>1, Zenon DEF ClientOK, At
<1>8. ~ job'[c].queued
  BY <1>1, Zenon DEF ClientOK, At
<1>3. \A a, f, t :
        /\ [x EXCEPT !.at = a]
           = [at |-> a, order |-> x.order, script |-> x.script, told |-> x.told]
        /\ [[x EXCEPT !.at = a] EXCEPT !.script = f]
           = [at |-> a, order |-> x.order, script |-> f, told |-> x.told]
        /\ [[x EXCEPT !.at = a] EXCEPT !.told = t]
           = [at |-> a, order |-> x.order, script |-> x.script, told |-> t]
  BY <1>2, ClientWith
<1>4. ScriptName(c, x.order) \in Seconds \cup Clients
  BY DEF ScriptName, IInv
<1>5. ClientsOK'
  <2>1. CASE \E a \in {"named", "closed"} : Moved(c, a)
    <3>1. PICK a \in {"named", "closed"} : client' = [client EXCEPT ![c].at = a]
      BY <2>1, Zenon DEF Moved
    <3>2. client' = [client EXCEPT ![c] = [at |-> a, order |-> x.order, script |-> x.script, told |-> "no"]]
      BY <3>1, <1>2, <1>3, Zenon
    <3>3. a # "done" /\ a \in {"starts", "open", "named", "closed", "done"}
      OBVIOUS
    <3> QED BY <3>2, <3>3, <1>2, <1>8, ClientWorks
  <2>2. CASE \E a \in {"open", "closed"} : Writes(c, a)
    <3>1. PICK a \in {"open", "closed"} :
            client' = [client EXCEPT ![c].at = a, ![c].script = ScriptName(c, x.order)]
      BY <2>2, Zenon DEF Writes
    <3>2. PICK f : f = ScriptName(c, x.order)
      OBVIOUS
    <3>4. client' = [client EXCEPT ![c] = [at |-> a, order |-> x.order, script |-> f, told |-> "no"]]
      <4> DEFINE y == [[x EXCEPT !.at = a] EXCEPT !.script = f]
      <4>1. client' = [client EXCEPT ![c] = y]
        BY <3>1, <3>2, <1>1, Zenon
      <4>2. y = [at |-> a, order |-> x.order, script |-> f, told |-> x.told]
        BY <1>3, Zenon
      <4> QED BY <4>1, <4>2, <1>2, Zenon
    <3>3. a # "done" /\ a \in {"starts", "open", "named", "closed", "done"}
      OBVIOUS
    <3> QED BY <3>2, <3>3, <3>4, <1>2, <1>4, <1>8, ClientWorks
  <2>3. CASE Refused(c)
    <3>1. client' = [client EXCEPT ![c].at = "done", ![c].told = "failed"]
      BY <2>3, Zenon DEF Refused
    <3>2. client' = [client EXCEPT ![c] = [at |-> "done", order |-> x.order, script |-> x.script, told |-> "failed"]]
      <4> DEFINE y == [[x EXCEPT !.at = "done"] EXCEPT !.told = "failed"]
      <4>1. client' = [client EXCEPT ![c] = y]
        BY <3>1, <1>1, Zenon
      <4>2. \A a, u : [[x EXCEPT !.at = a] EXCEPT !.told = u]
                       = [at |-> a, order |-> x.order, script |-> x.script, told |-> u]
        BY <1>3, Zenon
      <4>3. y = [at |-> "done", order |-> x.order, script |-> x.script, told |-> "failed"]
        BY <4>2, Zenon
      <4> QED BY <4>1, <4>3, Zenon
    <3> QED BY <3>2, <1>2, <1>8, ClientWorks
  <2> QED BY <2>1, <2>2, <2>3
<1>6. JobsOK'
  BY JobsKept
<1>7. SlotsOK'
  BY SlotsKept
<1> QED BY <1>5, <1>6, <1>7, Zenon DEF IInv, RenderedOK, Seconds, FrameNumbersUsed

(* What the actions make of a frame's record.                              *)
LEMMA FrameWith ==
  ASSUME NEW f, FrameOK(f)
  PROVE /\ \A st \in {"waiting", "error"} : FrameOK(Left(f, st))
        /\ \A e : FrameOK(Settled(f, e))
        /\ f.requeued < MaxRequeues => FrameOK(Requeued(f))
        /\ \A s \in DOMAIN slot : FrameOK([f EXCEPT !.status = "assigned", !.slot = s])
<1> PICK st0, e0, q0, s0 : st0 = f.status /\ e0 = f.exit /\ q0 = f.requeued /\ s0 = f.slot
  OBVIOUS
<1>1. f \in [status : {st0}, exit : {e0}, requeued : {q0}, slot : {s0}]
  BY Zenon DEF FrameOK
<1>2. q0 \in 0 .. MaxRequeues
  BY DEF FrameOK
<1>3. \A st, s, e, q :
        /\ st \in {"waiting", "assigned", "finished", "error"} /\ q \in 0 .. MaxRequeues
        /\ st = "assigned" => s \in DOMAIN slot
        => FrameOK([status |-> st, exit |-> e, requeued |-> q, slot |-> s])
  <2> TAKE st, s, e, q
  <2> HAVE /\ st \in {"waiting", "assigned", "finished", "error"} /\ q \in 0 .. MaxRequeues
           /\ st = "assigned" => s \in DOMAIN slot
  <2>1. PICK g : g = [status |-> st, exit |-> e, requeued |-> q, slot |-> s]
    OBVIOUS
  <2>2. g.status = st /\ g.exit = e /\ g.requeued = q /\ g.slot = s
    BY <2>1
  <2>3. FrameOK(g)
    BY <2>1, <2>2, Zenon DEF FrameOK
  <2> QED BY <2>1, <2>3, Zenon
<1>4. ASSUME NEW st, NEW s
      PROVE /\ [f EXCEPT !.status = st] \in [status : {st}, exit : {e0}, requeued : {q0}, slot : {s0}]
            /\ [[f EXCEPT !.status = st] EXCEPT !.slot = s]
               = [status |-> st, exit |-> e0, requeued |-> q0, slot |-> s]
            /\ [[f EXCEPT !.status = st] EXCEPT !.slot = s]
               \in [status : {st}, exit : {e0}, requeued : {q0}, slot : {s}]
  <2>1. [f EXCEPT !.status = st] \in [status : {st}, exit : {e0}, requeued : {q0}, slot : {s0}]
    BY <1>1, SMT
  <2>2. PICK g : g = [f EXCEPT !.status = st]
    OBVIOUS
  <2>3. g \in [status : {st}, exit : {e0}, requeued : {q0}, slot : {s0}]
    BY <2>1, <2>2, Zenon
  <2>4. /\ [g EXCEPT !.slot = s] = [status |-> st, exit |-> e0, requeued |-> q0, slot |-> s]
        /\ [g EXCEPT !.slot = s] \in [status : {st}, exit : {e0}, requeued : {q0}, slot : {s}]
    BY <2>3, SMT
  <2> QED BY <2>1, <2>2, <2>4, Zenon
<1>5. \A st : Left(f, st) = [status |-> st, exit |-> e0, requeued |-> q0, slot |-> "none"]
  BY <1>4, Zenon DEF Left
<1>6. \A st : Left(f, st) \in [status : {st}, exit : {e0}, requeued : {q0}, slot : {"none"}]
  BY <1>4, Zenon DEF Left
<1>7. \A st \in {"waiting", "error"} : FrameOK(Left(f, st))
  <2> TAKE st \in {"waiting", "error"}
  <2>1. st # "assigned" /\ st \in {"waiting", "assigned", "finished", "error"}
    OBVIOUS
  <2>2. FrameOK([status |-> st, exit |-> e0, requeued |-> q0, slot |-> "none"])
    BY <2>1, <1>2, <1>3, Zenon
  <2> QED BY <2>2, <1>5, Zenon
<1>8. \A e : FrameOK(Settled(f, e))
  <2> TAKE e
  <2>1. PICK g : g = Left(f, "finished")
    OBVIOUS
  <2>2. g \in [status : {"finished"}, exit : {e0}, requeued : {q0}, slot : {"none"}]
    BY <2>1, <1>6, Zenon
  <2>3. [g EXCEPT !.exit = e] = [status |-> "finished", exit |-> e, requeued |-> q0, slot |-> "none"]
    BY <2>2, SMT
  <2>4. "finished" # "assigned" /\ "finished" \in {"waiting", "assigned", "finished", "error"}
    OBVIOUS
  <2>5. FrameOK([status |-> "finished", exit |-> e, requeued |-> q0, slot |-> "none"])
    BY <2>4, <1>2, <1>3, Zenon
  <2> QED BY <2>1, <2>3, <2>5, Zenon DEF Settled
<1>9. ASSUME f.requeued < MaxRequeues PROVE FrameOK(Requeued(f))
  <2>1. PICK g : g = Left(f, "waiting")
    OBVIOUS
  <2>2. g \in [status : {"waiting"}, exit : {e0}, requeued : {q0}, slot : {"none"}]
    BY <2>1, <1>6, Zenon
  <2>3. [g EXCEPT !.requeued = g.requeued + 1]
        = [status |-> "waiting", exit |-> e0, requeued |-> q0 + 1, slot |-> "none"]
    BY <2>2, SMT
  <2>4. q0 + 1 \in 0 .. MaxRequeues
    BY <1>2, <1>9, BoundsAssumption
  <2>5. "waiting" # "assigned" /\ "waiting" \in {"waiting", "assigned", "finished", "error"}
    OBVIOUS
  <2>6. FrameOK([status |-> "waiting", exit |-> e0, requeued |-> q0 + 1, slot |-> "none"])
    BY <2>4, <2>5, <1>3, Zenon
  <2> QED BY <2>1, <2>3, <2>6, Zenon DEF Requeued
<1>10. \A s \in DOMAIN slot : FrameOK([f EXCEPT !.status = "assigned", !.slot = s])
  <2> TAKE s \in DOMAIN slot
  <2>1. "assigned" \in {"waiting", "assigned", "finished", "error"}
    OBVIOUS
  <2>2. FrameOK([status |-> "assigned", exit |-> e0, requeued |-> q0, slot |-> s])
    BY <2>1, <1>2, <1>3, Zenon
  <2> QED BY <2>2, <1>4, Zenon
<1> QED BY <1>7, <1>8, <1>9, <1>10

LEMMA NewFrameOK == FrameOK(NewFrame)
<1>1. 0 \in 0 .. MaxRequeues
  BY BoundsAssumption
<1> QED BY <1>1, Zenon DEF FrameOK, NewFrame

LEMMA FramesAreOK ==
  ASSUME IInv, NEW c \in Clients, job[c].queued
  PROVE /\ Indices(c) = 0 .. job_nframes(job[c].range) - 1
        /\ \A i \in Indices(c) : FrameOK(Frame(c, i))
<1>1. FramesOK(job[c].frames, job_nframes(job[c].range))
  BY Shapes
<1> QED BY <1>1, Zenon DEF FramesOK, Indices, Frame

----------------------------------------------------------------------------
LEMMA RegisterStep ==
  ASSUME IInv, NEW c \in Clients, register_job(c)
  PROVE IInv'
<1> DEFINE x == client[c]
<1>1. client = [d \in Clients |-> client[d]] /\ ClientOK(c)
  BY DEF IInv, ClientsOK
<1>2. /\ x = [at |-> x.at, order |-> x.order, script |-> x.script, told |-> x.told]
      /\ x.script \in Seconds \cup Clients /\ x.at # "done" /\ x.told = "no"
  BY <1>1, Zenon DEF ClientOK, At, register_job
<1>3. Sane(x.order) /\ ~ job[c].queued
  BY <1>1, Zenon DEF ClientOK, At, register_job
<1>4. UNCHANGED <<now, slot, rendered>>
  BY DEF register_job
<1>5. PICK r : r = job_bswap_from_network(Sent(x.order))
  OBVIOUS
<1>6. PICK n : n = job_nframes(r)
  OBVIOUS
<1>7. CASE FitsMemory(n)
  <2>1. PICK t : t = IF RegistersLux(x.order) THEN "failed" ELSE "sent"
    OBVIOUS
  <2>2. PICK g : g = [i \in 0 .. n - 1 |-> NewFrame]
    OBVIOUS
  <2>3. /\ job' = [job EXCEPT ![c] = [queued |-> TRUE, range |-> r, frames |-> g]]
        /\ client' = [client EXCEPT ![c].at = "done", ![c].told = t]
    BY <1>5, <1>6, <1>7, <2>1, <2>2, Zenon DEF register_job
  <2>4. InNumbers(r) /\ n # 0
    BY <1>3, <1>5, <1>7 DEF Sane, FitsMemory
  <2>5. FramesOK(g, n)'
    <3>1. FrameOK(NewFrame)'
      BY NewFrameOK, <1>4, Zenon DEF FrameOK, NewFrame
    <3>2. g = [i \in 0 .. n - 1 |-> g[i]] /\ \A i \in 0 .. n - 1 : g[i] = NewFrame
      BY <2>2, Zenon
    <3> QED BY <3>1, <3>2, Zenon DEF FramesOK
  <2>6. JobsOK' /\ job'[c].queued = TRUE /\ \A d \in Clients \ {c} : job'[d].queued = job[d].queued
    BY <1>4, <1>6, <2>3, <2>4, <2>5, TableChanges, Zenon
  <2>7. client' = [client EXCEPT ![c] = [at |-> "done", order |-> x.order, script |-> x.script, told |-> t]]
    <3> DEFINE y == [[x EXCEPT !.at = "done"] EXCEPT !.told = t]
    <3>1. client' = [client EXCEPT ![c] = y]
      BY <2>3, <1>1, Zenon
    <3>2. \A a, f, u :
            /\ [x EXCEPT !.at = a]
               = [at |-> a, order |-> x.order, script |-> x.script, told |-> x.told]
            /\ [[x EXCEPT !.at = a] EXCEPT !.script = f]
               = [at |-> a, order |-> x.order, script |-> f, told |-> x.told]
            /\ [[x EXCEPT !.at = a] EXCEPT !.told = u]
               = [at |-> a, order |-> x.order, script |-> x.script, told |-> u]
      BY <1>2, ClientWith
    <3>3. y = [at |-> "done", order |-> x.order, script |-> x.script, told |-> t]
      BY <3>2, Zenon
    <3> QED BY <3>1, <3>3, Zenon
  <2>8. t \in {"failed", "sent"} /\ (t = "failed" => SaysFailed(x.order))
    BY <2>1 DEF RegistersLux, SaysFailed
  <2>9. ClientsOK'
    <3>1. "done" \in {"starts", "open", "named", "closed", "done"} /\ t \in {"no", "failed", "sent"}
      BY <2>8
    <3>2. t = "sent" => job'[c].queued
      BY <2>6
    <3>3. t = "failed" => ~ job'[c].queued \/ SaysFailed(x.order)
      BY <2>8
    <3>4. PICK f, a : f = x.script /\ a = "done"
      OBVIOUS
    <3>5. /\ f \in Seconds \cup Clients /\ client[c].at # "done"
          /\ a \in {"starts", "open", "named", "closed", "done"}
      BY <1>2, <3>1, <3>4
    <3>6. client' = [client EXCEPT ![c] = [at |-> a, order |-> client[c].order, script |-> f, told |-> t]]
      BY <2>7, <3>4, Zenon
    <3>7. a # "done" => t = "no" /\ ~ job'[c].queued
      BY <3>4
    <3>8. t \in {"no", "failed", "sent"}
      BY <3>1
    <3>9. \A d \in Clients \ {c} : job'[d].queued = job[d].queued
      BY <2>6
    <3> QED BY <3>2, <3>3, <3>5, <3>6, <3>7, <3>8, <3>9, ClientWorks
  <2>10. SlotsOK'
    <3>1. \A d \in Clients : job[d].queued => job'[d].queued
      BY <2>6, Zenon
    <3> QED BY <3>1, <1>4, Zenon DEF IInv, SlotsOK, SlotOK, Free
  <2> QED BY <2>6, <2>9, <2>10, <1>4, Zenon DEF IInv, RenderedOK, Seconds, FrameNumbersUsed
<1>8. CASE ~ FitsMemory(n)
  <2>1. Refused(c) /\ UNCHANGED <<now, job, slot, rendered>>
    BY <1>4, <1>5, <1>6, <1>8 DEF register_job
  <2> QED BY <2>1, <1>2, ClientSteps DEF At
<1> QED BY <1>7, <1>8

(* The range changes: every record of the new table was one of the old,    *)
(* for a number of the old range has an index in the old table.            *)
LEMMA RangeStep ==
  ASSUME IInv, NEW c \in Clients, handle_r_r_jobsesup(c)
  PROVE IInv'
<1>1. PICK r \in client[c].order.changes :
        /\ FitsMemory(job_nframes(r))
        /\ job' = [job EXCEPT ![c].range = r,
                     ![c].frames = [i \in 0 .. job_nframes(r) - 1 |-> OldRecord(c, r, i)]]
  BY Zenon DEF handle_r_r_jobsesup
<1>2. job[c].queued /\ UNCHANGED <<now, client, slot, rendered>>
  BY DEF handle_r_r_jobsesup
<1>3. InNumbers(r) /\ job_nframes(r) # 0
  <2>1. ClientOK(c)
    BY DEF IInv, ClientsOK
  <2> QED BY <1>1, <1>2, <2>1 DEF ClientOK, Sane, FitsMemory
<1>4. PICK old, o : /\ job[c] = [queued |-> TRUE, range |-> o, frames |-> old]
                   /\ InNumbers(o) /\ job_nframes(o) # 0
  BY <1>2, Shapes, Zenon
<1>5. job[c].range = o /\ job[c].frames = old
  BY <1>4, JobFields
<1>6. PICK n : n = job_nframes(r)
  OBVIOUS
<1>7. PICK g : g = [i \in 0 .. n - 1 |-> OldRecord(c, r, i)]
  OBVIOUS
<1>8. ASSUME NEW i \in 0 .. n - 1 PROVE FrameOK(OldRecord(c, r, i))
  <2> DEFINE m == job_frame_index_to_number(r, i)
  <2>1. m \in Int
    <3>1. r.start + i * r.block * r.step \in Int
      BY <1>3, Numbers
    <3> QED BY <3>1, Modulus DEF job_frame_index_to_number, Wrap
  <2>2. CASE job_frame_number_correct(o, m)
    <3>1. job_frame_number_to_index(o, m) \in Indices(c)
      BY <1>2, <1>4, <1>5, <2>1, <2>2, IndexOfNumber, FramesAreOK
    <3> QED BY <1>2, <1>5, <2>2, <3>1, FramesAreOK, Zenon DEF OldRecord
  <2>3. CASE ~ job_frame_number_correct(o, m)
    BY <1>5, <2>3, NewFrameOK, Zenon DEF OldRecord
  <2> QED BY <2>2, <2>3
<1>9. FramesOK(g, n)'
  <2>1. g = [i \in 0 .. n - 1 |-> g[i]] /\ \A i \in 0 .. n - 1 : FrameOK(g[i])
    BY <1>7, <1>8, Zenon
  <2> QED BY <2>1, <1>2, Zenon DEF FramesOK, FrameOK
<1>10. job' = [job EXCEPT ![c] = [queued |-> TRUE, range |-> r, frames |-> g]]
  <2>1. job = [d \in Clients |-> job[d]]
    BY Zenon DEF IInv, JobsOK
  <2> DEFINE With(j) == [[j EXCEPT !.range = r] EXCEPT !.frames = g]
             Old(q) == [queued |-> q, range |-> o, frames |-> old]
             New(q) == [queued |-> q, range |-> r, frames |-> g]
  <2>2. ASSUME NEW j, NEW q, j = Old(q) PROVE With(j) = New(q)
    <3>1. j \in [queued : {q}, range : {o}, frames : {old}]
      BY <2>2, Zenon
    <3>2. PICK k : k = [j EXCEPT !.range = r]
      OBVIOUS
    <3>3. k = [queued |-> q, range |-> r, frames |-> old]
      BY <3>1, <3>2, SMT
    <3>4. k \in [queued : {q}, range : {r}, frames : {old}]
      BY <3>3, Zenon
    <3>5. [k EXCEPT !.frames = g] = [queued |-> q, range |-> r, frames |-> g]
      BY <3>4, SMT
    <3> QED BY <3>2, <3>5, Zenon
  <2>3. job[c] = Old(TRUE)
    BY <1>4
  <2>4. job' = [job EXCEPT ![c] = With(job[c])]
    BY <1>1, <1>6, <1>7, <2>1, Zenon
  <2> HIDE DEF With, Old, New
  <2>5. With(job[c]) = New(TRUE)
    BY <2>2, <2>3, Zenon
  <2> QED BY <2>4, <2>5, Zenon DEF New
<1>11. /\ JobsOK' /\ job'[c].queued = TRUE
       /\ \A d \in Clients \ {c} : job'[d].queued = job[d].queued
  BY <1>2, <1>3, <1>6, <1>9, <1>10, TableChanges, Zenon
<1>12. \A d \in Clients : job'[d].queued = job[d].queued
  <2>1. job[c].queued = TRUE
    BY <1>2, Shapes, Zenon
  <2> QED BY <1>11, <2>1, Zenon
<1> QED BY <1>2, <1>11, <1>12, ClientsKept, SlotsKept DEF IInv, RenderedOK, Seconds, FrameNumbersUsed

----------------------------------------------------------------------------
(* The steps of a frame and of a slot.                                     *)
LEMMA SlotFields ==
  ASSUME NEW h, NEW j, NEW e, NEW t, NEW x, x = [held |-> h, job |-> j, exit |-> e, task |-> t]
  PROVE x.held = h /\ x.job = j /\ x.exit = e /\ x.task = t
  OBVIOUS

LEMMA HeldSlot ==
  ASSUME IInv, NEW s \in DOMAIN slot, slot[s].held
  PROVE /\ slot[s] = [held |-> TRUE, job |-> slot[s].job, exit |-> slot[s].exit, task |-> slot[s].task]
        /\ slot[s].exit \in {"none", "zero", "one", "signal"}
        /\ slot[s].job \in Clients /\ job[slot[s].job].queued
<1>1. SlotOK(s)
  BY Zenon DEF IInv, SlotsOK
<1>2. slot[s] # Free
  <2>1. Free.held = FALSE
    BY DEF Free
  <2> QED BY <2>1
<1> QED BY <1>1, <1>2, Zenon DEF SlotOK

LEMMA SlotChanges ==
  ASSUME IInv, NEW s \in DOMAIN slot, NEW x, slot' = [slot EXCEPT ![s] = x],
         \A d \in Clients : job'[d].queued = job[d].queued,
         \/ x = Free
         \/ \E j \in Clients : \E e \in {"none", "zero", "one", "signal"} : \E t :
              x = [held |-> TRUE, job |-> j, exit |-> e, task |-> t] /\ job[j].queued
  PROVE SlotsOK' /\ DOMAIN slot' = DOMAIN slot
<1>1. slot = [d \in DOMAIN slot |-> slot[d]] /\ \A d \in DOMAIN slot : SlotOK(d)
  BY Zenon DEF IInv, SlotsOK
<1>2. DOMAIN slot' = DOMAIN slot /\ slot' = [d \in DOMAIN slot' |-> slot'[d]]
  BY <1>1, Zenon
<1>3. ASSUME NEW d \in DOMAIN slot' PROVE SlotOK(d)'
  <2>1. CASE d = s
    <3>1. slot'[s] = x
      BY <1>1, Zenon
    <3>2. CASE x = Free
      BY <2>1, <3>1, <3>2, Zenon DEF SlotOK, Free
    <3>3. CASE x # Free
      <4>1. PICK j, e, t :
              /\ j \in Clients /\ e \in {"none", "zero", "one", "signal"}
              /\ x = [held |-> TRUE, job |-> j, exit |-> e, task |-> t] /\ job[j].queued
        BY <3>3, Zenon
      <4>2. x.job = j /\ x.exit = e /\ x.task = t
        BY <4>1, SlotFields
      <4>3. job'[j].queued
        BY <4>1
      <4> QED BY <2>1, <3>1, <4>1, <4>2, <4>3, Zenon DEF SlotOK
    <3> QED BY <3>2, <3>3
  <2>2. CASE d # s
    <3>1. slot'[d] = slot[d]
      BY <2>2, <1>1, <1>2, Zenon
    <3> QED BY <1>1, <1>2, <3>1, Zenon DEF SlotOK, Free
  <2> QED BY <2>1, <2>2
<1> QED BY <1>2, <1>3, Zenon DEF SlotsOK

LEMMA AvailableStep ==
  ASSUME IInv, NEW c \in Clients, NEW s, job_available(c, s)
  PROVE IInv'
<1>1. PICK i, t :
        /\ WithFrame(c, i, [Frame(c, i) EXCEPT !.status = "assigned", !.slot = s])
        /\ slot' = [slot EXCEPT ![s] = [held |-> TRUE, job |-> c, exit |-> "none", task |-> t]]
  BY Zenon DEF job_available
<1>2. job[c].queued /\ s \in DOMAIN slot /\ UNCHANGED <<now, client, rendered>>
  BY DEF job_available
<1>3. PICK f : f = [Frame(c, i) EXCEPT !.status = "assigned", !.slot = s]
  OBVIOUS
<1>4. i \in Indices(c) => FrameOK(f)
  BY <1>2, <1>3, FramesAreOK, FrameWith, Zenon
<1>5. DOMAIN slot' = DOMAIN slot
  BY <1>1, Zenon
<1>6. JobsOK' /\ \A d \in Clients : job'[d].queued = job[d].queued
  BY <1>1, <1>2, <1>3, <1>4, <1>5, FrameChanges, Zenon
<1>7. SlotsOK'
  <2>1. PICK x : x = [held |-> TRUE, job |-> c, exit |-> "none", task |-> t]
    OBVIOUS
  <2>2. "none" \in {"none", "zero", "one", "signal"}
    OBVIOUS
  <2>3. \E j \in Clients : \E e \in {"none", "zero", "one", "signal"} : \E u :
          x = [held |-> TRUE, job |-> j, exit |-> e, task |-> u] /\ job[j].queued
    BY <1>2, <2>1, <2>2, Zenon
  <2> QED BY <1>1, <1>2, <1>6, <2>1, <2>3, SlotChanges, Zenon
<1> QED BY <1>2, <1>6, <1>7, ClientsKept DEF IInv, RenderedOK, Seconds, FrameNumbersUsed

LEMMA CheckStep ==
  ASSUME IInv, NEW c \in Clients, NEW i, job_check_frame_status(c, i)
  PROVE IInv'
<1>1. /\ WithFrame(c, i, Left(Frame(c, i), "waiting")) /\ job[c].queued
      /\ UNCHANGED <<now, client, slot, rendered>>
  BY DEF job_check_frame_status
<1>2. PICK f : f = Left(Frame(c, i), "waiting")
  OBVIOUS
<1>3. i \in Indices(c) => FrameOK(f)
  <2>1. "waiting" \in {"waiting", "error"}
    OBVIOUS
  <2> QED BY <1>1, <1>2, <2>1, FramesAreOK, FrameWith, Zenon
<1>4. JobsOK' /\ \A d \in Clients : job'[d].queued = job[d].queued
  BY <1>1, <1>2, <1>3, FrameChanges, Zenon
<1> QED BY <1>1, <1>4, ClientsKept, SlotsKept DEF IInv, RenderedOK, Seconds, FrameNumbersUsed

LEMMA LaunchStep ==
  ASSUME IInv, NEW s, launch_task(s)
  PROVE IInv'
<1>1. s \in DOMAIN slot /\ slot[s].held /\ UNCHANGED <<now, client, job>>
  BY DEF launch_task, Renders
<1>2. PICK run :
        /\ \E exit \in ExitOf(run) : slot' = [slot EXCEPT ![s].exit = exit]
        /\ rendered' =
             IF run.rendered = <<>> THEN rendered
             ELSE [c \in Clients |-> [n \in FrameNumbersUsed |->
                     Capped(rendered[c][n] + Times(run, c, n))]]
  BY Zenon DEF launch_task
<1>3. PICK exit \in ExitOf(run) : slot' = [slot EXCEPT ![s].exit = exit]
  BY <1>2
<1>4. exit \in {"none", "zero", "one", "signal"}
  BY <1>3 DEF ExitOf
<1> PICK j, e, t : j = slot[s].job /\ e = slot[s].exit /\ t = slot[s].task
  OBVIOUS
<1>5. /\ slot[s] = [held |-> TRUE, job |-> j, exit |-> e, task |-> t]
      /\ j \in Clients /\ job[j].queued
  BY <1>1, HeldSlot
<1>6. slot' = [slot EXCEPT ![s] = [held |-> TRUE, job |-> j, exit |-> exit, task |-> t]]
  <2> DEFINE With(x) == [x EXCEPT !.exit = exit]
             Old(h) == [held |-> h, job |-> j, exit |-> e, task |-> t]
             New(h) == [held |-> h, job |-> j, exit |-> exit, task |-> t]
  <2>1. ASSUME NEW x, NEW h, x = Old(h) PROVE With(x) = New(h)
    <3>1. x \in [held : {h}, job : {j}, exit : {e}, task : {t}]
      BY <2>1, Zenon
    <3> QED BY <3>1, SMT
  <2>2. slot[s] = Old(TRUE)
    BY <1>5
  <2>3. slot' = [slot EXCEPT ![s] = With(slot[s])]
    BY <1>3, Zenon
  <2> HIDE DEF With, Old, New
  <2>4. With(slot[s]) = New(TRUE)
    BY <2>1, <2>2, Zenon
  <2> QED BY <2>3, <2>4, Zenon DEF New
<1>7. SlotsOK' /\ DOMAIN slot' = DOMAIN slot
  <2>1. PICK x : x = [held |-> TRUE, job |-> j, exit |-> exit, task |-> t]
    OBVIOUS
  <2>2. \E k \in Clients : \E d \in {"none", "zero", "one", "signal"} : \E u :
          x = [held |-> TRUE, job |-> k, exit |-> d, task |-> u] /\ job[k].queued
    BY <1>4, <1>5, <2>1, Zenon
  <2> QED BY <1>1, <1>6, <2>1, <2>2, SlotChanges, Zenon
<1>8. RenderedOK'
  <2>1. CASE rendered' = rendered
    BY <2>1, Zenon DEF IInv, RenderedOK, FrameNumbersUsed
  <2>2. CASE rendered' # rendered
    <3>1. rendered' = [c \in Clients |-> [n \in FrameNumbersUsed |->
                        Capped(rendered[c][n] + Times(run, c, n))]]
      BY <1>2, <2>2, Zenon
    <3>2. ASSUME NEW m PROVE Capped(m) \in 0 .. 2
      BY DEF Capped
    <3>3. rendered' = [c \in Clients |-> rendered'[c]]
      BY <3>1, Zenon
    <3>4. ASSUME NEW c \in Clients PROVE rendered'[c] \in [FrameNumbersUsed -> 0 .. 2]
      <4>1. rendered'[c] = [n \in FrameNumbersUsed |-> Capped(rendered[c][n] + Times(run, c, n))]
        BY <3>1, Zenon
      <4> QED BY <4>1, <3>2, Zenon
    <3> QED BY <3>3, <3>4, Zenon DEF RenderedOK, FrameNumbersUsed
  <2> QED BY <2>1, <2>2
<1> QED BY <1>1, <1>7, <1>8, ClientsKept, JobsKept DEF IInv, Seconds

LEMMA ReportStep ==
  ASSUME IInv, NEW s, handle_r_r_taskfini(s)
  PROVE IInv'
<1>1. s \in DOMAIN slot /\ slot[s].held /\ slot' = [slot EXCEPT ![s] = Free]
      /\ UNCHANGED <<now, client, rendered>>
  BY DEF handle_r_r_taskfini
<1>2. PICK c : c = slot[s].job
  OBVIOUS
<1>3. c \in Clients /\ job[c].queued
  BY <1>1, <1>2, HeldSlot
<1>4. DOMAIN slot' = DOMAIN slot
  BY <1>1, Zenon
<1>5. JobsOK' /\ \A d \in Clients : job'[d].queued = job[d].queued
  <2>1. CASE job' = job
    BY <2>1, <1>4, JobsKept
  <2>2. CASE job' # job
    <3>1. PICK i : WithFrame(c, i, IF slot[s].exit = "signal"
                                   THEN Interrupted(Frame(c, i), TriesAgain(client[c].order))
                                   ELSE Settled(Frame(c, i), slot[s].exit))
      BY <2>2, <1>2, Zenon DEF handle_r_r_taskfini
    <3>2. PICK f : f = IF slot[s].exit = "signal"
                       THEN Interrupted(Frame(c, i), TriesAgain(client[c].order))
                       ELSE Settled(Frame(c, i), slot[s].exit)
      OBVIOUS
    <3>3. ASSUME i \in Indices(c) PROVE FrameOK(f)
      <4>1. FrameOK(Frame(c, i))
        BY <1>3, <3>3, FramesAreOK
      <4>2. "error" \in {"waiting", "error"}
        OBVIOUS
      <4> QED BY <3>2, <4>1, <4>2, FrameWith, Zenon DEF Interrupted
    <3> QED BY <1>3, <1>4, <3>1, <3>2, <3>3, FrameChanges, Zenon
  <2> QED BY <2>1, <2>2
<1>6. SlotsOK'
  BY <1>1, <1>5, SlotChanges, Zenon
<1> QED BY <1>1, <1>5, <1>6, ClientsKept DEF IInv, RenderedOK, Seconds, FrameNumbersUsed

----------------------------------------------------------------------------
LEMMA InitOK == Init => IInv
<1> SUFFICES ASSUME Init PROVE IInv
  OBVIOUS
<1>1. PICK w \in Workloads :
        /\ slot = [s \in w.slots |-> Free]
        /\ client = [c \in Clients |->
             [at |-> IF c \in DOMAIN w.orders THEN "starts" ELSE "done",
              order |-> IF c \in DOMAIN w.orders THEN w.orders[c] ELSE <<>>,
              script |-> 1, told |-> "no"]]
  BY Zenon DEF Init
<1>2. /\ now = 1 /\ job = [c \in Clients |-> NoJob]
      /\ rendered = [c \in Clients |-> [n \in FrameNumbersUsed |-> 0]]
  BY DEF Init
<1>3. 1 \in Seconds /\ 0 \in 0 .. 2
  BY BoundsAssumption DEF Seconds
<1>4. ClientsOK
  <2>1. ASSUME NEW c \in Clients PROVE ClientOK(c)
    <3>1. PICK a, o : /\ a = IF c \in DOMAIN w.orders THEN "starts" ELSE "done"
                      /\ o = IF c \in DOMAIN w.orders THEN w.orders[c] ELSE <<>>
      OBVIOUS
    <3>2. client[c] = [at |-> a, order |-> o, script |-> 1, told |-> "no"]
      BY <1>1, <3>1, Zenon
    <3>3. client[c].at = a /\ client[c].order = o /\ client[c].script = 1 /\ client[c].told = "no"
      BY <3>2
    <3>4. ~ job[c].queued
      BY <1>2 DEF NoJob
    <3>5. a # "done" => Sane(o)
      BY <3>1, WorkloadsAssumption, Zenon DEF Sane
    <3>6. a \in {"starts", "open", "named", "closed", "done"}
      BY <3>1
    <3> QED BY <3>2, <3>3, <3>4, <3>5, <3>6, <1>3 DEF ClientOK
  <2>2. client = [c \in Clients |-> client[c]]
    BY <1>1, Zenon
  <2> QED BY <2>1, <2>2, Zenon DEF ClientsOK
<1>5. JobsOK
  BY <1>2, Zenon DEF JobsOK, JobOK
<1>6. SlotsOK
  BY <1>1, Zenon DEF SlotsOK, SlotOK
<1>7. RenderedOK
  BY <1>2, <1>3, Zenon DEF RenderedOK
<1> QED BY <1>2, <1>3, <1>4, <1>5, <1>6, <1>7 DEF IInv

LEMMA StepOK == IInv /\ [Next]_vars => IInv'
<1> SUFFICES ASSUME IInv, [Next]_vars PROVE IInv'
  OBVIOUS
<1>1. ASSUME Tick PROVE IInv'
  <2>1. now' \in Seconds
    BY <1>1, BoundsAssumption DEF Tick, IInv, Seconds
  <2>2. UNCHANGED <<client, job, slot, rendered>>
    BY <1>1 DEF Tick
  <2>3. ClientsOK' /\ SlotsOK' /\ JobsOK' /\ RenderedOK'
    BY <2>2, ClientsKept, SlotsKept, JobsKept DEF IInv, RenderedOK, FrameNumbersUsed
  <2> QED BY <2>1, <2>3 DEF IInv, Seconds
<1>2. ASSUME NEW c \in Clients, xxxsg_create(c) PROVE IInv'
  <2>1. Writes(c, "open") /\ ~ At(c, "done") /\ UNCHANGED <<now, job, slot, rendered>>
    BY <1>2 DEF xxxsg_create, At
  <2> QED BY <2>1, ClientSteps
<1>3. ASSUME NEW c \in Clients, ScriptRefused(c) PROVE IInv'
  <2>1. Refused(c) /\ ~ At(c, "done") /\ UNCHANGED <<now, job, slot, rendered>>
    BY <1>3 DEF ScriptRefused, At
  <2> QED BY <2>1, ClientSteps
<1>4. ASSUME NEW c \in Clients, OwnCommand(c) PROVE IInv'
  <2>1. Writes(c, "closed") /\ ~ At(c, "done") /\ UNCHANGED <<now, job, slot, rendered>>
    BY <1>4 DEF OwnCommand, At
  <2> QED BY <2>1, ClientSteps
<1>5. ASSUME NEW c \in Clients, jobscript_set_variable(c) PROVE IInv'
  <2>1. /\ Refused(c) \/ Moved(c, "named") \/ Moved(c, "closed")
        /\ ~ At(c, "done") /\ UNCHANGED <<now, job, slot, rendered>>
    BY <1>5 DEF jobscript_set_variable, At
  <2> QED BY <2>1, ClientSteps
<1>6. ASSUME NEW c \in Clients, jobscript_template_write(c) PROVE IInv'
  <2>1. Moved(c, "closed") /\ ~ At(c, "done") /\ UNCHANGED <<now, job, slot, rendered>>
    BY <1>6 DEF jobscript_template_write, At
  <2> QED BY <2>1, ClientSteps
<1>7. CASE UNCHANGED vars
  <2>1. UNCHANGED <<now, client, job, slot, rendered>>
    BY <1>7 DEF vars
  <2> QED BY <2>1, ClientsKept, SlotsKept, JobsKept DEF IInv, RenderedOK, FrameNumbersUsed, Seconds
<1> QED BY <1>1, <1>2, <1>3, <1>4, <1>5, <1>6, <1>7, RegisterStep, RangeStep, AvailableStep,
           CheckStep, LaunchStep, ReportStep, Zenon DEF Next

THEOREM Invariant == Spec => []IInv
<1>1. IInv /\ [Next]_vars => IInv'
  BY StepOK
<1> QED BY InitOK, <1>1, PTL DEF Spec

(* Every record is one the code keeps: a job has as many frames as its     *)
(* range asks for, whatever becomes of the range (request.c:3600).         *)
THEOREM RecordsAreKept == Spec => []TypeOK
<1>1. IInv => TypeOK
  <2> SUFFICES ASSUME IInv PROVE TypeOK
    OBVIOUS
  <2>1. ASSUME NEW c \in Clients
        PROVE /\ client[c].at \in {"starts", "open", "named", "closed", "done"}
              /\ client[c].script \in Seconds \cup Clients
              /\ client[c].told \in {"no", "failed", "sent"}
              /\ rendered[c] \in [FrameNumbersUsed -> 0 .. 2]
    BY Zenon DEF IInv, ClientsOK, ClientOK, RenderedOK
  <2>2. ASSUME NEW c \in Clients, job[c].queued
        PROVE /\ Indices(c) = 0 .. job_nframes(job[c].range) - 1
              /\ \A i \in Indices(c) :
                   /\ Frame(c, i).status \in {"waiting", "assigned", "finished", "error"}
                   /\ Frame(c, i).requeued \in 0 .. MaxRequeues
                   /\ Frame(c, i).status = "assigned" => Frame(c, i).slot \in DOMAIN slot
    BY <2>2, FramesAreOK, Zenon DEF FrameOK
  <2>3. ASSUME NEW s \in DOMAIN slot, slot[s].held
        PROVE job[slot[s].job].queued /\ slot[s].exit \in {"none", "zero", "one", "signal"}
    BY <2>3, HeldSlot
  <2>4. now \in Seconds
    BY DEF IInv
  <2> QED BY <2>1, <2>2, <2>3, <2>4, Zenon DEF TypeOK
<1> QED BY Invariant, <1>1, PTL

(* What a client says of its job is true of the master's queue, however    *)
(* its requests were refused, but for the XSI jobs of sendjob, of which it *)
(* says that they failed (sendjob.cpp:208).                                *)
THEOREM ClientsTellTheTruth == Spec => []ToldTheTruth
<1>1. IInv => ToldTheTruth
  BY Zenon DEF IInv, ClientsOK, ClientOK, ToldTheTruth
<1> QED BY Invariant, <1>1, PTL

(* Induction over an interval, stated for a set of numbers.                *)
LEMMA IntervalInduction ==
  ASSUME NEW n \in Nat, NEW S, 0 \in S, \A i \in 1 .. n : i - 1 \in S => i \in S
  PROVE  \A i \in 0 .. n : i \in S
<1> DEFINE W == {i \in 0 .. n : i \notin S}
<1> SUFFICES ASSUME W # {} PROVE FALSE
  OBVIOUS
<1>1. PICK x \in W : \A y \in W : ~ (<<y, x>> \in OpToRel(<, Nat))
  <2>1. W \subseteq Nat
    OBVIOUS
  <2> HIDE DEF W
  <2> QED BY <2>1, WFMin, NatLessThanWellFounded
<1>2. OpToRel(<, Nat) = {ss \in Nat \X Nat : ss[1] < ss[2]}
  BY Zenon DEF OpToRel
<1>3. x \in 1 .. n
  OBVIOUS
<1>4. x - 1 \notin W
  <2>1. <<x - 1, x>> \in Nat \X Nat /\ x - 1 < x
    BY <1>3
  <2>2. <<x - 1, x>> \in {ss \in Nat \X Nat : ss[1] < ss[2]}
    BY <2>1
  <2> QED BY <1>1, <1>2, <2>2
<1> QED BY <1>3, <1>4

(* A set of indices has a first one.                                       *)
LEMMA FirstIndex ==
  ASSUME NEW n \in Int, NEW W, W \subseteq 0 .. n, W # {}
  PROVE \E k \in W : \A m \in W : k <= m
<1>1. W \subseteq Nat
  OBVIOUS
<1>2. PICK x \in W : \A y \in W : ~ (<<y, x>> \in OpToRel(<, Nat))
  BY <1>1, WFMin, NatLessThanWellFounded
<1>3. OpToRel(<, Nat) = {ss \in Nat \X Nat : ss[1] < ss[2]}
  BY Zenon DEF OpToRel
<1>4. ASSUME NEW y \in W PROVE x <= y
  <2> SUFFICES ASSUME y < x PROVE FALSE
    BY <1>1
  <2>1. <<y, x>> \in Nat \X Nat
    BY <1>1
  <2>2. <<y, x>> \in {ss \in Nat \X Nat : ss[1] < ss[2]}
    BY <2>1
  <2> QED BY <1>2, <1>3, <2>2
<1> QED BY <1>4

----------------------------------------------------------------------------
(* Tasks.                                                                  *)
Forward(r) == InNumbers(r) /\ r.start <= r.end /\ job_nframes(r) # 0
Task(r, i) == task_set_to_job_frame(r, job_frame_index_to_number(r, i))

LEMMA TaskFields ==
  ASSUME NEW r, Forward(r), NEW i \in 0 .. job_nframes(r) - 1
  PROVE /\ Task(r, i).frame = job_frame_index_to_number(r, i)
        /\ Task(r, i).end = r.end /\ Task(r, i).step = r.step /\ Task(r, i).block = r.block
        /\ Task(r, i).frame \in Nat /\ Task(r, i).frame <= r.end
        /\ r.block \in Nat \ {0} /\ r.step \in Nat \ {0} /\ r.end \in Nat /\ r.start \in Nat
<1>1. /\ Task(r, i).frame = job_frame_index_to_number(r, i)
      /\ Task(r, i).end = r.end /\ Task(r, i).step = r.step /\ Task(r, i).block = r.block
  BY DEF Task, task_set_to_job_frame
<1>2. r.start \in Nat /\ r.end \in Nat
  BY Numbers DEF Forward
<1>3. r.step \in Nat \ {0} /\ r.block \in Nat \ {0}
  BY Steps DEF Forward
<1>4. /\ job_frame_index_to_number(r, i) = r.start + i * Size(r)
      /\ i * Size(r) \in Nat /\ i * Size(r) <= r.end - r.start
  BY NumberOfIndex DEF Forward
<1> QED BY <1>1, <1>2, <1>3, <1>4

(* The frames two tasks of one range are told to render are apart, even of *)
(* blocks with a step.                                                     *)
LEMMA PadsApart ==
  ASSUME NEW r, Forward(r), NEW i \in 0 .. job_nframes(r) - 1, NEW k \in 0 .. job_nframes(r) - 1,
         i # k
  PROVE PadFrames(Task(r, i)) \cap PadFrames(Task(r, k)) = {}
<1>1. SUFFICES ASSUME NEW a \in 0 .. job_nframes(r) - 1, NEW b \in 0 .. job_nframes(r) - 1, a < b,
                      NEW n \in PadFrames(Task(r, a)), n \in PadFrames(Task(r, b))
               PROVE FALSE
  <2>1. i \in Int /\ k \in Int
    OBVIOUS
  <2> QED BY <1>1, <2>1
<1> DEFINE z == Size(r)
<1>2. /\ Task(r, a).frame = r.start + a * z /\ Task(r, b).frame = r.start + b * z
      /\ a * z \in Nat /\ b * z \in Nat
  BY TaskFields, NumberOfIndex DEF Forward
<1>3. r.block \in Nat \ {0} /\ r.step \in Nat \ {0} /\ r.start \in Nat /\ r.end \in Nat
  BY TaskFields
<1>4. z \in Nat /\ r.block <= z
  <2>1. z = r.step * r.block /\ 1 * r.block = r.block
    BY <1>3, Associate DEF Size
  <2>2. 1 * r.block <= r.step * r.block
    BY <1>3, Grows
  <2> QED BY <2>1, <2>2, <1>3
<1>5. a \in Nat /\ b \in Nat
  OBVIOUS
<1> HIDE DEF z
<1>6. a * z + z <= b * z
  <2>1. (a + 1) * z <= b * z
    BY <1>1, <1>4, <1>5, Grows
  <2>2. (a + 1) * z = a * z + 1 * z /\ 1 * z = z
    BY <1>4, <1>5, Distribute
  <2> QED BY <2>1, <2>2
<1>7. n \in Nat /\ n < Task(r, a).frame + r.block
  <2>1. Task(r, a).block = r.block /\ Task(r, a).end = r.end /\ Task(r, a).frame \in Nat
    BY TaskFields
  <2> QED BY <2>1, <1>1, <1>3 DEF PadFrames
<1>8. Task(r, b).frame <= n
  <2>1. Task(r, b).block = r.block /\ Task(r, b).end = r.end /\ Task(r, b).frame \in Nat
    BY TaskFields
  <2> QED BY <2>1, <1>1, <1>3 DEF PadFrames
<1> QED BY <1>2, <1>3, <1>4, <1>6, <1>7, <1>8

(* What a task renders in any case, and all it renders.                    *)
LEMMA PadsOf ==
  ASSUME NEW r, Forward(r), NEW i \in 0 .. job_nframes(r) - 1
  PROVE LET t == Task(r, i)
        IN  /\ t.frame \in PadFrames(t) /\ PadFrames(t) \subseteq FrameNumbersUsed
            /\ IsFiniteSet(PadFrames(t))
            /\ r.block = 1 => PadFrames(t) = {t.frame}
            /\ ListIsNumber(t) => PadFrames(t) = {t.frame}
            /\ \A template : /\ Frames(template, t) \subseteq PadFrames(t)
                             /\ template.frames \in {"frame", "block", "steps"} =>
                                  t.frame \in Frames(template, t)
<1> PICK t : t = Task(r, i)
  OBVIOUS
<1>1. /\ t.end = r.end /\ t.step = r.step /\ t.block = r.block
      /\ t.frame \in Nat /\ t.frame <= r.end
      /\ r.block \in Nat \ {0} /\ r.step \in Nat \ {0} /\ r.end \in Nat
  BY TaskFields
<1>2. t.frame \in PadFrames(t)
  BY DEF PadFrames
<1>3. PadFrames(t) \subseteq t.frame .. t.end
  BY <1>1 DEF PadFrames
<1>4. PadFrames(t) \subseteq FrameNumbersUsed
  <2>1. r.end < 2 ^ Width /\ 2 ^ Width \in Nat
    BY Numbers, Modulus DEF Forward
  <2> QED BY <2>1, <1>1, <1>3 DEF FrameNumbersUsed
<1>5. IsFiniteSet(PadFrames(t))
  <2>1. IsFiniteSet(t.frame .. t.end)
    <3>1. t.frame \in Int /\ t.end \in Int
      BY <1>1
    <3> QED BY <3>1, FS_Interval, Zenon
  <2> QED BY <2>1, <1>3, FS_Subset
<1>6. ASSUME r.block = 1 PROVE PadFrames(t) = {t.frame}
  BY <1>1, <1>6 DEF PadFrames
<1>7. ASSUME ListIsNumber(t) PROVE PadFrames(t) = {t.frame}
  <2>1. Cardinality(PadFrames(t)) = 1
    BY <1>7 DEF ListIsNumber
  <2>2. \E x : PadFrames(t) = {x}
    BY <2>1, <1>5, FS_Singleton
  <2> QED BY <2>2, <1>2
<1>8. ASSUME NEW template PROVE Frames(template, t) \subseteq PadFrames(t)
  <2>1. BlockEnd(t) \in Int /\ BlockEnd(t) <= t.end /\ BlockEnd(t) <= t.frame + t.block - 1
    BY <1>1 DEF BlockEnd
  <2>2. t.frame .. BlockEnd(t) \subseteq PadFrames(t)
    BY <2>1, <1>1 DEF PadFrames
  <2>3. Frames(template, t) \subseteq {t.frame} \cup (t.frame .. BlockEnd(t))
    BY DEF Frames
  <2> QED BY <2>2, <2>3, <1>2
<1>9. ASSUME NEW template, template.frames \in {"frame", "block", "steps"}
      PROVE t.frame \in Frames(template, t)
  <2>1. BlockEnd(t) \in Int /\ t.frame <= BlockEnd(t)
    BY <1>1 DEF BlockEnd
  <2>2. t.frame \in t.frame .. BlockEnd(t)
    BY <2>1, <1>1
  <2>3. (t.frame - t.frame) % t.step = 0
    BY <1>1
  <2> QED BY <2>2, <2>3, <1>9 DEF Frames
<1> QED BY <1>2, <1>4, <1>5, <1>6, <1>7, <1>8, <1>9

----------------------------------------------------------------------------
(* Runs of a script.                                                       *)
RunOf(f, script, t, system, bad) ==
  f = [k \in 0 .. Len(script) |->
         IF k = 0 THEN Starts(system) ELSE RunPart(f[k - 1], script[k], t, bad)]

LEMMA RunExists ==
  ASSUME NEW script, NEW t, NEW system, NEW bad, Len(script) \in Nat
  PROVE \E f : RunOf(f, script, t, system, bad) /\ RunScript(script, t, system, bad) = f[Len(script)]
<1> DEFINE n == Len(script)
           start == Starts(system)
           step(k, x) == RunPart(x, script[k], t, bad)
           Rec(m, f) == f = [k \in 0 .. m |-> IF k = 0 THEN start ELSE step(k, f[k - 1])]
           S == {m \in Nat : \E f : Rec(m, f)}
<1> HIDE DEF n, start, step
<1>1. 0 \in S
  <2>1. Rec(0, [k \in 0 .. 0 |-> start])
    OBVIOUS
  <2> QED BY <2>1
<1>2. ASSUME NEW m \in 1 .. n, m - 1 \in S PROVE m \in S
  <2>1. PICK f : Rec(m - 1, f)
    BY <1>2
  <2> DEFINE g == [k \in 0 .. m |-> IF k = m THEN step(m, f[m - 1]) ELSE f[k]]
  <2>0. m \in Nat \ {0}
    BY <1>2 DEF n
  <2>2. ASSUME NEW k \in 0 .. m PROVE g[k] = IF k = 0 THEN start ELSE step(k, g[k - 1])
    <3>1. CASE k = m
      <4>1. g[m] = step(m, f[m - 1]) /\ g[m - 1] = f[m - 1] /\ m # 0
        BY <2>0
      <4> QED BY <3>1, <4>1
    <3>2. CASE k # m
      <4>1. g[k] = f[k] /\ k \in 0 .. (m - 1)
        BY <2>0, <3>2
      <4>2. f[k] = IF k = 0 THEN start ELSE step(k, f[k - 1])
        BY <2>1, <4>1
      <4>3. k # 0 => g[k - 1] = f[k - 1]
        BY <2>0, <3>2
      <4> HIDE DEF g
      <4> QED BY <4>1, <4>2, <4>3
    <3> QED BY <3>1, <3>2
  <2>3. Rec(m, g)
    <3> DEFINE G == [k \in 0 .. m |-> IF k = 0 THEN start ELSE step(k, g[k - 1])]
    <3>1. \A k \in 0 .. m : g[k] = G[k]
      <4> HIDE DEF g
      <4> QED BY <2>2
    <3>2. DOMAIN g = 0 .. m /\ DOMAIN G = 0 .. m /\ g = [k \in DOMAIN g |-> g[k]] /\ G = [k \in DOMAIN G |-> G[k]]
      OBVIOUS
    <3>3. g = G
      <4> HIDE DEF g, G
      <4> QED BY <3>1, <3>2
    <3> QED BY <3>3
  <2> QED BY <2>0, <2>3
<1> HIDE DEF S
<1>3. n \in Nat
  BY DEF n
<1>4. n \in S
  BY <1>1, <1>2, <1>3, IntervalInduction
<1>5. \E f : Rec(n, f)
  BY <1>4 DEF S
<1>6. \E f : RunOf(f, script, t, system, bad)
  BY <1>5, Zenon DEF RunOf, n, start, step
<1>7. PICK f : f = CHOOSE g : g = [k \in 0 .. Len(script) |->
                 IF k = 0 THEN Starts(system) ELSE RunPart(g[k - 1], script[k], t, bad)]
  OBVIOUS
<1>8. RunOf(f, script, t, system, bad)
  BY <1>6, <1>7, Zenon DEF RunOf
<1>9. RunScript(script, t, system, bad) = f[Len(script)]
  BY <1>7, Zenon DEF RunScript
<1> QED BY <1>8, <1>9

LEMMA RunOfOne ==
  ASSUME NEW p, NEW t, NEW system, NEW bad
  PROVE RunScript(<<p>>, t, system, bad) = RunPart(Starts(system), p, t, bad)
<1>1. Len(<<p>>) = 1 /\ <<p>>[1] = p
  OBVIOUS
<1>2. PICK f : RunOf(f, <<p>>, t, system, bad) /\ RunScript(<<p>>, t, system, bad) = f[1]
  BY <1>1, RunExists
<1>3. f = [k \in 0 .. 1 |-> IF k = 0 THEN Starts(system) ELSE RunPart(f[k - 1], <<p>>[k], t, bad)]
  BY <1>1, <1>2, Zenon DEF RunOf
<1>4. f[0] = Starts(system)
  BY <1>3
<1>5. f[1] = RunPart(f[0], <<p>>[1], t, bad)
  <2>1. 1 \in 0 .. 1 /\ 1 # 0 /\ 1 - 1 = 0
    OBVIOUS
  <2>2. f[1] = RunPart(f[1 - 1], <<p>>[1], t, bad)
    BY <1>3, <2>1, Zenon
  <2> QED BY <2>1, <2>2
<1> QED BY <1>1, <1>2, <1>4, <1>5

LEMMA RunOfTwo ==
  ASSUME NEW p, NEW q, NEW t, NEW system, NEW bad
  PROVE RunScript(<<p, q>>, t, system, bad) = RunPart(RunPart(Starts(system), p, t, bad), q, t, bad)
<1>1. Len(<<p, q>>) = 2 /\ <<p, q>>[1] = p /\ <<p, q>>[2] = q
  OBVIOUS
<1>2. PICK f : RunOf(f, <<p, q>>, t, system, bad) /\ RunScript(<<p, q>>, t, system, bad) = f[2]
  BY <1>1, RunExists
<1>3. f = [k \in 0 .. 2 |-> IF k = 0 THEN Starts(system) ELSE RunPart(f[k - 1], <<p, q>>[k], t, bad)]
  BY <1>1, <1>2, Zenon DEF RunOf
<1>4. f[0] = Starts(system)
  BY <1>3
<1>5. f[1] = RunPart(f[0], <<p, q>>[1], t, bad)
  <2>1. 1 \in 0 .. 2 /\ 1 # 0 /\ 1 - 1 = 0
    OBVIOUS
  <2>2. f[1] = RunPart(f[1 - 1], <<p, q>>[1], t, bad)
    BY <1>3, <2>1, Zenon
  <2> QED BY <2>1, <2>2
<1>6. f[2] = RunPart(f[1], <<p, q>>[2], t, bad)
  <2>1. 2 \in 0 .. 2 /\ 2 # 0 /\ 2 - 1 = 1
    OBVIOUS
  <2>2. f[2] = RunPart(f[2 - 1], <<p, q>>[2], t, bad)
    BY <1>3, <2>1, Zenon
  <2> QED BY <2>1, <2>2
<1> QED BY <1>1, <1>2, <1>4, <1>5, <1>6

(* A run is a record; what it has rendered and read was written by A.      *)
Painted(t) == {{t.frame}} \cup SUBSET (t.frame .. BlockEnd(t))
RunBy(A, t, x) ==
  /\ x = [system |-> x.system, env |-> x.env, rendered |-> x.rendered, exit |-> x.exit]
  /\ x.system \in {Linux, Windows}
  /\ \A n \in DOMAIN x.env : x.env[n].by \in A
  /\ x.rendered \in Seq([of : A, frames : Painted(t)])

LEMMA RunFields ==
  ASSUME NEW y, NEW e, NEW g, NEW x, NEW z, z = [system |-> y, env |-> e, rendered |-> g, exit |-> x]
  PROVE z.system = y /\ z.env = e /\ z.rendered = g /\ z.exit = x
  OBVIOUS

LEMMA RunWith ==
  ASSUME NEW x, x = [system |-> x.system, env |-> x.env, rendered |-> x.rendered, exit |-> x.exit]
  PROVE /\ \A e : [x EXCEPT !.env = e]
                  = [system |-> x.system, env |-> e, rendered |-> x.rendered, exit |-> x.exit]
        /\ \A g : [x EXCEPT !.rendered = g]
                  = [system |-> x.system, env |-> x.env, rendered |-> g, exit |-> x.exit]
        /\ \A e : [x EXCEPT !.exit = e]
                  = [system |-> x.system, env |-> x.env, rendered |-> x.rendered, exit |-> e]
<1> PICK y0, e0, g0, x0 : y0 = x.system /\ e0 = x.env /\ g0 = x.rendered /\ x0 = x.exit
  OBVIOUS
<1>1. x \in [system : {y0}, env : {e0}, rendered : {g0}, exit : {x0}]
  BY Zenon
<1>2. \A e : [x EXCEPT !.env = e] = [system |-> y0, env |-> e, rendered |-> g0, exit |-> x0]
  BY <1>1, SMT
<1>3. \A g : [x EXCEPT !.rendered = g] = [system |-> y0, env |-> e0, rendered |-> g, exit |-> x0]
  BY <1>1, SMT
<1>4. \A e : [x EXCEPT !.exit = e] = [system |-> y0, env |-> e0, rendered |-> g0, exit |-> e]
  BY <1>1, SMT
<1> QED BY <1>2, <1>3, <1>4

LEMMA StartsBy ==
  ASSUME NEW A, NEW t, NEW system \in {Linux, Windows}
  PROVE /\ RunBy(A, t, Starts(system))
        /\ Starts(system).system = system /\ Starts(system).env = <<>>
        /\ Starts(system).rendered = <<>> /\ Starts(system).exit = "zero"
<1>1. PICK x : x = Starts(system)
  OBVIOUS
<1>2. x = [system |-> system, env |-> <<>>, rendered |-> <<>>, exit |-> "zero"]
  BY <1>1, Zenon DEF Starts
<1>3. x.system = system /\ x.env = <<>> /\ x.rendered = <<>> /\ x.exit = "zero"
  BY <1>2, RunFields
<1>4. <<>> \in Seq([of : A, frames : Painted(t)])
  BY EmptySeq
<1>5. DOMAIN <<>> = {}
  OBVIOUS
<1>6. RunBy(A, t, x)
  BY <1>2, <1>3, <1>4, <1>5, Zenon DEF RunBy
<1> QED BY <1>1, <1>3, <1>6

LEMMA PartBy ==
  ASSUME NEW A, NEW t, NEW x, RunBy(A, t, x), NEW p, p.by \in A, NEW bad
  PROVE RunBy(A, t, RunPart(x, p, t, bad))
<1>1. /\ x = [system |-> x.system, env |-> x.env, rendered |-> x.rendered, exit |-> x.exit]
      /\ x.system \in {Linux, Windows}
      /\ \A n \in DOMAIN x.env : x.env[n].by \in A
      /\ x.rendered \in Seq([of : A, frames : Painted(t)])
  BY Zenon DEF RunBy
<1>2. PICK y, e, g, z : y = x.system /\ e = x.env /\ g = x.rendered /\ z = x.exit
  OBVIOUS
<1>3. ASSUME NEW w, NEW f, NEW h, NEW u, w = [system |-> y, env |-> f, rendered |-> h, exit |-> u],
             \A n \in DOMAIN f : f[n].by \in A, h \in Seq([of : A, frames : Painted(t)])
      PROVE RunBy(A, t, w)
  <2>1. w.system = y /\ w.env = f /\ w.rendered = h /\ w.exit = u
    BY <1>3, RunFields
  <2> QED BY <1>1, <1>2, <1>3, <2>1, Zenon DEF RunBy
<1>4. ASSUME NEW s PROVE RunBy(A, t, Stops(x, s))
  <2>1. Stops(x, s) = [system |-> y, env |-> e, rendered |-> g, exit |-> s]
    BY <1>1, <1>2, RunWith, Zenon DEF Stops
  <2> QED BY <1>1, <1>2, <1>3, <2>1, Zenon
<1>5. CASE p.template = "none"
  <2>1. PICK f : f = [n \in p.names \cup DOMAIN x.env |-> IF n \in p.names THEN p ELSE x.env[n]]
    OBVIOUS
  <2>2. \A n \in DOMAIN f : f[n].by \in A
    BY <2>1, <1>1
  <2>3. [x EXCEPT !.env = f] = [system |-> y, env |-> f, rendered |-> g, exit |-> z]
    BY <1>1, <1>2, RunWith, Zenon
  <2>4. RunBy(A, t, [x EXCEPT !.env = f])
    BY <1>1, <1>2, <1>3, <2>2, <2>3, Zenon
  <2>5. RunPart(x, p, t, bad) = IF ~ Goes(x) THEN x ELSE [x EXCEPT !.env = f]
    BY <1>5, <2>1, Zenon DEF RunPart
  <2> QED BY <2>4, <2>5, Zenon
<1>6. CASE p.template # "none"
  <2>1. PICK template : template = TemplateOf[p.template]
    OBVIOUS
  <2>2. RunPart(x, p, t, bad) = IF ~ Goes(x) THEN x ELSE RunTemplate(x, template, t, bad)
    BY <1>6, <2>1, Zenon DEF RunPart
  <2>3. RunBy(A, t, RunTemplate(x, template, t, bad))
    <3>1. CASE ~ ListIsNumber(t) \/ x.system \in template.fails
      BY <3>1, <1>4, Zenon DEF RunTemplate
    <3>2. CASE ~ (~ ListIsNumber(t) \/ x.system \in template.fails)
               /\ NamesMissing(template, x.env, x.system)
      BY <3>2, <1>4, Zenon DEF RunTemplate
    <3>3. CASE ~ (~ ListIsNumber(t) \/ x.system \in template.fails)
               /\ ~ NamesMissing(template, x.env, x.system) /\ bad
      BY <3>3, <1>4, Zenon DEF RunTemplate
    <3>4. CASE ~ (~ ListIsNumber(t) \/ x.system \in template.fails)
               /\ ~ NamesMissing(template, x.env, x.system) /\ ~ bad
      <4>1. PICK b : b = x.env[template.scene].by
        OBVIOUS
      <4>2. b \in A
        <5>1. template.scene \in DOMAIN x.env
          BY <3>4 DEF NamesMissing
        <5> QED BY <5>1, <4>1, <1>1
      <4>3. PICK entry : entry = [of |-> b, frames |-> Frames(template, t)]
        OBVIOUS
      <4>4. Frames(template, t) \in Painted(t)
        BY DEF Frames, Painted
      <4>5. entry \in [of : A, frames : Painted(t)]
        BY <4>2, <4>3, <4>4, Zenon
      <4>6. PICK h : h = Append(g, entry)
        OBVIOUS
      <4>7. h \in Seq([of : A, frames : Painted(t)])
        BY <4>5, <4>6, <1>1, <1>2, AppendProperties
      <4>8. RunTemplate(x, template, t, bad) = [x EXCEPT !.rendered = h]
        BY <3>4, <4>1, <4>3, <4>6, <1>2, Zenon DEF RunTemplate
      <4>9. [x EXCEPT !.rendered = h] = [system |-> y, env |-> e, rendered |-> h, exit |-> z]
        BY <1>1, <1>2, RunWith, Zenon
      <4> QED BY <1>1, <1>2, <1>3, <4>7, <4>8, <4>9, Zenon
    <3> QED BY <3>1, <3>2, <3>3, <3>4
  <2> QED BY <2>2, <2>3, Zenon
<1> QED BY <1>5, <1>6

(* Whatever a file holds, a run of it renders scenes of those who wrote it.*)
LEMMA RunOfAny ==
  ASSUME NEW A, NEW P, \A p \in P : p.by \in A, NEW script \in Seq(P), NEW t,
         NEW system \in {Linux, Windows}, NEW bad
  PROVE RunBy(A, t, RunScript(script, t, system, bad))
<1>1. PICK n : n = Len(script)
  OBVIOUS
<1>2. n \in Nat /\ \A k \in 1 .. n : script[k] \in P
  BY <1>1, LenProperties, ElementOfSeq
<1>3. PICK f : RunOf(f, script, t, system, bad) /\ RunScript(script, t, system, bad) = f[n]
  BY <1>1, <1>2, RunExists
<1>4. f = [k \in 0 .. n |-> IF k = 0 THEN Starts(system) ELSE RunPart(f[k - 1], script[k], t, bad)]
  BY <1>1, <1>3, Zenon DEF RunOf
<1> DEFINE S == {k \in 0 .. n : RunBy(A, t, f[k])}
<1>5. 0 \in S
  <2>1. 0 \in 0 .. n
    BY <1>2
  <2>2. f[0] = Starts(system)
    BY <1>4, <2>1, Zenon
  <2> QED BY <2>1, <2>2, StartsBy
<1>6. ASSUME NEW k \in 1 .. n, k - 1 \in S PROVE k \in S
  <2>1. k \in 0 .. n /\ k # 0
    BY <1>2
  <2>2. f[k] = RunPart(f[k - 1], script[k], t, bad)
    BY <1>4, <2>1, Zenon
  <2>3. script[k].by \in A
    BY <1>2
  <2>4. RunBy(A, t, RunPart(f[k - 1], script[k], t, bad))
    BY <1>6, <2>3, PartBy
  <2> QED BY <2>1, <2>2, <2>4
<1> HIDE DEF S
<1>7. n \in S
  <2>1. n \in 0 .. n
    BY <1>2
  <2> QED BY <1>2, <1>5, <1>6, <2>1, IntervalInduction
<1> QED BY <1>3, <1>7 DEF S

----------------------------------------------------------------------------
(* The tables of engines.                                                  *)
LEMMA TemplateIs ==
  /\ TemplateOf["threedelight"] = threedelight_sg_py
  /\ TemplateOf["threedsmax"] = threedsmax_sg_py
  /\ TemplateOf["aftereffects"] = aftereffects_sg_py
  /\ TemplateOf["aqsis"] = aqsis_sg_py
  /\ TemplateOf["blender"] = blender_sg_py
  /\ TemplateOf["cinema4d"] = cinema4d_sg_py
  /\ TemplateOf["general"] = general_sg_py
  /\ TemplateOf["lightwave"] = lightwave_sg_py
  /\ TemplateOf["luxrender"] = luxrender_sg_py
  /\ TemplateOf["mantra"] = mantra_sg_py
  /\ TemplateOf["maya"] = maya_sg_py
  /\ TemplateOf["mentalray"] = mentalray_sg_py
  /\ TemplateOf["nuke"] = nuke_sg_py
  /\ TemplateOf["pixie"] = pixie_sg_py
  /\ TemplateOf["shake"] = shake_sg_py
  /\ TemplateOf["terragen"] = terragen_sg_py
  /\ TemplateOf["turtle"] = turtle_sg_py
  /\ TemplateOf["vray"] = vray_sg_py
  /\ TemplateOf["xsi"] = xsi_sg_py
  /\ DOMAIN TemplateOf =
       {"threedelight", "threedsmax", "aftereffects", "aqsis", "blender",
        "cinema4d", "general", "lightwave", "luxrender", "mantra", "maya",
        "mentalray", "nuke", "pixie", "shake", "terragen", "turtle", "vray",
        "xsi"}
  BY DEF TemplateOf

(* Which frames a template's command asks for.                             *)
LEMMA FramesOfTemplates ==
  ASSUME NEW e \in DOMAIN TemplateOf \ {"luxrender"}
  PROVE TemplateOf[e].frames \in {"frame", "block", "steps"}
<1>1. /\ threedelight_sg_py.frames = "block"
      /\ threedsmax_sg_py.frames = "frame"
      /\ aftereffects_sg_py.frames = "block"
  BY Zenon DEF threedelight_sg_py, threedsmax_sg_py, aftereffects_sg_py,
     Template
<1>2. /\ aqsis_sg_py.frames = "block"
      /\ blender_sg_py.frames = "frame"
      /\ cinema4d_sg_py.frames = "frame"
  BY Zenon DEF aqsis_sg_py, blender_sg_py, cinema4d_sg_py, Template
<1>3. /\ general_sg_py.frames = "frame"
      /\ lightwave_sg_py.frames = "steps"
      /\ mantra_sg_py.frames = "frame"
  BY Zenon DEF general_sg_py, lightwave_sg_py, mantra_sg_py, Template
<1>4. /\ maya_sg_py.frames = "block"
      /\ mentalray_sg_py.frames = "block"
      /\ nuke_sg_py.frames = "steps"
  BY Zenon DEF maya_sg_py, mentalray_sg_py, nuke_sg_py, Template, Resized
<1>5. /\ pixie_sg_py.frames = "frame"
      /\ shake_sg_py.frames = "steps"
      /\ terragen_sg_py.frames = "steps"
  BY Zenon DEF pixie_sg_py, shake_sg_py, terragen_sg_py, Template
<1>6. /\ turtle_sg_py.frames = "block"
      /\ vray_sg_py.frames = "frame"
      /\ xsi_sg_py.frames = "block"
  BY Zenon DEF turtle_sg_py, vray_sg_py, xsi_sg_py, Template, Resized
<1> QED BY <1>1, <1>2, <1>3, <1>4, <1>5, <1>6, TemplateIs

(* Both clients use the same generator for an engine.                      *)
GeneratorOf ==
  [general |-> generalsg_create, maya |-> mayasg_create, mentalray |->
   mentalraysg_create, blender |-> blendersg_create, lightwave |->
   lightwavesg_create, terragen |-> terragensg_create, shake |->
   shakesg_create, nuke |-> nukesg_create, threedelight |->
   threedelightsg_create, pixie |-> pixiesg_create, aftereffects |->
   aftereffectssg_create, aqsis |-> aqsissg_create, mantra |->
   mantrasg_create, xsi |-> xsisg_create, luxrender |-> luxrendersg_create,
   turtle |-> turtlesg_create, cinema4d |-> cinema4dsg_create, threedsmax |->
   threedsmaxsg_create, vray |-> vraysg_create]
LEMMA GeneratorIs ==
  /\ GeneratorOf["general"] = generalsg_create
  /\ GeneratorOf["maya"] = mayasg_create
  /\ GeneratorOf["mentalray"] = mentalraysg_create
  /\ GeneratorOf["blender"] = blendersg_create
  /\ GeneratorOf["lightwave"] = lightwavesg_create
  /\ GeneratorOf["terragen"] = terragensg_create
  /\ GeneratorOf["shake"] = shakesg_create
  /\ GeneratorOf["nuke"] = nukesg_create
  /\ GeneratorOf["threedelight"] = threedelightsg_create
  /\ GeneratorOf["pixie"] = pixiesg_create
  /\ GeneratorOf["aftereffects"] = aftereffectssg_create
  /\ GeneratorOf["aqsis"] = aqsissg_create
  /\ GeneratorOf["mantra"] = mantrasg_create
  /\ GeneratorOf["xsi"] = xsisg_create
  /\ GeneratorOf["luxrender"] = luxrendersg_create
  /\ GeneratorOf["turtle"] = turtlesg_create
  /\ GeneratorOf["cinema4d"] = cinema4dsg_create
  /\ GeneratorOf["threedsmax"] = threedsmaxsg_create
  /\ GeneratorOf["vray"] = vraysg_create
  BY DEF GeneratorOf

LEMMA SendjobIs ==
  /\ str2toj["general"] = sendjob_general
  /\ str2toj["maya"] = sendjob_maya
  /\ str2toj["mentalray"] = sendjob_mentalray
  /\ str2toj["blender"] = sendjob_blender
  /\ str2toj["lightwave"] = sendjob_lightwave
  /\ str2toj["terragen"] = sendjob_terragen
  /\ str2toj["shake"] = sendjob_shake
  /\ str2toj["nuke"] = sendjob_nuke
  /\ str2toj["threedelight"] = sendjob_threedelight
  /\ str2toj["pixie"] = sendjob_pixie
  /\ str2toj["aftereffects"] = sendjob_aftereffects
  /\ str2toj["aqsis"] = sendjob_aqsis
  /\ str2toj["mantra"] = sendjob_mantra
  /\ str2toj["xsi"] = sendjob_xsi
  /\ str2toj["luxrender"] = sendjob_luxrender
  /\ DOMAIN str2toj =
       {"general", "maya", "mentalray", "blender", "lightwave", "terragen",
        "shake", "nuke", "threedelight", "pixie", "aftereffects", "aqsis",
        "mantra", "xsi", "luxrender"}
  BY DEF str2toj

LEMMA SendjobGenerators ==
  ASSUME NEW e \in DOMAIN str2toj
  PROVE str2toj[e].generator = GeneratorOf[e] /\ e \in DOMAIN TemplateOf
<1>1. /\ sendjob_general.generator = generalsg_create
      /\ sendjob_maya.generator = mayasg_create
      /\ sendjob_mentalray.generator = mentalraysg_create
  BY Zenon DEF sendjob_general, sendjob_maya, sendjob_mentalray, FrontEnd
<1>2. /\ sendjob_blender.generator = blendersg_create
      /\ sendjob_lightwave.generator = lightwavesg_create
      /\ sendjob_terragen.generator = terragensg_create
  BY Zenon DEF sendjob_blender, sendjob_lightwave, sendjob_terragen, FrontEnd
<1>3. /\ sendjob_shake.generator = shakesg_create
      /\ sendjob_nuke.generator = nukesg_create
      /\ sendjob_threedelight.generator = threedelightsg_create
  BY Zenon DEF sendjob_shake, sendjob_nuke, sendjob_threedelight, FrontEnd
<1>4. /\ sendjob_pixie.generator = pixiesg_create
      /\ sendjob_aftereffects.generator = aftereffectssg_create
      /\ sendjob_aqsis.generator = aqsissg_create
  BY Zenon DEF sendjob_pixie, sendjob_aftereffects, sendjob_aqsis, FrontEnd
<1>5. /\ sendjob_mantra.generator = mantrasg_create
      /\ sendjob_xsi.generator = xsisg_create
      /\ sendjob_luxrender.generator = luxrendersg_create
  BY Zenon DEF sendjob_mantra, sendjob_xsi, sendjob_luxrender, FrontEnd
<1> QED BY <1>1, <1>2, <1>3, <1>4, <1>5, SendjobIs, GeneratorIs, TemplateIs

LEMMA DrqmanIs ==
  /\ Drqman["threedelight"] = drqman_threedelight
  /\ Drqman["aftereffects"] = drqman_aftereffects
  /\ Drqman["aqsis"] = drqman_aqsis
  /\ Drqman["blender"] = drqman_blender
  /\ Drqman["lightwave"] = drqman_lightwave
  /\ Drqman["luxrender"] = drqman_luxrender
  /\ Drqman["mantra"] = drqman_mantra
  /\ Drqman["maya"] = drqman_maya
  /\ Drqman["mentalray"] = drqman_mentalray
  /\ Drqman["nuke"] = drqman_nuke
  /\ Drqman["pixie"] = drqman_pixie
  /\ Drqman["shake"] = drqman_shake
  /\ Drqman["terragen"] = drqman_terragen
  /\ Drqman["turtle"] = drqman_turtle
  /\ Drqman["xsi"] = drqman_xsi
  /\ Drqman["cinema4d"] = binding_cinema4d
  /\ Drqman["threedsmax"] = binding_threedsmax
  /\ Drqman["vray"] = binding_vray
  /\ DOMAIN Drqman =
       {"threedelight", "aftereffects", "aqsis", "blender", "lightwave",
        "luxrender", "mantra", "maya", "mentalray", "nuke", "pixie", "shake",
        "terragen", "turtle", "xsi", "cinema4d", "threedsmax", "vray"}
  BY DEF Drqman

LEMMA DrqmanGenerators ==
  ASSUME NEW e \in DOMAIN Drqman
  PROVE Drqman[e].generator = GeneratorOf[e] /\ e \in DOMAIN TemplateOf
<1>1. /\ drqman_threedelight.generator = threedelightsg_create
      /\ drqman_aftereffects.generator = aftereffectssg_create
      /\ drqman_aqsis.generator = aqsissg_create
  BY Zenon DEF drqman_threedelight, drqman_aftereffects, drqman_aqsis,
     FrontEnd, ByDrqman
<1>2. /\ drqman_blender.generator = blendersg_create
      /\ drqman_lightwave.generator = lightwavesg_create
      /\ drqman_luxrender.generator = luxrendersg_create
  BY Zenon DEF drqman_blender, drqman_lightwave, drqman_luxrender, FrontEnd,
     ByDrqman
<1>3. /\ drqman_mantra.generator = mantrasg_create
      /\ drqman_maya.generator = mayasg_create
      /\ drqman_mentalray.generator = mentalraysg_create
  BY Zenon DEF drqman_mantra, drqman_maya, drqman_mentalray, FrontEnd,
     ByDrqman
<1>4. /\ drqman_nuke.generator = nukesg_create
      /\ drqman_pixie.generator = pixiesg_create
      /\ drqman_shake.generator = shakesg_create
  BY Zenon DEF drqman_nuke, drqman_pixie, drqman_shake, FrontEnd, ByDrqman
<1>5. /\ drqman_terragen.generator = terragensg_create
      /\ drqman_turtle.generator = turtlesg_create
      /\ drqman_xsi.generator = xsisg_create
  BY Zenon DEF drqman_terragen, drqman_turtle, drqman_xsi, FrontEnd, ByDrqman
<1>6. /\ binding_cinema4d.generator = cinema4dsg_create
      /\ binding_threedsmax.generator = threedsmaxsg_create
      /\ binding_vray.generator = vraysg_create
  BY Zenon DEF binding_cinema4d, binding_threedsmax, binding_vray, FrontEnd,
     ByDrqman
<1> QED BY <1>1, <1>2, <1>3, <1>4, <1>5, <1>6, DrqmanIs, GeneratorIs,
   TemplateIs

(* What a generator sets in any case, and that a template reads no more,   *)
(* or what it reads besides is one of the names the code forgets.          *)
Sets(G) == G.needed \cup G.always \cup IF G.kinds = {} THEN {} ELSE {"RENDER_TYPE"}
Supplied(e, T, G) ==
  /\ {T.scene} \cup T.others \subseteq Sets(G) \cup IF e = "maya" THEN {"RENDERER"} ELSE {}
  /\ e = "maya" => "RENDERER" \in G.optional
  /\ T.windows \subseteq Sets(G) \/ e \in LacksOnWindows
  /\ T.resized => {"RESX", "RESY"} \cap Sets(G) = {} /\ "RESY" \in G.optional
  /\ "RENDER_TYPE" \in T.others =>
       /\ G.kinds = {"animation", "single image"} /\ "animation" \in T.kinds
       /\ "single image" \in T.kinds \/ e = "mentalray"

LEMMA Supplied_threedelight == Supplied("threedelight", threedelight_sg_py, threedelightsg_create)
<1>1. /\ threedelight_sg_py.scene = "SCENE"
      /\ threedelight_sg_py.others = {}
      /\ threedelight_sg_py.windows = {}
  BY Zenon DEF threedelight_sg_py, Template
<1>2. threedelight_sg_py.kinds = {"animation", "single image"} /\ ~ threedelight_sg_py.resized
  BY Zenon DEF threedelight_sg_py, Template
<1>3. /\ threedelightsg_create.needed = {"SCENE"}
      /\ threedelightsg_create.always = Owner
      /\ threedelightsg_create.optional = {}
      /\ threedelightsg_create.kinds = {}
  BY Zenon DEF threedelightsg_create, Generator
<1> QED BY <1>1, <1>2, <1>3 DEF Supplied, Sets, Owner, Picture, Resolution, LacksOnWindows

LEMMA Supplied_threedsmax == Supplied("threedsmax", threedsmax_sg_py, threedsmaxsg_create)
<1>1. /\ threedsmax_sg_py.scene = "SCENE"
      /\ threedsmax_sg_py.others = {}
      /\ threedsmax_sg_py.windows = {}
  BY Zenon DEF threedsmax_sg_py, Template
<1>2. threedsmax_sg_py.kinds = {"animation", "single image"} /\ ~ threedsmax_sg_py.resized
  BY Zenon DEF threedsmax_sg_py, Template
<1>3. /\ threedsmaxsg_create.needed = {"SCENE"}
      /\ threedsmaxsg_create.always = {"DRQUEUE_IMAGE"}
      /\ threedsmaxsg_create.optional = {}
      /\ threedsmaxsg_create.kinds = {}
  BY Zenon DEF threedsmaxsg_create, Generator
<1> QED BY <1>1, <1>2, <1>3 DEF Supplied, Sets, Owner, Picture, Resolution, LacksOnWindows

LEMMA Supplied_aftereffects == Supplied("aftereffects", aftereffects_sg_py, aftereffectssg_create)
<1>1. /\ aftereffects_sg_py.scene = "PROJECT"
      /\ aftereffects_sg_py.others = {"COMP"}
      /\ aftereffects_sg_py.windows = {}
  BY Zenon DEF aftereffects_sg_py, Template
<1>2. aftereffects_sg_py.kinds = {"animation", "single image"} /\ ~ aftereffects_sg_py.resized
  BY Zenon DEF aftereffects_sg_py, Template
<1>3. /\ aftereffectssg_create.needed = {"PROJECT", "COMP"}
      /\ aftereffectssg_create.always = {}
      /\ aftereffectssg_create.optional = {}
      /\ aftereffectssg_create.kinds = {}
  BY Zenon DEF aftereffectssg_create, Generator
<1> QED BY <1>1, <1>2, <1>3 DEF Supplied, Sets, Owner, Picture, Resolution, LacksOnWindows

LEMMA Supplied_aqsis == Supplied("aqsis", aqsis_sg_py, aqsissg_create)
<1>1. /\ aqsis_sg_py.scene = "SCENE"
      /\ aqsis_sg_py.others = {}
      /\ aqsis_sg_py.windows = {}
  BY Zenon DEF aqsis_sg_py, Template
<1>2. aqsis_sg_py.kinds = {"animation", "single image"} /\ ~ aqsis_sg_py.resized
  BY Zenon DEF aqsis_sg_py, Template
<1>3. /\ aqsissg_create.needed = {"SCENE"}
      /\ aqsissg_create.always = Owner
      /\ aqsissg_create.optional = {"CUSTOM_CROP", "CROP_XMIN", "CROP_XMAX", "CROP_YMIN", "CROP_YMAX"}
      /\ aqsissg_create.kinds = {}
  BY Zenon DEF aqsissg_create, Generator
<1> QED BY <1>1, <1>2, <1>3 DEF Supplied, Sets, Owner, Picture, Resolution, LacksOnWindows

LEMMA Supplied_blender == Supplied("blender", blender_sg_py, blendersg_create)
<1>1. /\ blender_sg_py.scene = "SCENE"
      /\ blender_sg_py.others = {"RENDER_TYPE"}
      /\ blender_sg_py.windows = {}
  BY Zenon DEF blender_sg_py, Template
<1>2. blender_sg_py.kinds = {"animation", "single image"} /\ ~ blender_sg_py.resized
  BY Zenon DEF blender_sg_py, Template
<1>3. /\ blendersg_create.needed = {"SCENE"}
      /\ blendersg_create.always = {}
      /\ blendersg_create.optional = {}
      /\ blendersg_create.kinds = {"animation", "single image"}
  BY Zenon DEF blendersg_create, Generator, OfKind
<1> QED BY <1>1, <1>2, <1>3 DEF Supplied, Sets, Owner, Picture, Resolution, LacksOnWindows

LEMMA Supplied_cinema4d == Supplied("cinema4d", cinema4d_sg_py, cinema4dsg_create)
<1>1. /\ cinema4d_sg_py.scene = "SCENE"
      /\ cinema4d_sg_py.others = {"RENDERDIR"}
      /\ cinema4d_sg_py.windows = {}
  BY Zenon DEF cinema4d_sg_py, Template
<1>2. cinema4d_sg_py.kinds = {"animation", "single image"} /\ ~ cinema4d_sg_py.resized
  BY Zenon DEF cinema4d_sg_py, Template
<1>3. /\ cinema4dsg_create.needed = {"SCENE", "RENDERDIR"}
      /\ cinema4dsg_create.always = Owner
      /\ cinema4dsg_create.optional = {}
      /\ cinema4dsg_create.kinds = {}
  BY Zenon DEF cinema4dsg_create, Generator
<1> QED BY <1>1, <1>2, <1>3 DEF Supplied, Sets, Owner, Picture, Resolution, LacksOnWindows

LEMMA Supplied_general == Supplied("general", general_sg_py, generalsg_create)
<1>1. /\ general_sg_py.scene = "GENSCRIPT"
      /\ general_sg_py.others = {}
      /\ general_sg_py.windows = {}
  BY Zenon DEF general_sg_py, Template
<1>2. general_sg_py.kinds = {"animation", "single image"} /\ ~ general_sg_py.resized
  BY Zenon DEF general_sg_py, Template
<1>3. /\ generalsg_create.needed = {"GENSCRIPT"}
      /\ generalsg_create.always = {"OWNER_UID", "OWNER_GID"}
      /\ generalsg_create.optional = {}
      /\ generalsg_create.kinds = {}
  BY Zenon DEF generalsg_create, Generator
<1> QED BY <1>1, <1>2, <1>3 DEF Supplied, Sets, Owner, Picture, Resolution, LacksOnWindows

LEMMA Supplied_lightwave == Supplied("lightwave", lightwave_sg_py, lightwavesg_create)
<1>1. /\ lightwave_sg_py.scene = "SCENE"
      /\ lightwave_sg_py.others = {"PROJECTDIR", "CONFIGDIR"}
      /\ lightwave_sg_py.windows = {}
  BY Zenon DEF lightwave_sg_py, Template
<1>2. lightwave_sg_py.kinds = {"animation", "single image"} /\ ~ lightwave_sg_py.resized
  BY Zenon DEF lightwave_sg_py, Template
<1>3. /\ lightwavesg_create.needed = {"SCENE"}
      /\ lightwavesg_create.always = {"PROJECTDIR", "CONFIGDIR"} \cup Owner
      /\ lightwavesg_create.optional = Picture
      /\ lightwavesg_create.kinds = {}
  BY Zenon DEF lightwavesg_create, Generator
<1> QED BY <1>1, <1>2, <1>3 DEF Supplied, Sets, Owner, Picture, Resolution, LacksOnWindows

LEMMA Supplied_luxrender == Supplied("luxrender", luxrender_sg_py, luxrendersg_create)
<1>1. /\ luxrender_sg_py.scene = "SCENE"
      /\ luxrender_sg_py.others = {}
      /\ luxrender_sg_py.windows = {}
  BY Zenon DEF luxrender_sg_py, Template
<1>2. luxrender_sg_py.kinds = {"animation", "single image"} /\ ~ luxrender_sg_py.resized
  BY Zenon DEF luxrender_sg_py, Template
<1>3. /\ luxrendersg_create.needed = {"SCENE"}
      /\ luxrendersg_create.always = {}
      /\ luxrendersg_create.optional = {}
      /\ luxrendersg_create.kinds = {}
  BY Zenon DEF luxrendersg_create, Generator
<1> QED BY <1>1, <1>2, <1>3 DEF Supplied, Sets, Owner, Picture, Resolution, LacksOnWindows

LEMMA Supplied_mantra == Supplied("mantra", mantra_sg_py, mantrasg_create)
<1>1. /\ mantra_sg_py.scene = "SCENE"
      /\ mantra_sg_py.others = {"RENDERDIR"}
      /\ mantra_sg_py.windows = {}
  BY Zenon DEF mantra_sg_py, Template
<1>2. mantra_sg_py.kinds = {"animation", "single image"} /\ ~ mantra_sg_py.resized
  BY Zenon DEF mantra_sg_py, Template
<1>3. /\ mantrasg_create.needed = {"SCENE", "RENDERDIR"}
      /\ mantrasg_create.always = {"RAYTRACE", "ANTIALIAS"} \cup Owner
      /\ mantrasg_create.optional =
           {"CUSTOM_BUCKET", "CUSTOM_LOD", "CUSTOM_VARYAA", "CUSTOM_BDEPTH",
            "CUSTOM_ZDEPTH", "CUSTOM_CRACKS", "CUSTOM_QUALITY", "CUSTOM_QFINER",
            "CUSTOM_SMULTIPLIER", "CUSTOM_MPCACHE", "CUSTOM_MCACHE", "CUSTOM_SMPOLYGON",
            "CUSTOM_WH", "CUSTOM_TYPE"}
      /\ mantrasg_create.kinds = {}
  BY Zenon DEF mantrasg_create, Generator
<1> QED BY <1>1, <1>2, <1>3 DEF Supplied, Sets, Owner, Picture, Resolution, LacksOnWindows

LEMMA Supplied_maya == Supplied("maya", maya_sg_py, mayasg_create)
<1>1. /\ maya_sg_py.scene = "SCENE"
      /\ maya_sg_py.others = {"RENDERDIR", "PROJECTDIR", "RENDERER"}
      /\ maya_sg_py.windows = {}
  BY Zenon DEF maya_sg_py, Template, Resized
<1>2. maya_sg_py.kinds = {"animation", "single image"}
  BY Zenon DEF maya_sg_py, Template, Resized
<1>3. /\ mayasg_create.needed = {"SCENE", "RENDERDIR", "PROJECTDIR"}
      /\ mayasg_create.always = Owner
      /\ mayasg_create.optional = Picture \cup {"DRQUEUE_IMAGE", "RENDERER", "DRQUEUE_POST", "DRQUEUE_PRE"}
      /\ mayasg_create.kinds = {}
  BY Zenon DEF mayasg_create, Generator
<1> QED BY <1>1, <1>2, <1>3 DEF Supplied, Sets, Owner, Picture, Resolution, LacksOnWindows

LEMMA Supplied_mentalray == Supplied("mentalray", mentalray_sg_py, mentalraysg_create)
<1>1. /\ mentalray_sg_py.scene = "SCENE"
      /\ mentalray_sg_py.others = {"RENDER_TYPE"}
      /\ mentalray_sg_py.windows = {"RENDERDIR"}
  BY Zenon DEF mentalray_sg_py, Template, Resized
<1>2. mentalray_sg_py.kinds = {"animation"}
  BY Zenon DEF mentalray_sg_py, Template, Resized
<1>3. /\ mentalraysg_create.needed = {"SCENE", "RENDERDIR"}
      /\ mentalraysg_create.always = Owner
      /\ mentalraysg_create.optional = Picture \cup {"DRQUEUE_IMAGE"}
      /\ mentalraysg_create.kinds = {"animation", "single image"}
  BY Zenon DEF mentalraysg_create, Generator, OfKind
<1> QED BY <1>1, <1>2, <1>3 DEF Supplied, Sets, Owner, Picture, Resolution, LacksOnWindows

LEMMA Supplied_nuke == Supplied("nuke", nuke_sg_py, nukesg_create)
<1>1. /\ nuke_sg_py.scene = "SCENE"
      /\ nuke_sg_py.others = {}
      /\ nuke_sg_py.windows = {"RENDERDIR"}
  BY Zenon DEF nuke_sg_py, Template
<1>2. nuke_sg_py.kinds = {"animation", "single image"} /\ ~ nuke_sg_py.resized
  BY Zenon DEF nuke_sg_py, Template
<1>3. /\ nukesg_create.needed = {"SCENE"}
      /\ nukesg_create.always = Owner
      /\ nukesg_create.optional = Picture
      /\ nukesg_create.kinds = {}
  BY Zenon DEF nukesg_create, Generator
<1> QED BY <1>1, <1>2, <1>3 DEF Supplied, Sets, Owner, Picture, Resolution, LacksOnWindows

LEMMA Supplied_pixie == Supplied("pixie", pixie_sg_py, pixiesg_create)
<1>1. /\ pixie_sg_py.scene = "RIBFILE"
      /\ pixie_sg_py.others = {}
      /\ pixie_sg_py.windows = {"SCENE", "RENDERDIR"}
  BY Zenon DEF pixie_sg_py, Template
<1>2. pixie_sg_py.kinds = {"animation", "single image"} /\ ~ pixie_sg_py.resized
  BY Zenon DEF pixie_sg_py, Template
<1>3. /\ pixiesg_create.needed = {"RIBFILE"}
      /\ pixiesg_create.always = {}
      /\ pixiesg_create.optional = {}
      /\ pixiesg_create.kinds = {}
  BY Zenon DEF pixiesg_create, Generator
<1> QED BY <1>1, <1>2, <1>3 DEF Supplied, Sets, Owner, Picture, Resolution, LacksOnWindows

LEMMA Supplied_shake == Supplied("shake", shake_sg_py, shakesg_create)
<1>1. /\ shake_sg_py.scene = "DRQUEUE_SCRIPT"
      /\ shake_sg_py.others = {}
      /\ shake_sg_py.windows = {"SCENE", "RENDERDIR"}
  BY Zenon DEF shake_sg_py, Template
<1>2. shake_sg_py.kinds = {"animation", "single image"} /\ ~ shake_sg_py.resized
  BY Zenon DEF shake_sg_py, Template
<1>3. /\ shakesg_create.needed = {"DRQUEUE_SCRIPT"}
      /\ shakesg_create.always = {}
      /\ shakesg_create.optional = {}
      /\ shakesg_create.kinds = {}
  BY Zenon DEF shakesg_create, Generator
<1> QED BY <1>1, <1>2, <1>3 DEF Supplied, Sets, Owner, Picture, Resolution, LacksOnWindows

LEMMA Supplied_terragen == Supplied("terragen", terragen_sg_py, terragensg_create)
<1>1. /\ terragen_sg_py.scene = "SCENE"
      /\ terragen_sg_py.others = {"WORLDFILE", "TERRAINFILE"}
      /\ terragen_sg_py.windows = {"RENDERDIR"}
  BY Zenon DEF terragen_sg_py, Template
<1>2. terragen_sg_py.kinds = {"animation", "single image"} /\ ~ terragen_sg_py.resized
  BY Zenon DEF terragen_sg_py, Template
<1>3. /\ terragensg_create.needed = {"SCENE"}
      /\ terragensg_create.always = {"WORLDFILE", "TERRAINFILE"} \cup Owner
      /\ terragensg_create.optional = Picture
      /\ terragensg_create.kinds = {}
  BY Zenon DEF terragensg_create, Generator
<1> QED BY <1>1, <1>2, <1>3 DEF Supplied, Sets, Owner, Picture, Resolution, LacksOnWindows

LEMMA Supplied_turtle == Supplied("turtle", turtle_sg_py, turtlesg_create)
<1>1. /\ turtle_sg_py.scene = "SCENE"
      /\ turtle_sg_py.others = {"RENDERDIR", "PROJECTDIR"}
      /\ turtle_sg_py.windows = {}
  BY Zenon DEF turtle_sg_py, Template, Resized
<1>2. turtle_sg_py.kinds = {"animation", "single image"}
  BY Zenon DEF turtle_sg_py, Template, Resized
<1>3. /\ turtlesg_create.needed = {"SCENE", "RENDERDIR", "PROJECTDIR"}
      /\ turtlesg_create.always = Owner
      /\ turtlesg_create.optional = Picture \cup {"DRQUEUE_IMAGE", "USEMAYA70"}
      /\ turtlesg_create.kinds = {}
  BY Zenon DEF turtlesg_create, Generator
<1> QED BY <1>1, <1>2, <1>3 DEF Supplied, Sets, Owner, Picture, Resolution, LacksOnWindows

LEMMA Supplied_vray == Supplied("vray", vray_sg_py, vraysg_create)
<1>1. /\ vray_sg_py.scene = "SCENE"
      /\ vray_sg_py.others = {}
      /\ vray_sg_py.windows = {"RENDERDIR", "PROJECTDIR"}
  BY Zenon DEF vray_sg_py, Template
<1>2. vray_sg_py.kinds = {"animation", "single image"} /\ ~ vray_sg_py.resized
  BY Zenon DEF vray_sg_py, Template
<1>3. /\ vraysg_create.needed = {"SCENE"}
      /\ vraysg_create.always = {}
      /\ vraysg_create.optional = {}
      /\ vraysg_create.kinds = {}
  BY Zenon DEF vraysg_create, Generator
<1> QED BY <1>1, <1>2, <1>3 DEF Supplied, Sets, Owner, Picture, Resolution, LacksOnWindows

LEMMA Supplied_xsi == Supplied("xsi", xsi_sg_py, xsisg_create)
<1>1. /\ xsi_sg_py.scene = "SCENE"
      /\ xsi_sg_py.others = {"RENDERDIR", "XSI_DIR", "DRQUEUE_SKIPFRAMES"}
      /\ xsi_sg_py.windows = {}
  BY Zenon DEF xsi_sg_py, Template, Resized
<1>2. xsi_sg_py.kinds = {"animation", "single image"}
  BY Zenon DEF xsi_sg_py, Template, Resized
<1>3. /\ xsisg_create.needed = {"SCENE", "RENDERDIR", "XSI_DIR"}
      /\ xsisg_create.always = {"DRQUEUE_PASS", "DRQUEUE_RUNSCRIPT", "DRQUEUE_SKIPFRAMES"} \cup Owner
      /\ xsisg_create.optional = Resolution \cup {"DRQUEUE_IMAGE", "DRQUEUE_IMAGEEXT", "DRQUEUE_SCRIPTRUN"}
      /\ xsisg_create.kinds = {}
  BY Zenon DEF xsisg_create, Generator
<1> QED BY <1>1, <1>2, <1>3 DEF Supplied, Sets, Owner, Picture, Resolution, LacksOnWindows

----------------------------------------------------------------------------
(* Scripts and those who wrote them.                                       *)
Known(order) ==
  \E w \in Workloads : \E c \in DOMAIN w.orders : order = w.orders[c]
VarsOf(c) ==
  LET order == client[c].order
  IN  Names(c, Written(GeneratorFor(order), order.given, order.kind), order.kind)
BodyOf(c) == Body(c, client[c].order.engine)
Own(c) == client[c].order.engine = "own"
Wrote(c) == client[c].at \in {"named", "closed"} \/ job[c].queued

(* What the file of a client holds that nobody else wrote to.              *)
Whole(c) ==
  IF Own(c) THEN <<BodyOf(c)>>
  ELSE IF client[c].at = "open" THEN <<>>
  ELSE IF client[c].at = "named" \/ "no template" \in history[c] THEN <<VarsOf(c)>>
  ELSE <<VarsOf(c), BodyOf(c)>>

PartsOf(f) == {scripts[f][k] : k \in DOMAIN scripts[f]}
Files == Seconds \cup Clients
FilesOK ==
  /\ scripts = [f \in Files |-> scripts[f]]
  /\ \A f \in Files :
       /\ scripts[f] \in Seq(PartsOf(f))
       /\ \A p \in PartsOf(f) :
            /\ p.by \in Clients /\ client[p.by].script = f
            /\ client[p.by].at \notin {"starts", "open"}
WriterOK(c) ==
  /\ client[c].script \in Seconds \cup {c}
  /\ client[c].at # "done" \/ job[c].queued => Known(client[c].order)
  /\ client[c].at = "open" \/ Wrote(c) =>
       /\ IF Own(c) THEN client[c].script = c /\ client[c].at \in {"closed", "done"}
                    ELSE client[c].script \in Seconds
       /\ ~ Shared(c) => scripts[client[c].script] = Whole(c)
  /\ Wrote(c) =>
       /\ Own(c) \/ Accepts(GeneratorFor(client[c].order), client[c].order.kind)
       /\ \E p \in PartsOf(client[c].script) : p.by = c
HistoryOK ==
  /\ history = [c \in Clients |-> history[c]]
  /\ \A c \in Clients :
       /\ client[c].at \in {"starts", "open", "named"} => history[c] = {}
       /\ ~ job[c].queued => history[c] \subseteq {"no template"}

Excused(order, system) ==
  \/ HalfSize(order)
  \/ order.engine = "maya" /\ "RENDERER" \notin order.given
  \/ order.engine = "mentalray" /\ order.kind = "single image"
  \/ order.engine \in LacksOnWindows /\ system = Windows
NamesOK ==
  \A c \in Clients : ~ Shared(c) =>
    \A system \in {Linux, Windows} : system \in history[c] => Excused(client[c].order, system)

SInv == FilesOK /\ (\A c \in Clients : WriterOK(c)) /\ HistoryOK /\ NamesOK

----------------------------------------------------------------------------
(* Ranges, the tasks under way, and what they render.                      *)
RangeGood(o, r, h) ==
  /\ Forward(r) /\ r \in RangesOf(o)
  /\ h \cap {"updated", "reblocked"} = {} => r = Origin(o)
  /\ "reblocked" \notin h => r = Origin(o) \/ r.block = 1
TaskOf(q, i, o, r, h, t) ==
  /\ Forward(q) /\ i \in 0 .. job_nframes(q) - 1 /\ t = Task(q, i) /\ q \in RangesOf(o)
  /\ MaxUpdates <= 1 => q = Origin(o) \/ q = r
  /\ h \cap {"updated", "reblocked"} = {} => q = r
  /\ "reblocked" \notin h => q = r \/ (q.block = 1 /\ r.block = 1)
TaskGood(o, r, h, t) ==
  \E q \in RangesOf(o) : \E i \in 0 .. job_nframes(q) - 1 : TaskOf(q, i, o, r, h, t)
Placed(o, r, F, h, S, X) ==
  /\ RangeGood(o, r, h)
  /\ DOMAIN F = 0 .. job_nframes(r) - 1
  /\ \A s \in S : TaskGood(o, r, h, X[s].task)

DoneGood(r, F, rd, S, X) ==
  /\ \A i \in DOMAIN F : F[i].status = "finished" /\ F[i].exit = "zero" =>
       \A n \in FramesOfIndex(r, i) : rd[n] > 0
  /\ \A s \in S : X[s].exit = "zero" => \A n \in PadFrames(X[s].task) : rd[n] > 0
AskedGood(o, r, rd) ==
  \A n \in FrameNumbersUsed : rd[n] > 0 => n \in FramesAsked(Origin(o)) \cup FramesAsked(r)
OnceGood(r, F, rd, S, X) ==
  /\ \A n \in FrameNumbersUsed : rd[n] <= 1
  /\ \A s \in S : job_frame_number_correct(r, X[s].task.frame) =>
       F[job_frame_number_to_index(r, X[s].task.frame)].status = "assigned"
  /\ \A s, u \in S : s # u => X[s].task.frame # X[u].task.frame
  /\ \A i \in DOMAIN F : F[i].status = "waiting" => \A n \in PadFrames(Task(r, i)) : rd[n] = 0
  /\ \A s \in S : X[s].exit \in {"none", "signal"} => \A n \in PadFrames(X[s].task) : rd[n] = 0
Alone(o, r, F, h, rd, S, X) ==
  /\ h \cap {"no template", "reblocked"} = {} /\ o.engine # "luxrender" /\ ~ Strides(Origin(o)) =>
       DoneGood(r, F, rd, S, X)
  /\ MaxUpdates <= 1 /\ ~ Strides(Origin(o)) /\ ~ Strides(r) => AskedGood(o, r, rd)
  /\ MaxUpdates <= 1 /\ h \cap {"reblocked", "requeued"} = {} => OnceGood(r, F, rd, S, X)
Mine(c) == {s \in DOMAIN slot : Holds(s, c)}
JobGood(c) ==
  job[c].queued =>
    /\ Placed(client[c].order, job[c].range, job[c].frames, history[c], Mine(c), slot)
    /\ ~ Shared(c) =>
         Alone(client[c].order, job[c].range, job[c].frames, history[c], rendered[c], Mine(c), slot)
FreshOK(c) ==
  client[c].at \in {"starts", "open"} \/ (~ job[c].queued /\ ~ Shared(c)) =>
    \A n \in FrameNumbersUsed : rendered[c][n] = 0
GInv == \A c \in Clients : JobGood(c) /\ FreshOK(c)

----------------------------------------------------------------------------
(* What the tasks of a job have to do with its range.                      *)
LEMMA OwnTask ==
  ASSUME NEW o, NEW r, NEW h, RangeGood(o, r, h), NEW i \in 0 .. job_nframes(r) - 1
  PROVE TaskGood(o, r, h, Task(r, i))
<1>1. r \in RangesOf(o) /\ Forward(r)
  BY Zenon DEF RangeGood
<1>2. TaskOf(r, i, o, r, h, Task(r, i))
  BY <1>1, Zenon DEF TaskOf
<1> QED BY <1>1, <1>2, Zenon DEF TaskGood

LEMMA TaskPads ==
  ASSUME NEW o, NEW r, NEW h, NEW t, TaskGood(o, r, h, t)
  PROVE t.frame \in Nat /\ t.frame \in PadFrames(t) /\ PadFrames(t) \subseteq FrameNumbersUsed
<1>1. PICK q, i : TaskOf(q, i, o, r, h, t)
  BY Zenon DEF TaskGood
<1>2. Forward(q) /\ i \in 0 .. job_nframes(q) - 1 /\ t = Task(q, i)
  BY <1>1, Zenon DEF TaskOf
<1> QED BY <1>2, TaskFields, PadsOf

LEMMA IndexBack ==
  ASSUME NEW r, Forward(r), NEW i \in 0 .. job_nframes(r) - 1
  PROVE /\ Task(r, i).frame \in Nat
        /\ job_frame_number_correct(r, Task(r, i).frame)
        /\ job_frame_number_to_index(r, Task(r, i).frame) = i
<1>1. Task(r, i).frame = job_frame_index_to_number(r, i) /\ Task(r, i).frame \in Nat
  BY TaskFields
<1>2. InNumbers(r) /\ r.start <= r.end /\ job_nframes(r) # 0
  BY DEF Forward
<1>3. /\ job_frame_number_correct(r, job_frame_index_to_number(r, i))
      /\ job_frame_number_to_index(r, job_frame_index_to_number(r, i)) = i
  BY <1>2, NumberOfIndex
<1> QED BY <1>1, <1>3

(* A number of the range is the number of its index, if blocks are frames. *)
LEMMA NumberBack ==
  ASSUME NEW r, Forward(r), r.block = 1, NEW n \in Nat, job_frame_number_correct(r, n)
  PROVE LET k == job_frame_number_to_index(r, n)
        IN  /\ k \in 0 .. job_nframes(r) - 1
            /\ Task(r, k).frame = n /\ FramesOfIndex(r, k) = {n} /\ PadFrames(Task(r, k)) = {n}
<1> PICK k : k = job_frame_number_to_index(r, n)
  OBVIOUS
<1>1. InNumbers(r) /\ r.start <= r.end /\ job_nframes(r) # 0
  BY DEF Forward
<1>2. k \in 0 .. job_nframes(r) - 1
  BY <1>1, IndexOfNumber
<1>3. n \in FramesOfIndex(r, k)
  <2>1. r.start \in Nat /\ r.end \in Nat
    BY <1>1, Numbers
  <2>2. n \in r.start .. r.end
    BY <2>1 DEF job_frame_number_correct
  <2> QED BY <2>2 DEF FramesOfIndex, FramesAsked
<1>4. FramesOfIndex(r, k) = {job_frame_index_to_number(r, k)}
  BY <1>1, <1>2, SingleFrames
<1>5. Task(r, k).frame = job_frame_index_to_number(r, k)
  BY <1>2, TaskFields
<1>6. PadFrames(Task(r, k)) = {Task(r, k).frame}
  BY <1>2, PadsOf
<1> QED BY <1>2, <1>3, <1>4, <1>5, <1>6

LEMMA SameBlock ==
  ASSUME NEW o, NEW r, NEW h, RangeGood(o, r, h), "reblocked" \notin h, NEW t,
         TaskGood(o, r, h, t), job_frame_number_correct(r, t.frame)
  PROVE LET k == job_frame_number_to_index(r, t.frame)
        IN  /\ k \in 0 .. job_nframes(r) - 1
            /\ Task(r, k).frame = t.frame /\ PadFrames(Task(r, k)) = PadFrames(t)
<1>1. PICK q, i : TaskOf(q, i, o, r, h, t)
  BY Zenon DEF TaskGood
<1>2. /\ Forward(q) /\ i \in 0 .. job_nframes(q) - 1 /\ t = Task(q, i)
      /\ q = r \/ (q.block = 1 /\ r.block = 1)
  BY <1>1, Zenon DEF TaskOf
<1>3. Forward(r)
  BY Zenon DEF RangeGood
<1>4. CASE q = r
  BY <1>2, <1>4, IndexBack
<1>5. CASE q # r
  <2>1. t.frame \in Nat
    BY <1>2, TaskFields
  <2>2. PadFrames(t) = {t.frame}
    BY <1>2, <1>5, PadsOf
  <2> QED BY <2>1, <2>2, <1>2, <1>3, <1>5, NumberBack
<1> QED BY <1>4, <1>5

LEMMA TasksApart ==
  ASSUME NEW o, NEW r, NEW h, "reblocked" \notin h,
         NEW t, TaskGood(o, r, h, t), NEW u, TaskGood(o, r, h, u), t.frame # u.frame
  PROVE PadFrames(t) \cap PadFrames(u) = {}
<1>1. PICK q, i : TaskOf(q, i, o, r, h, t)
  BY Zenon DEF TaskGood
<1>2. PICK p, j : TaskOf(p, j, o, r, h, u)
  BY Zenon DEF TaskGood
<1>3. /\ Forward(q) /\ i \in 0 .. job_nframes(q) - 1 /\ t = Task(q, i)
      /\ q = r \/ (q.block = 1 /\ r.block = 1)
  BY <1>1, Zenon DEF TaskOf
<1>4. /\ Forward(p) /\ j \in 0 .. job_nframes(p) - 1 /\ u = Task(p, j)
      /\ p = r \/ (p.block = 1 /\ r.block = 1)
  BY <1>2, Zenon DEF TaskOf
<1>5. CASE q = r /\ p = r
  <2>1. i # j
    BY <1>3, <1>4, <1>5
  <2> QED BY <2>1, <1>3, <1>4, <1>5, PadsApart
<1>6. CASE ~ (q = r /\ p = r)
  <2>1. q.block = 1 /\ p.block = 1
    BY <1>3, <1>4, <1>6
  <2>2. PadFrames(t) = {t.frame} /\ PadFrames(u) = {u.frame}
    BY <2>1, <1>3, <1>4, PadsOf
  <2> QED BY <2>2
<1> QED BY <1>5, <1>6

LEMMA WaitingApart ==
  ASSUME NEW o, NEW r, NEW h, RangeGood(o, r, h), "reblocked" \notin h,
         NEW i \in 0 .. job_nframes(r) - 1, NEW t, TaskGood(o, r, h, t),
         ~ (/\ job_frame_number_correct(r, t.frame)
            /\ job_frame_number_to_index(r, t.frame) = i)
  PROVE /\ Task(r, i).frame # t.frame
        /\ PadFrames(Task(r, i)) \cap PadFrames(t) = {}
<1>1. TaskGood(o, r, h, Task(r, i))
  BY OwnTask
<1>2. Forward(r)
  BY Zenon DEF RangeGood
<1>3. Task(r, i).frame # t.frame
  BY <1>2, IndexBack
<1> QED BY <1>1, <1>3, TasksApart

LEMMA BlockFrames ==
  ASSUME NEW r, Forward(r), ~ Strides(r), NEW i \in 0 .. job_nframes(r) - 1
  PROVE PadFrames(Task(r, i)) = FramesOfIndex(r, i)
<1>1. PICK template : template = [frames |-> "block"]
  OBVIOUS
<1>2. template.frames \in {"block", "steps"}
  BY <1>1
<1>3. InNumbers(r) /\ r.start <= r.end /\ job_nframes(r) # 0
  BY DEF Forward
<1> QED BY <1>2, <1>3, BlocksAreIndices DEF Task

LEMMA StaysUnstridden ==
  ASSUME NEW o, NEW r, NEW h, RangeGood(o, r, h), "reblocked" \notin h, ~ Strides(Origin(o))
  PROVE ~ Strides(r)
<1>1. r = Origin(o) \/ r.block = 1
  BY Zenon DEF RangeGood
<1> QED BY <1>1 DEF Strides

----------------------------------------------------------------------------
(* What the steps make of the records of one job: the order o, the range   *)
(* r, the frames F, the history h, the frames rendered rd, the slots S     *)
(* that hold its tasks, of the slots X.                                    *)

(* Tasks stay what they were as long as the range does.                    *)
LEMMA PlacedOn ==
  ASSUME NEW o, NEW r, NEW F, NEW h, NEW S, NEW X, Placed(o, r, F, h, S, X),
         NEW G, DOMAIN G = DOMAIN F, NEW g, h \subseteq g,
         NEW V, NEW Y, \A s \in V : TaskGood(o, r, h, Y[s].task)
  PROVE Placed(o, r, G, h, V, Y)
  BY Zenon DEF Placed

LEMMA Remember ==
  ASSUME NEW o, NEW r, NEW h, NEW g, h \subseteq g
  PROVE /\ RangeGood(o, r, h) => RangeGood(o, r, g)
        /\ \A t : TaskGood(o, r, h, t) => TaskGood(o, r, g, t)
<1>1. RangeGood(o, r, h) => RangeGood(o, r, g)
  BY DEF RangeGood
<1>2. ASSUME NEW t, NEW q, NEW i, TaskOf(q, i, o, r, h, t) PROVE TaskOf(q, i, o, r, g, t)
  BY <1>2 DEF TaskOf
<1>3. ASSUME NEW t, TaskGood(o, r, h, t) PROVE TaskGood(o, r, g, t)
  BY <1>2, <1>3, Zenon DEF TaskGood
<1> QED BY <1>1, <1>3

(* A job's frame is given to a slot.                                       *)
LEMMA AvailableGood ==
  ASSUME NEW o, NEW r, NEW F, NEW h, NEW rd, NEW S, NEW X,
         Placed(o, r, F, h, S, X), NEW i \in DOMAIN F, F[i].status = "waiting",
         NEW s, s \notin S, NEW G, DOMAIN G = DOMAIN F, G[i].status = "assigned",
         \A k \in DOMAIN F \ {i} : G[k] = F[k],
         NEW Y, Y[s].exit = "none", Y[s].task = Task(r, i), \A u \in S : Y[u] = X[u]
  PROVE /\ Placed(o, r, G, h, S \cup {s}, Y)
        /\ Alone(o, r, F, h, rd, S, X) => Alone(o, r, G, h, rd, S \cup {s}, Y)
<1>1. RangeGood(o, r, h) /\ DOMAIN F = 0 .. job_nframes(r) - 1 /\ Forward(r)
  BY Zenon DEF Placed, RangeGood
<1>2. TaskGood(o, r, h, Y[s].task)
  BY <1>1, OwnTask
<1>3. \A u \in S : TaskGood(o, r, h, Y[u].task)
  BY DEF Placed
<1>4. Placed(o, r, G, h, S \cup {s}, Y)
  BY <1>1, <1>2, <1>3 DEF Placed
<1>5. ASSUME DoneGood(r, F, rd, S, X) PROVE DoneGood(r, G, rd, S \cup {s}, Y)
  <2>1. \A k \in DOMAIN G : G[k].status = "finished" => G[k] = F[k]
    OBVIOUS
  <2>2. \A u \in S \cup {s} : Y[u].exit = "zero" => u \in S /\ Y[u] = X[u]
    OBVIOUS
  <2> QED BY <1>5, <2>1, <2>2 DEF DoneGood
<1>6. ASSUME OnceGood(r, F, rd, S, X), "reblocked" \notin h PROVE OnceGood(r, G, rd, S \cup {s}, Y)
  <2>1. \A n \in FrameNumbersUsed : rd[n] <= 1
    BY <1>6 DEF OnceGood
  <2>2. ASSUME NEW u \in S, job_frame_number_correct(r, Y[u].task.frame)
        PROVE LET k == job_frame_number_to_index(r, Y[u].task.frame)
              IN  G[k].status = "assigned" /\ k # i
    <3> PICK k : k = job_frame_number_to_index(r, Y[u].task.frame)
      OBVIOUS
    <3>1. F[k].status = "assigned"
      BY <1>6, <2>2 DEF OnceGood
    <3>2. k \in DOMAIN F
      BY <1>1, <1>3, <1>6, <2>2, SameBlock
    <3> QED BY <3>1, <3>2
  <2>3. job_frame_number_to_index(r, Y[s].task.frame) = i
    BY <1>1, IndexBack
  <2>4. \A u \in S \cup {s} : job_frame_number_correct(r, Y[u].task.frame) =>
          G[job_frame_number_to_index(r, Y[u].task.frame)].status = "assigned"
    BY <2>2, <2>3
  <2>5. ASSUME NEW u \in S PROVE Y[u].task.frame # Y[s].task.frame
    BY <1>1, <1>3, <1>6, <2>2, <2>5, WaitingApart
  <2>6. \A u, v \in S \cup {s} : u # v => Y[u].task.frame # Y[v].task.frame
    <3>1. \A u, v \in S : u # v => Y[u].task.frame # Y[v].task.frame
      BY <1>6 DEF OnceGood
    <3> QED BY <3>1, <2>5
  <2>7. \A k \in DOMAIN G : G[k].status = "waiting" => \A n \in PadFrames(Task(r, k)) : rd[n] = 0
    BY <1>6 DEF OnceGood
  <2>8. \A u \in S \cup {s} : Y[u].exit \in {"none", "signal"} =>
          \A n \in PadFrames(Y[u].task) : rd[n] = 0
    BY <1>6 DEF OnceGood
  <2> QED BY <2>1, <2>4, <2>6, <2>7, <2>8, Zenon DEF OnceGood
<1>7. Alone(o, r, F, h, rd, S, X) => Alone(o, r, G, h, rd, S \cup {s}, Y)
  <2>1. h \cap {"reblocked", "requeued"} = {} => "reblocked" \notin h
    OBVIOUS
  <2> QED BY <1>5, <1>6, <2>1, Zenon DEF Alone
<1> QED BY <1>4, <1>7

(* A task is run.                                                          *)
LEMMA OneMore ==
  /\ \A m \in 0 .. 2 : Capped(m + 1) > 0 /\ (m = 0 => Capped(m + 1) = 1)
  /\ \A m : m = 1 => m <= 1
<1>1. ASSUME NEW m \in 0 .. 2 PROVE Capped(m + 1) > 0 /\ (m = 0 => Capped(m + 1) = 1)
  <2>1. m = 0 \/ m = 1 \/ m = 2
    OBVIOUS
  <2>2. Capped(1) = 1 /\ Capped(2) = 2 /\ Capped(3) = 2
    BY DEF Capped
  <2> QED BY <2>1, <2>2
<1>2. \A m : m = 1 => m <= 1
  OBVIOUS
<1> QED BY <1>1, <1>2

LEMMA AskedAreNumbers ==
  ASSUME NEW r, Forward(r), NEW i PROVE FramesOfIndex(r, i) \subseteq FrameNumbersUsed
<1>1. r.start \in Nat /\ r.end \in Nat /\ r.end < 2 ^ Width /\ 2 ^ Width \in Nat
  BY Numbers, Modulus DEF Forward
<1>2. FramesOfIndex(r, i) \subseteq r.start .. r.end
  BY DEF FramesOfIndex, FramesAsked
<1> QED BY <1>1, <1>2 DEF FrameNumbersUsed

Rendering(rd, P) == [n \in FrameNumbersUsed |-> IF n \in P THEN Capped(rd[n] + 1) ELSE rd[n]]

(* A slot runs the script of its task, which yields the frames of P.       *)
Yields(order, h, t, exit, P) ==
  /\ P \subseteq PadFrames(t) /\ (exit # "zero" => P = {})
  /\ exit = "zero" /\ "no template" \notin h /\ order.engine # "luxrender" => P = PadFrames(t)
Ran(o, h, S, X, s, Y, g, P) ==
  /\ s \in S /\ X[s].exit = "none" /\ \A u \in S \ {s} : Y[u] = X[u]
  /\ Y[s].task = X[s].task /\ Y[s].exit \in {"zero", "one", "signal"}
  /\ h \subseteq g /\ g \subseteq h \cup {Linux, Windows}
  /\ Yields(o, h, X[s].task, Y[s].exit, P)
LEMMA LaunchGood ==
  ASSUME NEW o, NEW r, NEW F, NEW h, NEW rd \in [FrameNumbersUsed -> 0 .. 2], NEW S, NEW X,
         Placed(o, r, F, h, S, X), NEW s, NEW Y, NEW g, NEW P, Ran(o, h, S, X, s, Y, g, P)
  PROVE /\ Placed(o, r, F, g, S, Y)
        /\ Alone(o, r, F, h, rd, S, X) => Alone(o, r, F, g, Rendering(rd, P), S, Y)
<1>0. /\ s \in S /\ X[s].exit = "none" /\ \A u \in S \ {s} : Y[u] = X[u]
      /\ Y[s].task = X[s].task /\ Y[s].exit \in {"zero", "one", "signal"}
      /\ h \subseteq g /\ g \subseteq h \cup {Linux, Windows}
      /\ P \subseteq PadFrames(X[s].task) /\ (Y[s].exit # "zero" => P = {})
      /\ Y[s].exit = "zero" /\ "no template" \notin h /\ o.engine # "luxrender"
           => P = PadFrames(X[s].task)
  BY Zenon DEF Ran, Yields
<1> USE <1>0
<1>1. RangeGood(o, r, h) /\ DOMAIN F = 0 .. job_nframes(r) - 1 /\ Forward(r)
      /\ \A u \in S : TaskGood(o, r, h, X[u].task)
  BY Zenon DEF Placed, RangeGood
<1>2. Placed(o, r, F, g, S, Y)
  <2>1. RangeGood(o, r, g)
    BY <1>1, Remember
  <2>2. \A u \in S : Y[u].task = X[u].task
    OBVIOUS
  <2>3. \A u \in S : TaskGood(o, r, g, Y[u].task)
    BY <1>1, <2>2, Remember
  <2> QED BY <1>1, <2>1, <2>3, Zenon DEF Placed
<1> DEFINE new == Rendering(rd, P)
<1>3. \A n \in FrameNumbersUsed : /\ n \in P => new[n] > 0 /\ (rd[n] = 0 => new[n] = 1)
                                  /\ n \notin P => new[n] = rd[n]
                                  /\ rd[n] > 0 => new[n] > 0
  <2>2. \A n \in FrameNumbersUsed : rd[n] \in 0 .. 2 /\ new[n] = IF n \in P THEN Capped(rd[n] + 1) ELSE rd[n]
    BY DEF Rendering
  <2> HIDE DEF new
  <2> QED BY <2>2, OneMore
<1> HIDE DEF new
<1>4. P \subseteq FrameNumbersUsed /\ PadFrames(X[s].task) \subseteq FrameNumbersUsed
  BY <1>1, TaskPads
<1>5. /\ g \cap {"updated", "reblocked"} = h \cap {"updated", "reblocked"}
      /\ g \cap {"no template", "reblocked"} = h \cap {"no template", "reblocked"}
      /\ g \cap {"reblocked", "requeued"} = h \cap {"reblocked", "requeued"}
  BY DEF Linux, Windows
<1>6. ASSUME DoneGood(r, F, rd, S, X), "no template" \notin h, o.engine # "luxrender"
      PROVE DoneGood(r, F, new, S, Y)
  <2>1. ASSUME NEW i \in DOMAIN F, F[i].status = "finished", F[i].exit = "zero",
               NEW n \in FramesOfIndex(r, i)
        PROVE new[n] > 0
    <3>1. rd[n] > 0
      BY <1>6, <2>1 DEF DoneGood
    <3>2. n \in FrameNumbersUsed
      BY <1>1, <2>1, AskedAreNumbers
    <3> QED BY <3>1, <3>2, <1>3
  <2>2. ASSUME NEW u \in S, Y[u].exit = "zero", NEW n \in PadFrames(Y[u].task)
        PROVE new[n] > 0
    <3>1. Y[u].task = X[u].task
      OBVIOUS
    <3>2. n \in FrameNumbersUsed
      BY <1>1, <2>2, <3>1, TaskPads
    <3>3. CASE u = s
      BY <1>3, <1>6, <2>2, <3>1, <3>2, <3>3
    <3>4. CASE u # s
      <4>1. rd[n] > 0
        BY <1>6, <2>2, <3>1, <3>4 DEF DoneGood
      <4> QED BY <4>1, <3>2, <1>3
    <3> QED BY <3>3, <3>4
  <2> QED BY <2>1, <2>2, Zenon DEF DoneGood
<1>7. ASSUME AskedGood(o, r, rd), MaxUpdates <= 1, ~ Strides(Origin(o)), ~ Strides(r)
      PROVE AskedGood(o, r, new)
  <2>1. PICK q, i : TaskOf(q, i, o, r, h, X[s].task)
    BY <1>1, Zenon DEF TaskGood
  <2>2. /\ Forward(q) /\ i \in 0 .. job_nframes(q) - 1 /\ X[s].task = Task(q, i)
        /\ q = Origin(o) \/ q = r
    BY <1>7, <2>1, Zenon DEF TaskOf
  <2>3. PadFrames(X[s].task) = FramesOfIndex(q, i)
    BY <2>2, <1>7, BlockFrames
  <2>4. P \subseteq FramesAsked(Origin(o)) \cup FramesAsked(r)
    BY <2>2, <2>3 DEF FramesOfIndex
  <2> QED BY <1>3, <1>7, <2>4 DEF AskedGood
<1>8. ASSUME OnceGood(r, F, rd, S, X), "reblocked" \notin h PROVE OnceGood(r, F, new, S, Y)
  <2>1. \A n \in PadFrames(X[s].task) : rd[n] = 0
    BY <1>8 DEF OnceGood
  <2>2. \A n \in FrameNumbersUsed : new[n] <= 1
    <3>1. \A n \in FrameNumbersUsed : rd[n] <= 1
      BY <1>8 DEF OnceGood
    <3>2. ASSUME NEW n \in FrameNumbersUsed PROVE new[n] <= 1
      <4>1. CASE n \in P
        <5>1. new[n] = 1
          BY <4>1, <2>1, <1>3
        <5> QED BY <5>1, OneMore, Zenon
      <4>2. CASE n \notin P
        BY <4>2, <3>1, <1>3
      <4> QED BY <4>1, <4>2
    <3> QED BY <3>2
  <2>3. \A u \in S : Y[u].task = X[u].task
    OBVIOUS
  <2>4. /\ \A u \in S : job_frame_number_correct(r, Y[u].task.frame) =>
             F[job_frame_number_to_index(r, Y[u].task.frame)].status = "assigned"
        /\ \A u, v \in S : u # v => Y[u].task.frame # Y[v].task.frame
    <3>1. /\ \A u \in S : job_frame_number_correct(r, X[u].task.frame) =>
               F[job_frame_number_to_index(r, X[u].task.frame)].status = "assigned"
          /\ \A u, v \in S : u # v => X[u].task.frame # X[v].task.frame
      BY <1>8, Zenon DEF OnceGood
    <3> QED BY <2>3, <3>1, Zenon
  <2>5. ASSUME NEW i \in DOMAIN F, F[i].status = "waiting", NEW n \in PadFrames(Task(r, i))
        PROVE new[n] = 0
    <3>1. rd[n] = 0
      BY <1>8, <2>5 DEF OnceGood
    <3>2. PadFrames(Task(r, i)) \cap PadFrames(X[s].task) = {}
      <4>1. job_frame_number_correct(r, X[s].task.frame) =>
              F[job_frame_number_to_index(r, X[s].task.frame)].status = "assigned"
        BY <1>8 DEF OnceGood
      <4>2. ~ (/\ job_frame_number_correct(r, X[s].task.frame)
               /\ job_frame_number_to_index(r, X[s].task.frame) = i)
        BY <4>1, <2>5
      <4>3. i \in 0 .. job_nframes(r) - 1 /\ TaskGood(o, r, h, X[s].task) /\ RangeGood(o, r, h)
        BY <1>1
      <4>4. "reblocked" \notin h
        BY <1>8
      <4> QED BY <4>2, <4>3, <4>4, WaitingApart
    <3>3. n \in FrameNumbersUsed
      <4>1. i \in 0 .. job_nframes(r) - 1
        BY <1>1
      <4> QED BY <1>1, <2>5, <4>1, PadsOf
    <3> QED BY <3>1, <3>2, <3>3, <2>5, <1>3
  <2>6. ASSUME NEW u \in S, Y[u].exit \in {"none", "signal"}, NEW n \in PadFrames(Y[u].task)
        PROVE new[n] = 0
    <3>1. n \in FrameNumbersUsed
      BY <1>1, <2>3, <2>6, TaskPads
    <3>2. CASE u = s
      BY <1>3, <2>1, <2>3, <2>6, <3>1, <3>2
    <3>3. CASE u # s
      <4>1. rd[n] = 0
        BY <1>8, <2>6, <3>3 DEF OnceGood
      <4>2. X[u].task.frame # X[s].task.frame
        BY <1>8, <3>3 DEF OnceGood
      <4>3. PadFrames(X[u].task) \cap PadFrames(X[s].task) = {}
        <5>1. TaskGood(o, r, h, X[s].task) /\ TaskGood(o, r, h, X[u].task) /\ "reblocked" \notin h
          BY <1>1, <1>8
        <5> QED BY <4>2, <5>1, TasksApart
      <4> QED BY <4>1, <4>3, <3>1, <2>3, <2>6, <1>3
    <3> QED BY <3>2, <3>3
  <2> QED BY <2>2, <2>4, <2>5, <2>6, Zenon DEF OnceGood
<1>9. ASSUME Alone(o, r, F, h, rd, S, X) PROVE Alone(o, r, F, g, new, S, Y)
  <2>1. h \cap {"no template", "reblocked"} = {} => "no template" \notin h
    OBVIOUS
  <2>2. h \cap {"reblocked", "requeued"} = {} => "reblocked" \notin h
    OBVIOUS
  <2> QED BY <1>5, <1>6, <1>7, <1>8, <1>9, <2>1, <2>2, Zenon DEF Alone
<1> QED BY <1>2, <1>9 DEF new

(* A task is reported: the record of its block is settled, or it waits     *)
(* again, having rendered nothing.                                         *)
Reported(r, F, S, X, s, Y, n, i, G) ==
  /\ s \in S /\ X[s].exit # "none" /\ \A u \in S \ {s} : Y[u] = X[u]
  /\ n = X[s].task.frame /\ i = job_frame_number_to_index(r, n) /\ DOMAIN G = DOMAIN F
  /\ \A k \in DOMAIN F : ~ (job_frame_number_correct(r, n) /\ k = i) => G[k] = F[k]
  /\ job_frame_number_correct(r, n) /\ i \in DOMAIN F =>
       IF X[s].exit = "signal"
       THEN G[i] = F[i] \/ G[i].status \in {"waiting", "error"}
       ELSE G[i].status = "finished" /\ G[i].exit = X[s].exit
LEMMA ReportGood ==
  ASSUME NEW o, NEW r, NEW F, NEW h, NEW rd, NEW S, NEW X, Placed(o, r, F, h, S, X),
         NEW s, NEW Y, NEW n, NEW i, NEW G, Reported(r, F, S, X, s, Y, n, i, G)
  PROVE /\ Placed(o, r, G, h, S \ {s}, Y)
        /\ Alone(o, r, F, h, rd, S, X) => Alone(o, r, G, h, rd, S \ {s}, Y)
<1>0. /\ s \in S /\ X[s].exit # "none" /\ \A u \in S \ {s} : Y[u] = X[u]
      /\ n = X[s].task.frame /\ i = job_frame_number_to_index(r, n) /\ DOMAIN G = DOMAIN F
      /\ \A k \in DOMAIN F : ~ (job_frame_number_correct(r, n) /\ k = i) => G[k] = F[k]
      /\ job_frame_number_correct(r, n) /\ i \in DOMAIN F =>
           IF X[s].exit = "signal"
           THEN G[i] = F[i] \/ G[i].status \in {"waiting", "error"}
           ELSE G[i].status = "finished" /\ G[i].exit = X[s].exit
  BY Zenon DEF Reported
<1> USE <1>0
<1>1. RangeGood(o, r, h) /\ DOMAIN F = 0 .. job_nframes(r) - 1 /\ Forward(r)
      /\ \A u \in S : TaskGood(o, r, h, X[u].task)
  BY Zenon DEF Placed, RangeGood
<1> DEFINE V == S \ {s}
<1>2. \A u \in V : u \in S /\ Y[u] = X[u]
  OBVIOUS
<1>3. Placed(o, r, G, h, V, Y)
  <2>1. \A u \in V : TaskGood(o, r, h, Y[u].task)
    BY <1>1, <1>2
  <2> HIDE DEF V
  <2> QED BY <1>1, <2>1, Zenon DEF Placed
<1>4. ASSUME DoneGood(r, F, rd, S, X), "reblocked" \notin h, ~ Strides(Origin(o))
      PROVE DoneGood(r, G, rd, V, Y)
  <2>1. ASSUME NEW k \in DOMAIN G, G[k].status = "finished", G[k].exit = "zero",
               NEW m \in FramesOfIndex(r, k)
        PROVE rd[m] > 0
    <3>1. CASE G[k] = F[k]
      BY <1>4, <2>1, <3>1 DEF DoneGood
    <3>2. CASE G[k] # F[k]
      <4>1. job_frame_number_correct(r, n) /\ k = i
        BY <2>1, <3>2
      <4>2. X[s].exit = "zero"
        BY <2>1, <3>2, <4>1
      <4>3. PadFrames(Task(r, i)) = PadFrames(X[s].task)
        BY <1>1, <1>4, <4>1, SameBlock
      <4>4. ~ Strides(r)
        BY <1>1, <1>4, StaysUnstridden
      <4>5. PadFrames(Task(r, k)) = FramesOfIndex(r, k)
        BY <1>1, <2>1, <4>4, BlockFrames
      <4> QED BY <1>4, <2>1, <4>1, <4>2, <4>3, <4>5 DEF DoneGood
    <3> QED BY <3>1, <3>2
  <2>2. \A u \in V : Y[u].exit = "zero" => \A m \in PadFrames(Y[u].task) : rd[m] > 0
    BY <1>2, <1>4 DEF DoneGood
  <2> HIDE DEF V
  <2> QED BY <2>1, <2>2, Zenon DEF DoneGood
<1>5. ASSUME OnceGood(r, F, rd, S, X), "reblocked" \notin h PROVE OnceGood(r, G, rd, V, Y)
  <2>1. /\ \A m \in FrameNumbersUsed : rd[m] <= 1
        /\ \A u \in S : job_frame_number_correct(r, X[u].task.frame) =>
             F[job_frame_number_to_index(r, X[u].task.frame)].status = "assigned"
        /\ \A u, v \in S : u # v => X[u].task.frame # X[v].task.frame
        /\ \A k \in DOMAIN F : F[k].status = "waiting" =>
             \A m \in PadFrames(Task(r, k)) : rd[m] = 0
        /\ \A u \in S : X[u].exit \in {"none", "signal"} =>
             \A m \in PadFrames(X[u].task) : rd[m] = 0
    BY <1>5, Zenon DEF OnceGood
  <2>2. ASSUME NEW u \in V, job_frame_number_correct(r, Y[u].task.frame)
        PROVE G[job_frame_number_to_index(r, Y[u].task.frame)].status = "assigned"
    <3> PICK k : k = job_frame_number_to_index(r, X[u].task.frame)
      OBVIOUS
    <3>1. F[k].status = "assigned"
      BY <1>2, <2>1, <2>2
    <3>2. job_frame_number_correct(r, X[u].task.frame)
      BY <1>2, <2>2
    <3>3. k \in DOMAIN F /\ Task(r, k).frame = X[u].task.frame
      BY <1>1, <1>2, <1>5, <3>2, SameBlock
    <3>4. ~ (job_frame_number_correct(r, n) /\ k = i)
      <4> SUFFICES ASSUME job_frame_number_correct(r, n), k = i PROVE FALSE
        OBVIOUS
      <4>1. Task(r, i).frame = n
        BY <1>1, <1>5, SameBlock
      <4>2. u # s
        OBVIOUS
      <4> QED BY <4>1, <4>2, <1>2, <2>1, <3>3
    <3> QED BY <1>2, <3>1, <3>3, <3>4
  <2>3. \A u, v \in V : u # v => Y[u].task.frame # Y[v].task.frame
    BY <1>2, <2>1
  <2>4. ASSUME NEW k \in DOMAIN G, G[k].status = "waiting", NEW m \in PadFrames(Task(r, k))
        PROVE rd[m] = 0
    <3>1. CASE G[k] = F[k]
      BY <2>1, <2>4, <3>1
    <3>2. CASE G[k] # F[k]
      <4>1. job_frame_number_correct(r, n) /\ k = i /\ X[s].exit = "signal"
        BY <2>4, <3>2
      <4>2. PadFrames(Task(r, i)) = PadFrames(X[s].task)
        BY <1>1, <1>5, <4>1, SameBlock
      <4> QED BY <2>1, <2>4, <4>1, <4>2
    <3> QED BY <3>1, <3>2
  <2>5. \A u \in V : Y[u].exit \in {"none", "signal"} => \A m \in PadFrames(Y[u].task) : rd[m] = 0
    BY <1>2, <2>1
  <2> HIDE DEF V
  <2> QED BY <2>1, <2>2, <2>3, <2>4, <2>5, Zenon DEF OnceGood
<1>6. ASSUME Alone(o, r, F, h, rd, S, X) PROVE Alone(o, r, G, h, rd, V, Y)
  <2>1. h \cap {"no template", "reblocked"} = {} => "reblocked" \notin h
    OBVIOUS
  <2>2. h \cap {"reblocked", "requeued"} = {} => "reblocked" \notin h
    OBVIOUS
  <2> HIDE DEF V
  <2> QED BY <1>4, <1>5, <1>6, <2>1, <2>2, Zenon DEF Alone
<1> QED BY <1>3, <1>6, Zenon DEF V

(* The check makes a frame wait again.                                     *)
LEMMA CheckGood ==
  ASSUME NEW o, NEW r, NEW F, NEW h, NEW rd, NEW S, NEW X,
         Placed(o, r, F, h, S, X), NEW i \in DOMAIN F,
         NEW G, DOMAIN G = DOMAIN F, G[i].status = "waiting",
         \A k \in DOMAIN F \ {i} : G[k] = F[k]
  PROVE LET g == h \cup {"requeued"}
        IN  /\ Placed(o, r, G, g, S, X)
            /\ Alone(o, r, F, h, rd, S, X) => Alone(o, r, G, g, rd, S, X)
<1> PICK g : g = h \cup {"requeued"}
  OBVIOUS
<1>1. h \subseteq g /\ "requeued" \in g
      /\ g \cap {"no template", "reblocked"} = h \cap {"no template", "reblocked"}
  OBVIOUS
<1>2. Placed(o, r, G, g, S, X)
  BY <1>1, Remember, Zenon DEF Placed
<1>3. ASSUME DoneGood(r, F, rd, S, X) PROVE DoneGood(r, G, rd, S, X)
  <2>1. \A k \in DOMAIN G : G[k].status = "finished" => G[k] = F[k]
    OBVIOUS
  <2> QED BY <1>3, <2>1 DEF DoneGood
<1>4. g \cap {"reblocked", "requeued"} # {}
  BY <1>1
<1>5. ASSUME Alone(o, r, F, h, rd, S, X) PROVE Alone(o, r, G, g, rd, S, X)
  BY <1>1, <1>3, <1>4, <1>5, Zenon DEF Alone
<1> QED BY <1>2, <1>5

(* A job is registered, of which nothing has been rendered.                *)
LEMMA RegisterGood ==
  ASSUME NEW o, NEW h, h \cap {"updated", "reblocked"} = {},
         NEW r, r = Origin(o), Forward(r),
         NEW F, F = [i \in 0 .. job_nframes(r) - 1 |-> NewFrame], NEW X
  PROVE /\ Placed(o, r, F, h, {}, X)
        /\ \A rd : (\A n \in FrameNumbersUsed : rd[n] = 0) => Alone(o, r, F, h, rd, {}, X)
<1>1. Placed(o, r, F, h, {}, X)
  BY DEF Placed, RangeGood, RangesOf
<1>2. \A i \in DOMAIN F : F[i].status = "waiting"
  BY DEF NewFrame
<1>3. ASSUME NEW rd, \A n \in FrameNumbersUsed : rd[n] = 0 PROVE Alone(o, r, F, h, rd, {}, X)
  <2>1. DoneGood(r, F, rd, {}, X)
    BY <1>2 DEF DoneGood
  <2>2. AskedGood(o, r, rd)
    BY <1>3 DEF AskedGood
  <2>3. OnceGood(r, F, rd, {}, X)
    <3>1. \A n \in FrameNumbersUsed : rd[n] <= 1
      BY <1>3
    <3>2. \A i \in DOMAIN F : \A n \in PadFrames(Task(r, i)) : rd[n] = 0
      BY <1>3, PadsOf
    <3> QED BY <3>1, <3>2 DEF OnceGood
  <2> QED BY <2>1, <2>2, <2>3, Zenon DEF Alone
<1> QED BY <1>1, <1>3

(* The range of a job is changed.                                          *)
OldFrame(F, r, q, i) ==
  LET n == job_frame_index_to_number(q, i)
  IN  IF job_frame_number_correct(r, n) THEN F[job_frame_number_to_index(r, n)] ELSE NewFrame
Blocks(q, r) == IF {q.block, r.block} = {1} THEN {"updated"} ELSE {"reblocked"}

Changes(o, r, F, h, q, G, g) ==
  /\ q \in o.changes /\ Forward(q)
  /\ MaxUpdates <= 1 => h \cap {"updated", "reblocked"} = {}
  /\ G = [i \in 0 .. job_nframes(q) - 1 |-> OldFrame(F, r, q, i)]
  /\ g = h \cup Blocks(q, r)
LEMMA RangeChanged ==
  ASSUME NEW o, NEW r, NEW F, NEW h, NEW q, NEW G, NEW g, Changes(o, r, F, h, q, G, g),
         NEW rd \in [FrameNumbersUsed -> 0 .. 2], NEW S, NEW X, Placed(o, r, F, h, S, X)
  PROVE /\ Placed(o, q, G, g, S, X)
        /\ Alone(o, r, F, h, rd, S, X) => Alone(o, q, G, g, rd, S, X)
<1>0. /\ q \in o.changes /\ Forward(q)
      /\ MaxUpdates <= 1 => h \cap {"updated", "reblocked"} = {}
      /\ G = [i \in 0 .. job_nframes(q) - 1 |-> OldFrame(F, r, q, i)]
      /\ g = h \cup Blocks(q, r)
  BY Zenon DEF Changes
<1> USE <1>0
<1>1. RangeGood(o, r, h) /\ DOMAIN F = 0 .. job_nframes(r) - 1 /\ Forward(r)
      /\ \A u \in S : TaskGood(o, r, h, X[u].task)
  BY Zenon DEF Placed, RangeGood
<1>2. h \subseteq g /\ g \cap {"updated", "reblocked"} # {}
  BY DEF Blocks
<1>3. "reblocked" \notin g => "reblocked" \notin h /\ q.block = 1 /\ r.block = 1
  BY DEF Blocks
<1>4. /\ g \cap {"no template", "reblocked"} = {} =>
           h \cap {"no template", "reblocked"} = {} /\ "reblocked" \notin g
      /\ g \cap {"reblocked", "requeued"} = {} =>
           h \cap {"reblocked", "requeued"} = {} /\ "reblocked" \notin g
  BY <1>2
<1>5. DOMAIN G = 0 .. job_nframes(q) - 1 /\ \A i \in DOMAIN G : G[i] = OldFrame(F, r, q, i)
  OBVIOUS
<1>6. MaxUpdates <= 1 => r = Origin(o)
  BY <1>1 DEF RangeGood
<1>7. q \in RangesOf(o)
  BY DEF RangesOf
<1> HIDE DEF Blocks
<1>8. RangeGood(o, q, g)
  BY <1>2, <1>3, <1>7, Zenon DEF RangeGood
<1>9. ASSUME NEW t, TaskGood(o, r, h, t) PROVE TaskGood(o, q, g, t)
  <2>1. PICK p, i : TaskOf(p, i, o, r, h, t)
    BY <1>9, Zenon DEF TaskGood
  <2>2. /\ Forward(p) /\ i \in 0 .. job_nframes(p) - 1 /\ t = Task(p, i) /\ p \in RangesOf(o)
        /\ MaxUpdates <= 1 => p = Origin(o) \/ p = r
        /\ "reblocked" \notin h => p = r \/ (p.block = 1 /\ r.block = 1)
    BY <2>1, Zenon DEF TaskOf
  <2>3. MaxUpdates <= 1 => p = Origin(o) \/ p = q
    BY <2>2, <1>6
  <2>4. "reblocked" \notin g => p = q \/ (p.block = 1 /\ q.block = 1)
    BY <2>2, <1>3
  <2>5. TaskOf(p, i, o, q, g, t)
    BY <2>2, <2>3, <2>4, <1>2, Zenon DEF TaskOf
  <2> QED BY <2>2, <2>5, Zenon DEF TaskGood
<1>10. Placed(o, q, G, g, S, X)
  BY <1>1, <1>5, <1>8, <1>9, Zenon DEF Placed
(* The new record of a frame is the one the number had.                    *)
<1>11. ASSUME NEW i \in DOMAIN G, "reblocked" \notin g, NEW m, m = Task(q, i).frame
       PROVE /\ m \in FrameNumbersUsed /\ FramesOfIndex(q, i) = {m} /\ PadFrames(Task(q, i)) = {m}
             /\ IF job_frame_number_correct(r, m)
                THEN \E k \in DOMAIN F : /\ G[i] = F[k] /\ FramesOfIndex(r, k) = {m}
                                         /\ PadFrames(Task(r, k)) = {m}
                                         /\ k = job_frame_number_to_index(r, m)
                ELSE G[i] = NewFrame
  <2>1. i \in 0 .. job_nframes(q) - 1
    BY <1>5
  <2>2. /\ m = job_frame_index_to_number(q, i) /\ m \in Nat /\ PadFrames(Task(q, i)) = {m}
        /\ m \in FrameNumbersUsed
    BY <1>3, <1>11, <2>1, TaskFields, PadsOf
  <2>3. FramesOfIndex(q, i) = {m}
    <3>1. InNumbers(q) /\ q.start <= q.end /\ job_nframes(q) # 0
      BY DEF Forward
    <3> QED BY <1>3, <1>11, <2>1, <2>2, <3>1, SingleFrames
  <2>4. ASSUME job_frame_number_correct(r, m)
        PROVE \E k \in DOMAIN F : /\ G[i] = F[k] /\ FramesOfIndex(r, k) = {m}
                                  /\ PadFrames(Task(r, k)) = {m}
                                  /\ k = job_frame_number_to_index(r, m)
    <3> PICK k : k = job_frame_number_to_index(r, m)
      OBVIOUS
    <3>1. /\ k \in 0 .. job_nframes(r) - 1
          /\ FramesOfIndex(r, k) = {m} /\ PadFrames(Task(r, k)) = {m}
      BY <1>1, <1>3, <1>11, <2>2, <2>4, NumberBack
    <3>2. G[i] = F[k]
      BY <1>5, <2>2, <2>4, Zenon DEF OldFrame
    <3> QED BY <3>1, <3>2, <1>1
  <2>5. ~ job_frame_number_correct(r, m) => G[i] = NewFrame
    BY <1>5, <2>2, Zenon DEF OldFrame
  <2> QED BY <2>2, <2>3, <2>4, <2>5
<1>12. NewFrame.status = "waiting"
  BY DEF NewFrame
<1>13. ASSUME DoneGood(r, F, rd, S, X), "reblocked" \notin g PROVE DoneGood(q, G, rd, S, X)
  <2>1. ASSUME NEW i \in DOMAIN G, G[i].status = "finished", G[i].exit = "zero",
               NEW n \in FramesOfIndex(q, i)
        PROVE rd[n] > 0
    <3> PICK m : m = Task(q, i).frame
      OBVIOUS
    <3>1. job_frame_number_correct(r, m)
      BY <1>11, <1>12, <1>13, <2>1
    <3>2. PICK k \in DOMAIN F : G[i] = F[k] /\ FramesOfIndex(r, k) = {m}
      BY <1>11, <1>13, <3>1
    <3>3. n = m
      BY <1>11, <1>13
    <3> QED BY <1>13, <2>1, <3>2, <3>3 DEF DoneGood
  <2>2. \A s \in S : X[s].exit = "zero" => \A n \in PadFrames(X[s].task) : rd[n] > 0
    BY <1>13, Zenon DEF DoneGood
  <2> QED BY <2>1, <2>2, Zenon DEF DoneGood
<1>14. ASSUME MaxUpdates <= 1, AskedGood(o, r, rd) PROVE AskedGood(o, q, rd)
  BY <1>6, <1>14 DEF AskedGood
<1>15. ASSUME OnceGood(r, F, rd, S, X), AskedGood(o, r, rd), MaxUpdates <= 1, "reblocked" \notin g
       PROVE OnceGood(q, G, rd, S, X)
  <2>1. /\ \A m \in FrameNumbersUsed : rd[m] <= 1
        /\ \A u \in S : job_frame_number_correct(r, X[u].task.frame) =>
             F[job_frame_number_to_index(r, X[u].task.frame)].status = "assigned"
        /\ \A u, v \in S : u # v => X[u].task.frame # X[v].task.frame
        /\ \A k \in DOMAIN F : F[k].status = "waiting" =>
             \A m \in PadFrames(Task(r, k)) : rd[m] = 0
        /\ \A u \in S : X[u].exit \in {"none", "signal"} =>
             \A m \in PadFrames(X[u].task) : rd[m] = 0
    BY <1>15, Zenon DEF OnceGood
  <2>2. ASSUME NEW u \in S, job_frame_number_correct(q, X[u].task.frame)
        PROVE G[job_frame_number_to_index(q, X[u].task.frame)].status = "assigned"
    <3> PICK n, t : t = X[u].task /\ n = t.frame
      OBVIOUS
    <3>1. job_frame_number_correct(r, n)
      <4>1. PICK p, i : TaskOf(p, i, o, r, h, t)
        BY <1>1, Zenon DEF TaskGood
      <4>2. h \cap {"updated", "reblocked"} = {}
        BY <1>15
      <4>3. p = r /\ t = Task(p, i) /\ i \in 0 .. job_nframes(p) - 1
        BY <4>1, <4>2, Zenon DEF TaskOf
      <4> QED BY <1>1, <4>3, IndexBack
    <3>2. F[job_frame_number_to_index(r, n)].status = "assigned"
      BY <2>1, <3>1
    <3>3. n \in Nat
      BY <1>1, TaskPads
    <3> PICK k : k = job_frame_number_to_index(q, n)
      OBVIOUS
    <3>4. k \in DOMAIN G /\ Task(q, k).frame = n
      BY <1>3, <1>5, <1>15, <2>2, <3>3, NumberBack
    <3>5. G[k] = F[job_frame_number_to_index(r, n)]
      BY <1>11, <1>15, <3>1, <3>4
    <3> QED BY <3>2, <3>5
  <2>3. ASSUME NEW i \in DOMAIN G, G[i].status = "waiting", NEW n \in PadFrames(Task(q, i))
        PROVE rd[n] = 0
    <3> PICK m : m = Task(q, i).frame
      OBVIOUS
    <3>1. n = m /\ m \in FrameNumbersUsed
      BY <1>11, <1>15
    <3>2. CASE job_frame_number_correct(r, m)
      <4>1. PICK k \in DOMAIN F : G[i] = F[k] /\ PadFrames(Task(r, k)) = {m}
        BY <1>11, <1>15, <3>2
      <4> QED BY <2>1, <2>3, <3>1, <4>1
    <3>3. CASE ~ job_frame_number_correct(r, m)
      <4>1. m \notin FramesAsked(r) /\ r = Origin(o)
        BY <3>3, <1>6, <1>15 DEF FramesAsked
      <4>2. ~ (rd[m] > 0)
        BY <1>15, <3>1, <4>1 DEF AskedGood
      <4>3. rd[m] \in 0 .. 2
        BY <3>1
      <4> QED BY <3>1, <4>2, <4>3
    <3> QED BY <3>2, <3>3
  <2> QED BY <2>1, <2>2, <2>3, Zenon DEF OnceGood
<1>16. ASSUME Alone(o, r, F, h, rd, S, X) PROVE Alone(o, q, G, g, rd, S, X)
  <2>1. g \cap {"no template", "reblocked"} = {} /\ o.engine # "luxrender" /\ ~ Strides(Origin(o)) =>
          DoneGood(q, G, rd, S, X)
    BY <1>4, <1>13, <1>16, Zenon DEF Alone
  <2>2. MaxUpdates <= 1 /\ ~ Strides(Origin(o)) /\ ~ Strides(q) => AskedGood(o, q, rd)
    BY <1>6, <1>14, <1>16, Zenon DEF Alone
  <2>3. ASSUME MaxUpdates <= 1, g \cap {"reblocked", "requeued"} = {}
        PROVE OnceGood(q, G, rd, S, X)
    <3>1. ~ Strides(r)
      <4>1. r.block = 1
        BY <1>3, <1>4, <2>3
      <4>2. ~ (r.block > 1)
        BY <4>1
      <4> QED BY <4>2, Zenon DEF Strides
    <3>2. AskedGood(o, r, rd)
      BY <1>6, <1>16, <2>3, <3>1, Zenon DEF Alone
    <3>3. OnceGood(r, F, rd, S, X)
      BY <1>4, <1>16, <2>3, Zenon DEF Alone
    <3> QED BY <1>4, <1>15, <2>3, <3>2, <3>3
  <2> QED BY <2>1, <2>2, <2>3, Zenon DEF Alone
<1> QED BY <1>10, <1>16

----------------------------------------------------------------------------
(* What a script does that one client wrote.                               *)
LEMMA EngineSupplied ==
  ASSUME NEW order, Known(order), order.engine # "own"
  PROVE /\ order.engine \in DOMAIN TemplateOf
        /\ Supplied(order.engine, TemplateOf[order.engine], GeneratorFor(order))
<1> PICK e : e = order.engine
  OBVIOUS
<1>1. e \in IF order.tool = "sendjob" THEN DOMAIN str2toj ELSE DOMAIN Drqman
  BY OrdersAssumption DEF Known
<1>2. GeneratorFor(order) = GeneratorOf[e] /\ e \in DOMAIN TemplateOf
  <2>1. GeneratorFor(order) = (IF order.tool = "sendjob" THEN str2toj[e] ELSE Drqman[e]).generator
    BY Zenon DEF GeneratorFor, FrontEndFor, FrontEndOf
  <2> QED BY <2>1, <1>1, SendjobGenerators, DrqmanGenerators
<1>3. Supplied(e, TemplateOf[e], GeneratorOf[e])
  <2>1. e \in {"threedelight", "threedsmax", "aftereffects", "aqsis", "blender",
        "cinema4d", "general", "lightwave", "luxrender", "mantra", "maya",
        "mentalray", "nuke", "pixie", "shake", "terragen", "turtle", "vray", "xsi"}
    BY <1>2, TemplateIs
  <2> QED BY <2>1, Zenon, TemplateIs, GeneratorIs, Supplied_threedelight, Supplied_threedsmax,
        Supplied_aftereffects, Supplied_aqsis, Supplied_blender, Supplied_cinema4d,
        Supplied_general, Supplied_lightwave, Supplied_luxrender, Supplied_mantra, Supplied_maya,
        Supplied_mentalray, Supplied_nuke, Supplied_pixie, Supplied_shake, Supplied_terragen,
        Supplied_turtle, Supplied_vray, Supplied_xsi
<1> QED BY <1>2, <1>3

LEMMA MissingExcused ==
  ASSUME NEW order, NEW T, NEW G, Supplied(order.engine, T, G), Accepts(G, order.kind),
         NEW env, DOMAIN env = Written(G, order.given, order.kind),
         \A n \in DOMAIN env : env[n].kind = order.kind,
         NEW system, NamesMissing(T, env, system)
  PROVE Excused(order, system)
<1> PICK W : W = DOMAIN env
  OBVIOUS
<1>1. Sets(G) \subseteq W
  BY DEF Sets, Written, Accepts
<1>2. order.given \cap G.optional \subseteq W
  BY DEF Written
<1>3. ASSUME ~ ({T.scene} \cup T.others) \subseteq W PROVE Excused(order, system)
  <2>1. PICK n \in {T.scene} \cup T.others : n \notin W
    BY <1>3
  <2>2. order.engine = "maya" /\ n = "RENDERER" /\ "RENDERER" \in G.optional
    BY <2>1, <1>1 DEF Supplied
  <2> QED BY <2>1, <2>2, <1>2 DEF Excused
<1>4. ASSUME system = Windows, ~ T.windows \subseteq W PROVE Excused(order, system)
  <2>1. order.engine \in LacksOnWindows
    BY <1>1, <1>4 DEF Supplied
  <2> QED BY <2>1, <1>4 DEF Excused
<1>5. ASSUME T.resized, "RESX" \in W, "RESY" \notin W PROVE Excused(order, system)
  <2>1. "RESX" \notin Sets(G) /\ "RESY" \in G.optional
    BY <1>5 DEF Supplied
  <2>2. "RESX" \in order.given
    BY <1>5, <2>1 DEF Written, Sets
  <2>3. "RESY" \notin order.given
    BY <1>2, <1>5, <2>1
  <2> QED BY <2>2, <2>3 DEF Excused, HalfSize
<1>6. ASSUME "RENDER_TYPE" \in T.others, "RENDER_TYPE" \in W, env["RENDER_TYPE"].kind \notin T.kinds
      PROVE Excused(order, system)
  <2>1. env["RENDER_TYPE"].kind = order.kind
    BY <1>6
  <2>2. /\ G.kinds = {"animation", "single image"} /\ "animation" \in T.kinds
        /\ "single image" \in T.kinds \/ order.engine = "mentalray"
    BY <1>6 DEF Supplied
  <2>3. order.kind \in {"animation", "single image"}
    BY <2>2 DEF Accepts
  <2> QED BY <2>1, <2>2, <2>3, <1>6 DEF Excused
<1> QED BY <1>3, <1>4, <1>5, <1>6, Zenon DEF NamesMissing

(* The variables of a generator and its template.                          *)
Rendered(run, c, P) == run.rendered = <<[of |-> c, frames |-> P]>>
LEMMA GeneratedRun ==
  ASSUME NEW c, Known(client[c].order), ~ Own(c),
         Accepts(GeneratorFor(client[c].order), client[c].order.kind),
         NEW t, NEW system, NEW bad, NEW script,
         script = <<VarsOf(c)>> \/ script = <<VarsOf(c), BodyOf(c)>>
  PROVE LET run == RunScript(script, t, system, bad)
        IN  /\ run.system = system
            /\ \/ run.rendered = <<>> /\ run.exit = "zero" /\ script = <<VarsOf(c)>>
               \/ run.rendered = <<>> /\ run.exit \in {"error", "failed"}
               \/ /\ run.rendered = <<>> /\ run.exit = "undefined"
                  /\ Excused(client[c].order, system)
               \/ /\ run.exit = "zero" /\ ListIsNumber(t)
                  /\ Rendered(run, c, Frames(TemplateOf[client[c].order.engine], t))
<1> PICK order : order = client[c].order
  OBVIOUS
<1> PICK e, T, G : e = order.engine /\ T = TemplateOf[e] /\ G = GeneratorFor(order)
  OBVIOUS
<1> PICK W : W = Written(G, order.given, order.kind)
  OBVIOUS
<1> PICK v : v = VarsOf(c)
  OBVIOUS
<1> PICK b : b = BodyOf(c)
  OBVIOUS
<1>1. v = [by |-> c, template |-> "none", names |-> W, kind |-> order.kind]
  BY Zenon DEF VarsOf, Names
<1>2. v.by = c /\ v.template = "none" /\ v.names = W /\ v.kind = order.kind
  BY <1>1
<1>3. b.by = c /\ b.template = e
  BY DEF BodyOf, Body
<1>4. e \in DOMAIN TemplateOf /\ Supplied(e, T, G) /\ e # "none"
  <2>1. e \in DOMAIN TemplateOf /\ Supplied(e, T, G)
    BY EngineSupplied DEF Own
  <2> QED BY <2>1, TemplateIs
<1>5. PICK env : env = [n \in W |-> v]
  OBVIOUS
<1> PICK start : start = Starts(system)
  OBVIOUS
<1>6. start = [system |-> system, env |-> <<>>, rendered |-> <<>>, exit |-> "zero"]
  BY Zenon DEF Starts
<1>7. start.system = system /\ start.env = <<>> /\ start.rendered = <<>> /\ start.exit = "zero"
  BY <1>6, RunFields
<1> PICK one : one = [system |-> system, env |-> env, rendered |-> <<>>, exit |-> "zero"]
  OBVIOUS
<1>8. one.system = system /\ one.env = env /\ one.rendered = <<>> /\ one.exit = "zero"
  BY RunFields
<1>9. RunPart(start, v, t, bad) = one
  <2>1. Goes(start)
    BY <1>7 DEF Goes
  <2>2. [n \in v.names \cup DOMAIN start.env |-> IF n \in v.names THEN v ELSE start.env[n]] = env
    <3>1. DOMAIN start.env = {}
      BY <1>7
    <3>2. v.names \cup DOMAIN start.env = W
      BY <1>2, <3>1
    <3>3. [n \in W |-> IF n \in v.names THEN v ELSE start.env[n]] = [n \in W |-> v]
      BY <1>2
    <3> QED BY <3>2, <3>3, <1>5, Zenon
  <2>3. RunPart(start, v, t, bad) = [start EXCEPT !.env = env]
    BY <1>2, <2>1, <2>2, Zenon DEF RunPart
  <2>4. [start EXCEPT !.env = env]
        = [system |-> start.system, env |-> env, rendered |-> start.rendered, exit |-> start.exit]
    BY <1>6, <1>7, RunWith, Zenon
  <2> QED BY <1>7, <2>3, <2>4, Zenon
<1>10. CASE script = <<v>>
  <2>1. RunScript(<<v>>, t, system, bad) = one
    BY <1>9, RunOfOne, Zenon
  <2> QED BY <1>8, <1>10, <2>1, Zenon
<1>11. CASE script = <<v, b>>
  <2> PICK run : run = RunScript(<<v, b>>, t, system, bad)
    OBVIOUS
  <2>1. run = RunTemplate(one, T, t, bad)
    <3>1. run = RunPart(one, b, t, bad)
      <4>1. run = RunPart(RunPart(start, v, t, bad), b, t, bad)
        BY RunOfTwo
      <4> QED BY <1>9, <4>1, Zenon
    <3>2. Goes(one)
      BY <1>8 DEF Goes
    <3> QED BY <3>1, <3>2, <1>3, <1>4, Zenon DEF RunPart
  <2>2. ASSUME NEW x
        PROVE Stops(one, x).system = system /\ Stops(one, x).rendered = <<>> /\ Stops(one, x).exit = x
    <3>1. Stops(one, x) = [system |-> system, env |-> env, rendered |-> <<>>, exit |-> x]
      BY <1>8, RunWith, Zenon DEF Stops
    <3> QED BY <3>1, RunFields
  <2>3. one.env = env /\ DOMAIN env = W /\ \A n \in DOMAIN env : env[n].kind = order.kind /\ env[n].by = c
    BY <1>2, <1>5, <1>8
  <2>4. CASE ~ ListIsNumber(t) \/ one.system \in T.fails
    <3>1. run = Stops(one, "error")
      BY <2>1, <2>4, Zenon DEF RunTemplate
    <3> QED BY <3>1, <2>2, <1>11
  <2>5. CASE ~ (~ ListIsNumber(t) \/ one.system \in T.fails) /\ NamesMissing(T, env, system)
    <3>1. run = Stops(one, "undefined")
      BY <2>1, <2>3, <2>5, <1>8, Zenon DEF RunTemplate
    <3>2. Excused(order, system)
      BY <1>4, <2>3, <2>5, MissingExcused
    <3> QED BY <3>1, <3>2, <2>2, <1>11
  <2>6. CASE /\ ~ (~ ListIsNumber(t) \/ one.system \in T.fails)
             /\ ~ NamesMissing(T, env, system) /\ bad
    <3>1. run = Stops(one, "failed")
      BY <2>1, <2>3, <2>6, <1>8, Zenon DEF RunTemplate
    <3> QED BY <3>1, <2>2, <1>11
  <2>7. CASE /\ ~ (~ ListIsNumber(t) \/ one.system \in T.fails)
             /\ ~ NamesMissing(T, env, system) /\ ~ bad
    <3> PICK P : P = Frames(T, t)
      OBVIOUS
    <3>1. env[T.scene].by = c
      <4>1. T.scene \in DOMAIN env
        BY <2>7 DEF NamesMissing
      <4> QED BY <4>1, <2>3
    <3> PICK h : h = Append(one.rendered, [of |-> c, frames |-> P])
      OBVIOUS
    <3>2. h = <<[of |-> c, frames |-> P]>>
      BY <1>8
    <3>3. run = [one EXCEPT !.rendered = h]
      BY <2>1, <2>3, <2>7, <3>1, <1>8, Zenon DEF RunTemplate
    <3>4. run = [system |-> system, env |-> env, rendered |-> h, exit |-> "zero"]
      BY <3>3, <1>8, RunWith, Zenon
    <3>5. run.system = system /\ run.rendered = h /\ run.exit = "zero"
      BY <3>4, RunFields
    <3> QED BY <3>2, <3>5, <2>7, <1>11, Zenon DEF Rendered
  <2> QED BY <2>4, <2>5, <2>6, <2>7
<1> QED BY <1>10, <1>11

----------------------------------------------------------------------------
(* What the steps of a client change.                                      *)
MovesTo(c, a, f) ==
  /\ client'[c].at = a /\ client'[c].order = client[c].order /\ client'[c].script = f
  /\ \A d \in Clients \ {c} : client'[d] = client[d]

LEMMA ClientMoves ==
  ASSUME IInv, NEW c \in Clients
  PROVE /\ \A a : Moved(c, a) => MovesTo(c, a, client[c].script)
        /\ \A a : Writes(c, a) => MovesTo(c, a, ScriptName(c, client[c].order))
        /\ Refused(c) => MovesTo(c, "done", client[c].script)
        /\ \A t : client' = [client EXCEPT ![c].at = "done", ![c].told = t]
                    => MovesTo(c, "done", client[c].script)
<1> DEFINE x == client[c]
<1>1. client = [d \in Clients |-> client[d]] /\ ClientOK(c)
  BY DEF IInv, ClientsOK
<1>2. x = [at |-> x.at, order |-> x.order, script |-> x.script, told |-> x.told]
  BY <1>1, Zenon DEF ClientOK
<1>3. \A a, f, t :
        /\ [x EXCEPT !.at = a]
           = [at |-> a, order |-> x.order, script |-> x.script, told |-> x.told]
        /\ [[x EXCEPT !.at = a] EXCEPT !.script = f]
           = [at |-> a, order |-> x.order, script |-> f, told |-> x.told]
        /\ [[x EXCEPT !.at = a] EXCEPT !.told = t]
           = [at |-> a, order |-> x.order, script |-> x.script, told |-> t]
  BY <1>2, ClientWith
<1>4. ASSUME NEW y, NEW a, NEW f, NEW t, client' = [client EXCEPT ![c] = y],
             y = [at |-> a, order |-> x.order, script |-> f, told |-> t]
      PROVE MovesTo(c, a, f)
  <2>1. client'[c] = y /\ \A d \in Clients \ {c} : client'[d] = client[d]
    BY <1>1, <1>4, Zenon
  <2>2. y.at = a /\ y.order = x.order /\ y.script = f
    BY <1>4
  <2> QED BY <2>1, <2>2, Zenon DEF MovesTo
<1>5. ASSUME NEW a, Moved(c, a) PROVE MovesTo(c, a, x.script)
  <2>1. client' = [client EXCEPT ![c] = [x EXCEPT !.at = a]]
    BY <1>5, <1>1, Zenon DEF Moved
  <2> PICK y : y = [x EXCEPT !.at = a]
    OBVIOUS
  <2>2. client' = [client EXCEPT ![c] = y]
    BY <2>1
  <2>3. y = [at |-> a, order |-> x.order, script |-> x.script, told |-> x.told]
    BY <1>3, Zenon
  <2> QED BY <2>2, <2>3, <1>4
<1>6. ASSUME NEW a, Writes(c, a) PROVE MovesTo(c, a, ScriptName(c, x.order))
  <2> PICK f : f = ScriptName(c, x.order)
    OBVIOUS
  <2>1. client' = [client EXCEPT ![c] = [[x EXCEPT !.at = a] EXCEPT !.script = f]]
    BY <1>6, <1>1, Zenon DEF Writes
  <2> PICK y : y = [[x EXCEPT !.at = a] EXCEPT !.script = f]
    OBVIOUS
  <2>3. client' = [client EXCEPT ![c] = y]
    BY <2>1
  <2>4. y = [at |-> a, order |-> x.order, script |-> f, told |-> x.told]
    BY <1>3, Zenon
  <2>2. MovesTo(c, a, f)
    BY <2>3, <2>4, <1>4
  <2> QED BY <2>2
<1>7. ASSUME NEW t, client' = [client EXCEPT ![c].at = "done", ![c].told = t]
      PROVE MovesTo(c, "done", x.script)
  <2>1. client' = [client EXCEPT ![c] = [[x EXCEPT !.at = "done"] EXCEPT !.told = t]]
    BY <1>7, <1>1, Zenon
  <2>2. [[x EXCEPT !.at = "done"] EXCEPT !.told = t]
        = [at |-> "done", order |-> x.order, script |-> x.script, told |-> t]
    BY <1>3, Zenon
  <2> QED BY <2>1, <2>2, <1>4
<1>8. Refused(c) => MovesTo(c, "done", x.script)
  BY <1>7, Zenon DEF Refused
<1> QED BY <1>5, <1>6, <1>7, <1>8, Zenon

LEMMA AtWork ==
  ASSUME IInv, NEW c \in Clients, client[c].at # "done"
  PROVE ~ job[c].queued
  BY Zenon DEF IInv, ClientsOK, ClientOK

LEMMA NoSystems ==
  /\ Linux # "no template" /\ Windows # "no template"
  /\ \A n \in {"updated", "reblocked", "requeued"} : n # "no template" /\ n # Linux /\ n # Windows
  BY DEF Linux, Windows

(* Sequences.                                                              *)
LEMMA SeqOver ==
  ASSUME NEW A, NEW s \in Seq(A), NEW B, \A k \in DOMAIN s : s[k] \in B
  PROVE s \in Seq(B)
<1>1. Len(s) \in Nat /\ DOMAIN s = 1 .. Len(s) /\ s = [k \in 1 .. Len(s) |-> s[k]]
  BY LenProperties
<1>2. s \in [1 .. Len(s) -> B]
  BY <1>1
<1> QED BY <1>1, <1>2

LEMMA AppendedParts ==
  ASSUME NEW A, NEW s \in Seq(A), NEW p, NEW s2, s2 = Append(s, p)
  PROVE LET B == {s[k] : k \in DOMAIN s}
            C == {s2[k] : k \in DOMAIN s2}
        IN  C = B \cup {p} /\ s2 \in Seq(C)
<1> PICK B : B = {s[k] : k \in DOMAIN s}
  OBVIOUS
<1> PICK C : C = {s2[k] : k \in DOMAIN s2}
  OBVIOUS
<1>1. Len(s) \in Nat /\ DOMAIN s = 1 .. Len(s)
  BY LenProperties
<1>2. s \in Seq(B)
  BY SeqOver
<1>3. s \in Seq(B \cup {p})
  BY <1>2, SeqOver
<1>4. /\ s2 \in Seq(B \cup {p}) /\ Len(s2) = Len(s) + 1
      /\ \A k \in 1 .. Len(s) : s2[k] = s[k]
      /\ s2[Len(s) + 1] = p
  BY <1>3, AppendProperties
<1>5. DOMAIN s2 = 1 .. Len(s) + 1
  BY <1>4, LenProperties
<1>6. C = B \cup {p}
  BY <1>1, <1>4, <1>5
<1> QED BY <1>4, <1>6

(* Where the properties look.                                              *)
LEMMA SharedParts ==
  \A c : Shared(c) <=> \E p \in PartsOf(client[c].script) : p.by # c
  BY DEF Shared, PartsOf

(* The files stay as they are, and those who wrote to them stay by.        *)
LEMMA FilesKept ==
  ASSUME FilesOK, scripts' = scripts,
         \A d \in Clients : \/ client[d].at \in {"starts", "open"}
                            \/ /\ client'[d].script = client[d].script
                               /\ client'[d].at \notin {"starts", "open"}
  PROVE FilesOK'
<1>1. \A f : PartsOf(f)' = PartsOf(f)
  BY DEF PartsOf
<1>2. Files' = Files
  BY DEF Files, Seconds
<1>3. scripts' = [f \in Files |-> scripts'[f]]
  BY Zenon DEF FilesOK
<1>4. ASSUME NEW f \in Files
      PROVE /\ scripts'[f] \in Seq(PartsOf(f))
            /\ \A p \in PartsOf(f) : /\ p.by \in Clients /\ client'[p.by].script = f
                                     /\ client'[p.by].at \notin {"starts", "open"}
  <2>1. /\ scripts[f] \in Seq(PartsOf(f))
        /\ \A p \in PartsOf(f) : /\ p.by \in Clients /\ client[p.by].script = f
                                 /\ client[p.by].at \notin {"starts", "open"}
    BY Zenon DEF FilesOK
  <2>2. scripts'[f] \in Seq(PartsOf(f))
    BY <2>1
  <2>3. ASSUME NEW p \in PartsOf(f)
        PROVE /\ p.by \in Clients /\ client'[p.by].script = f
              /\ client'[p.by].at \notin {"starts", "open"}
    BY <2>1
  <2> QED BY <2>2, <2>3
<1> QED BY <1>1, <1>2, <1>3, <1>4, Zenon DEF FilesOK

(* A part is appended to the file of a client that is at work on it.       *)
LEMMA FileAppended ==
  ASSUME FilesOK, NEW c \in Clients, NEW f \in Files, client[c].script = f,
         NEW p, p.by = c, scripts' = [scripts EXCEPT ![f] = Append(@, p)],
         client'[c].script = f, client'[c].at \notin {"starts", "open"},
         \A d \in Clients \ {c} : client'[d] = client[d]
  PROVE /\ FilesOK'
        /\ PartsOf(f)' = PartsOf(f) \cup {p} /\ scripts'[f] = Append(scripts[f], p)
        /\ \A g \in Files \ {f} : scripts'[g] = scripts[g] /\ PartsOf(g)' = PartsOf(g)
<1>1. scripts = [g \in Files |-> scripts[g]]
  BY Zenon DEF FilesOK
<1>2. /\ scripts' = [g \in Files |-> scripts'[g]] /\ scripts'[f] = Append(scripts[f], p)
      /\ \A g \in Files \ {f} : scripts'[g] = scripts[g]
  BY <1>1, Zenon
<1>3. \A g \in Files \ {f} : PartsOf(g)' = PartsOf(g)
  BY <1>2 DEF PartsOf
<1>4. PartsOf(f)' = PartsOf(f) \cup {p} /\ scripts'[f] \in Seq(PartsOf(f)')
  <2> PICK s : s = scripts[f]
    OBVIOUS
  <2> PICK s2 : s2 = scripts'[f]
    OBVIOUS
  <2>1. s \in Seq(PartsOf(f))
    BY Zenon DEF FilesOK
  <2>2. LET B == {s[k] : k \in DOMAIN s}
            C == {s2[k] : k \in DOMAIN s2}
        IN  C = B \cup {p} /\ s2 \in Seq(C)
    <3>1. s2 = Append(s, p)
      BY <1>2
    <3> QED BY <2>1, <3>1, AppendedParts
  <2>3. PartsOf(f)' = {s2[k] : k \in DOMAIN s2} /\ PartsOf(f) = {s[k] : k \in DOMAIN s}
    BY Zenon DEF PartsOf
  <2> QED BY <2>2, <2>3
<1>5. Files' = Files
  BY DEF Files, Seconds
<1>6. ASSUME NEW g \in Files
      PROVE /\ scripts'[g] \in Seq(PartsOf(g)')
            /\ \A q \in PartsOf(g)' : /\ q.by \in Clients /\ client'[q.by].script = g
                                      /\ client'[q.by].at \notin {"starts", "open"}
  <2>1. /\ scripts[g] \in Seq(PartsOf(g))
        /\ \A q \in PartsOf(g) : /\ q.by \in Clients /\ client[q.by].script = g
                                 /\ client[q.by].at \notin {"starts", "open"}
    BY Zenon DEF FilesOK
  <2>2. ASSUME NEW q \in PartsOf(g)
        PROVE /\ q.by \in Clients /\ client'[q.by].script = g
              /\ client'[q.by].at \notin {"starts", "open"}
    <3>1. CASE q.by = c
      BY <2>1, <3>1
    <3>2. CASE q.by # c
      BY <2>1, <3>2
    <3> QED BY <3>1, <3>2
  <2>3. CASE g = f
    <3>1. ASSUME NEW q \in PartsOf(f)'
          PROVE /\ q.by \in Clients /\ client'[q.by].script = g
                /\ client'[q.by].at \notin {"starts", "open"}
      BY <1>4, <2>2, <2>3, <3>1
    <3> QED BY <1>4, <2>3, <3>1
  <2>4. CASE g # f
    BY <1>2, <1>3, <2>1, <2>2, <2>4
  <2> QED BY <2>3, <2>4
<1> QED BY <1>2, <1>3, <1>4, <1>5, <1>6, Zenon DEF FilesOK

(* A client is not disturbed by what others do to other files.             *)
LEMMA WriterKept ==
  ASSUME NEW d \in Clients, WriterOK(d), client'[d] = client[d],
         job'[d].queued = job[d].queued,
         "no template" \in history'[d] <=> "no template" \in history[d],
         NEW f, f = client[d].script, scripts'[f] = scripts[f]
  PROVE WriterOK(d)' /\ (Shared(d)' <=> Shared(d))
<1>1. PartsOf(f)' = PartsOf(f)
  BY DEF PartsOf
<1>2. Shared(d)' <=> Shared(d)
  BY DEF Shared
<1>3. Whole(d)' = Whole(d)
  BY DEF Whole, Own, VarsOf, BodyOf
<1>4. Wrote(d)' <=> Wrote(d)
  BY DEF Wrote
<1>5. Own(d)' <=> Own(d)
  BY DEF Own
<1>6. /\ client[d].script \in Seconds \cup {d}
      /\ client[d].at # "done" \/ job[d].queued => Known(client[d].order)
      /\ client[d].at = "open" \/ Wrote(d) =>
           /\ IF Own(d) THEN client[d].script = d /\ client[d].at \in {"closed", "done"}
                        ELSE client[d].script \in Seconds
           /\ ~ Shared(d) => scripts[client[d].script] = Whole(d)
      /\ Wrote(d) =>
           /\ Own(d) \/ Accepts(GeneratorFor(client[d].order), client[d].order.kind)
           /\ \E p \in PartsOf(client[d].script) : p.by = d
  BY Zenon DEF WriterOK
<1>7. Seconds' = Seconds
  BY DEF Seconds
<1>8. /\ client'[d].script \in Seconds \cup {d}
      /\ client'[d].at # "done" \/ job'[d].queued => Known(client'[d].order)
      /\ client'[d].at = "open" \/ Wrote(d)' =>
           /\ IF Own(d)' THEN client'[d].script = d /\ client'[d].at \in {"closed", "done"}
                         ELSE client'[d].script \in Seconds
           /\ ~ Shared(d)' => scripts'[client'[d].script] = Whole(d)'
      /\ Wrote(d)' =>
           /\ Own(d)' \/ Accepts(GeneratorFor(client'[d].order), client'[d].order.kind)
           /\ \E p \in PartsOf(f)' : p.by = d
  BY <1>1, <1>2, <1>3, <1>4, <1>5, <1>6, Zenon
<1>9. PartsOf(f)' = PartsOf(client[d].script)'
  BY DEF PartsOf
<1> QED BY <1>2, <1>7, <1>8, <1>9, Zenon DEF WriterOK

(* Nor by another's part in its own file, which is shared then.            *)
LEMMA WriterShares ==
  ASSUME NEW d \in Clients, WriterOK(d), client'[d] = client[d],
         job'[d].queued = job[d].queued,
         NEW f, f = client[d].script, NEW p, p.by # d, PartsOf(f)' = PartsOf(f) \cup {p}
  PROVE WriterOK(d)' /\ Shared(d)'
<1>2. Shared(d)'
  <2>1. \E q \in PartsOf(f)' : q.by # d
    OBVIOUS
  <2> QED BY <2>1 DEF Shared, PartsOf
<1>4. Wrote(d)' <=> Wrote(d)
  BY DEF Wrote
<1>5. Own(d)' <=> Own(d)
  BY DEF Own
<1>6. /\ client[d].script \in Seconds \cup {d}
      /\ client[d].at # "done" \/ job[d].queued => Known(client[d].order)
      /\ client[d].at = "open" \/ Wrote(d) =>
           IF Own(d) THEN client[d].script = d /\ client[d].at \in {"closed", "done"}
                     ELSE client[d].script \in Seconds
      /\ Wrote(d) =>
           /\ Own(d) \/ Accepts(GeneratorFor(client[d].order), client[d].order.kind)
           /\ \E q \in PartsOf(client[d].script) : q.by = d
  BY Zenon DEF WriterOK
<1>7. Seconds' = Seconds
  BY DEF Seconds
<1>8. Wrote(d)' => \E q \in PartsOf(f)' : q.by = d
  <2> SUFFICES ASSUME Wrote(d)' PROVE \E q \in PartsOf(f)' : q.by = d
    OBVIOUS
  <2>1. PICK q \in PartsOf(f) : q.by = d
    BY <1>4, <1>6, Zenon
  <2> QED BY <2>1
<1>9. PartsOf(f)' = PartsOf(client[d].script)'
  BY DEF PartsOf
<1> QED BY <1>2, <1>4, <1>5, <1>6, <1>7, <1>8, <1>9, Zenon DEF WriterOK

(* Histories stay those of queued jobs.                                    *)
LEMMA NamesKept ==
  ASSUME NamesOK, \A d \in Clients : ~ job[d].queued => history'[d] \subseteq {"no template"},
         \A d \in Clients : job[d].queued =>
           client'[d] = client[d] /\ history'[d] = history[d] /\ (Shared(d) => Shared(d)')
  PROVE NamesOK'
<1>1. ASSUME NEW d \in Clients, ~ Shared(d)', NEW system \in {Linux, Windows}, system \in history'[d]
      PROVE Excused(client'[d].order, system)
  <2>1. job[d].queued
    BY <1>1, NoSystems
  <2>2. ~ Shared(d) /\ client'[d] = client[d] /\ system \in history[d]
    BY <1>1, <2>1
  <2> QED BY <1>1, <2>2, Zenon DEF NamesOK
<1>2. Linux' = Linux /\ Windows' = Windows
  BY DEF Linux, Windows
<1>3. ASSUME NEW d \in Clients, ~ Shared(d)', NEW system \in {Linux, Windows}, system \in history'[d]
      PROVE Excused(client[d].order, system)'
  BY <1>1, <1>3 DEF Excused, HalfSize, LacksOnWindows, Windows
<1> QED BY <1>2, <1>3, Zenon DEF NamesOK

Writers == \A c \in Clients : WriterOK(c)

(* Slots and the master leave the scripts alone.                           *)
LEMMA ScriptsAlone ==
  ASSUME SInv, UNCHANGED <<scripts, client>>,
         \A d \in Clients : job'[d].queued = job[d].queued,
         history' = [d \in Clients |-> history'[d]],
         \A d \in Clients : job[d].queued \/ history'[d] = history[d],
         \A d \in Clients : "no template" \in history'[d] <=> "no template" \in history[d],
         \A d \in Clients : client[d].at \in {"starts", "open", "named"} => history'[d] = history[d],
         \A d \in Clients : ~ Shared(d) =>
           \A system \in {Linux, Windows} :
             system \in history'[d] => system \in history[d] \/ Excused(client[d].order, system)
  PROVE SInv'
<1>1. FilesOK'
  <2>1. FilesOK /\ \A f : PartsOf(f)' = PartsOf(f)
    BY DEF SInv, PartsOf
  <2> QED BY <2>1, Zenon DEF FilesOK, Files, Seconds
<1>2. ASSUME NEW d \in Clients PROVE WriterOK(d)'
  <2>1. PICK f : f = client[d].script
    OBVIOUS
  <2>2. WriterOK(d)
    BY Zenon DEF SInv
  <2>3. client'[d] = client[d] /\ scripts'[f] = scripts[f]
    OBVIOUS
  <2> QED BY <2>1, <2>2, <2>3, WriterKept
<1>3. HistoryOK'
  <2>1. ASSUME NEW d \in Clients
        PROVE /\ client'[d].at \in {"starts", "open", "named"} => history'[d] = {}
              /\ ~ job'[d].queued => history'[d] \subseteq {"no template"}
    <3>1. /\ client[d].at \in {"starts", "open", "named"} => history[d] = {}
          /\ ~ job[d].queued => history[d] \subseteq {"no template"}
      BY Zenon DEF SInv, HistoryOK
    <3> QED BY <3>1
  <2> QED BY <2>1, Zenon DEF HistoryOK
<1>4. NamesOK'
  <2>1. ASSUME NEW d \in Clients, ~ Shared(d)', NEW system \in {Linux, Windows},
               system \in history'[d]
        PROVE Excused(client[d].order, system)
    <3>1. ~ Shared(d)
      BY <2>1 DEF Shared
    <3>2. system \in history[d] => Excused(client[d].order, system)
      BY <3>1, <2>1, Zenon DEF SInv, NamesOK
    <3> QED BY <3>1, <3>2, <2>1
  <2>2. ASSUME NEW d \in Clients, ~ Shared(d)', NEW system \in {Linux, Windows},
               system \in history'[d]
        PROVE Excused(client[d].order, system)'
    BY <2>1, <2>2 DEF Excused, HalfSize, LacksOnWindows, Windows
  <2> QED BY <2>2, Zenon DEF NamesOK, Linux, Windows
<1> QED BY <1>1, <1>2, <1>3, <1>4, Zenon DEF SInv

(* A client moves; its script may change only as WriterOK says.            *)
LEMMA ClientAlone ==
  ASSUME IInv, SInv, NEW c \in Clients, client[c].at # "done",
         FilesOK', WriterOK(c)',
         \A d \in Clients \ {c} : WriterOK(d)' /\ (Shared(d) => Shared(d)'),
         \A d \in Clients \ {c} : /\ client'[d] = client[d] /\ job'[d].queued = job[d].queued
                                  /\ history'[d] = history[d],
         history' = [d \in Clients |-> history'[d]],
         client'[c].at \in {"starts", "open", "named"} => history'[c] = {},
         history'[c] \subseteq {"no template"}
  PROVE SInv'
<1>1. ~ job[c].queued
  BY AtWork
<1>2. HistoryOK /\ NamesOK
  BY DEF SInv
<1>3. HistoryOK'
  <2>1. ASSUME NEW d \in Clients
        PROVE /\ client'[d].at \in {"starts", "open", "named"} => history'[d] = {}
              /\ ~ job'[d].queued => history'[d] \subseteq {"no template"}
    <3>1. /\ client[d].at \in {"starts", "open", "named"} => history[d] = {}
          /\ ~ job[d].queued => history[d] \subseteq {"no template"}
      BY <1>2, Zenon DEF HistoryOK
    <3> QED BY <3>1
  <2> QED BY <2>1, Zenon DEF HistoryOK
<1>4. NamesOK'
  <2>1. \A d \in Clients : ~ job[d].queued => history'[d] \subseteq {"no template"}
    <3>1. \A d \in Clients : ~ job[d].queued => history[d] \subseteq {"no template"}
      BY <1>2, Zenon DEF HistoryOK
    <3> QED BY <3>1
  <2>2. \A d \in Clients : job[d].queued =>
          client'[d] = client[d] /\ history'[d] = history[d] /\ (Shared(d) => Shared(d)')
    BY <1>1
  <2> QED BY <1>2, <2>1, <2>2, NamesKept
<1>5. \A d \in Clients : WriterOK(d)'
  OBVIOUS
<1> QED BY <1>3, <1>4, <1>5, Zenon DEF SInv

LEMMA OthersKept ==
  ASSUME IInv, SInv, NEW c \in Clients,
         \A d \in Clients \ {c} : /\ client'[d] = client[d] /\ job'[d].queued = job[d].queued
                                  /\ history'[d] = history[d] /\ scripts'[client[d].script] = scripts[client[d].script]
  PROVE \A d \in Clients \ {c} : WriterOK(d)' /\ (Shared(d)' <=> Shared(d))
<1> SUFFICES ASSUME NEW d \in Clients \ {c} PROVE WriterOK(d)' /\ (Shared(d)' <=> Shared(d))
  OBVIOUS
<1>1. PICK f : f = client[d].script
  OBVIOUS
<1>2. WriterOK(d)
  BY Zenon DEF SInv
<1>3. client'[d] = client[d] /\ job'[d].queued = job[d].queued /\ scripts'[f] = scripts[f]
  BY <1>1
<1>4. "no template" \in history'[d] <=> "no template" \in history[d]
  OBVIOUS
<1> QED BY <1>1, <1>2, <1>3, <1>4, WriterKept

LEMMA HistoryKept ==
  ASSUME SInv, NEW c \in Clients, client[c].at # "done", IInv, history' = history
  PROVE /\ history' = [d \in Clients |-> history'[d]]
        /\ client[c].at \in {"starts", "open", "named"} => history'[c] = {}
        /\ history'[c] \subseteq {"no template"}
<1>1. ~ job[c].queued
  BY AtWork
<1> QED BY <1>1, Zenon DEF SInv, HistoryOK

LEMMA CreateScript ==
  ASSUME IInv, SInv, NEW c \in Clients, xxxsg_create(c)
  PROVE SInv'
<1>1. /\ client[c].at = "starts" /\ ~ Own(c) /\ UNCHANGED <<now, scripts, job, history>>
      /\ Writes(c, "open")
  BY Zenon DEF xxxsg_create, At, Own
<1>2. PICK f : f = ScriptName(c, client[c].order)
  OBVIOUS
<1>3. f \in Seconds /\ f \in Files
  BY <1>1, <1>2 DEF ScriptName, Own, IInv, Files
<1>4. MovesTo(c, "open", f)
  BY <1>1, <1>2, ClientMoves
<1>5. /\ client'[c].at = "open" /\ client'[c].order = client[c].order /\ client'[c].script = f
      /\ \A d \in Clients \ {c} : client'[d] = client[d]
  BY <1>4, Zenon DEF MovesTo
<1>6. FilesOK'
  <2>1. FilesOK /\ scripts' = scripts
    BY <1>1 DEF SInv
  <2>2. ASSUME NEW d \in Clients
        PROVE \/ client[d].at \in {"starts", "open"}
              \/ /\ client'[d].script = client[d].script
                 /\ client'[d].at \notin {"starts", "open"}
    BY <1>1, <1>5
  <2> QED BY <2>1, <2>2, FilesKept
<1>7. WriterOK(c)'
  <2>1. ~ Shared(c)' => scripts'[f] = <<>>
    <3> SUFFICES ASSUME ~ Shared(c)' PROVE scripts[f] = <<>>
      BY <1>1
    <3>1. PartsOf(f) = {} /\ scripts[f] \in Seq(PartsOf(f))
      <4>1. \A p \in PartsOf(f) : p.by = c
        BY <1>1, <1>5 DEF Shared, PartsOf
      <4>2. /\ scripts[f] \in Seq(PartsOf(f))
            /\ \A p \in PartsOf(f) : client[p.by].at \notin {"starts", "open"}
        BY <1>3, Zenon DEF SInv, FilesOK
      <4> QED BY <1>1, <4>1, <4>2
    <3>2. DOMAIN scripts[f] = 1 .. Len(scripts[f]) /\ Len(scripts[f]) \in Nat
      BY <3>1, LenProperties
    <3>3. DOMAIN scripts[f] = {}
      BY <3>1 DEF PartsOf
    <3>4. Len(scripts[f]) = 0
      BY <3>2, <3>3
    <3> QED BY <3>1, <3>4, EmptySeq
  <2>2. Whole(c)' = <<>> /\ ~ Own(c)' /\ ~ Wrote(c)'
    <3>1. ~ job[c].queued
      BY <1>1, AtWork
    <3> QED BY <1>1, <1>5, <3>1 DEF Whole, Own, Wrote
  <2>3. Known(client'[c].order)
    <3>1. WriterOK(c)
      BY Zenon DEF SInv
    <3> QED BY <3>1, <1>1, <1>5 DEF WriterOK
  <2>4. Seconds' = Seconds
    BY DEF Seconds
  <2> QED BY <1>3, <1>5, <2>1, <2>2, <2>3, <2>4 DEF WriterOK
<1>8. \A d \in Clients \ {c} : WriterOK(d)' /\ (Shared(d)' <=> Shared(d))
  <2>1. \A d \in Clients \ {c} : /\ client'[d] = client[d] /\ job'[d].queued = job[d].queued
                                 /\ history'[d] = history[d] /\ scripts'[client[d].script] = scripts[client[d].script]
    BY <1>1, <1>5
  <2> QED BY <2>1, OthersKept
<1>9. history' = [d \in Clients |-> history'[d]] /\ history'[c] = {}
  BY <1>1, HistoryKept
<1>10. \A d \in Clients \ {c} : WriterOK(d)' /\ (Shared(d) => Shared(d)')
  BY <1>8
<1>11. \A d \in Clients \ {c} : /\ client'[d] = client[d] /\ job'[d].queued = job[d].queued
                                /\ history'[d] = history[d]
  BY <1>1, <1>5
<1>12. client[c].at # "done" /\ history'[c] \subseteq {"no template"}
  BY <1>1, <1>9
<1> QED BY <1>6, <1>7, <1>9, <1>10, <1>11, <1>12, ClientAlone

(* A client that gives up leaves its file behind.                          *)
LEMMA GivesUp ==
  ASSUME IInv, SInv, NEW c \in Clients, client[c].at # "done",
         UNCHANGED <<scripts, job, history>>, MovesTo(c, "done", client[c].script)
  PROVE SInv'
<1>1. /\ client'[c].at = "done" /\ client'[c].order = client[c].order
      /\ client'[c].script = client[c].script
      /\ \A d \in Clients \ {c} : client'[d] = client[d]
  BY Zenon DEF MovesTo
<1>2. FilesOK'
  <2>1. FilesOK
    BY DEF SInv
  <2>2. ASSUME NEW d \in Clients
        PROVE \/ client[d].at \in {"starts", "open"}
              \/ /\ client'[d].script = client[d].script
                 /\ client'[d].at \notin {"starts", "open"}
    BY <1>1
  <2> QED BY <2>1, <2>2, FilesKept
<1>3. WriterOK(c)'
  <2>1. ~ job'[c].queued
    BY AtWork
  <2>2. client[c].script \in Seconds \cup {c}
    BY Zenon DEF SInv, WriterOK
  <2>3. Seconds' = Seconds
    BY DEF Seconds
  <2> QED BY <1>1, <2>1, <2>2, <2>3 DEF WriterOK, Wrote
<1>4. \A d \in Clients \ {c} : WriterOK(d)' /\ (Shared(d)' <=> Shared(d))
  <2>1. \A d \in Clients \ {c} : /\ client'[d] = client[d] /\ job'[d].queued = job[d].queued
                                 /\ history'[d] = history[d] /\ scripts'[client[d].script] = scripts[client[d].script]
    BY <1>1
  <2> QED BY <2>1, OthersKept
<1>5. history' = [d \in Clients |-> history'[d]] /\ history'[c] \subseteq {"no template"}
  BY HistoryKept
<1>6. \A d \in Clients \ {c} : WriterOK(d)' /\ (Shared(d) => Shared(d)')
  BY <1>4
<1>7. \A d \in Clients \ {c} : /\ client'[d] = client[d] /\ job'[d].queued = job[d].queued
                               /\ history'[d] = history[d]
  BY <1>1
<1>8. client'[c].at \in {"starts", "open", "named"} => history'[c] = {}
  BY <1>1
<1> QED BY <1>2, <1>3, <1>5, <1>6, <1>7, <1>8, ClientAlone

(* A user's command is a file of its own.                                  *)
LEMMA OwnScript ==
  ASSUME IInv, SInv, NEW c \in Clients, OwnCommand(c)
  PROVE SInv'
<1>1. /\ client[c].at = "starts" /\ Own(c) /\ UNCHANGED <<now, job, history>>
      /\ Writes(c, "closed") /\ scripts' = [scripts EXCEPT ![c] = <<Body(c, "own")>>]
  BY Zenon DEF OwnCommand, At, Own
<1>2. c = ScriptName(c, client[c].order)
  BY <1>1 DEF ScriptName, Own
<1>3. MovesTo(c, "closed", c)
  BY <1>1, <1>2, ClientMoves
<1>4. /\ client'[c].at = "closed" /\ client'[c].order = client[c].order /\ client'[c].script = c
      /\ \A d \in Clients \ {c} : client'[d] = client[d]
  BY <1>3, Zenon DEF MovesTo
<1> PICK b : b = Body(c, "own")
  OBVIOUS
<1>5. b.by = c /\ b = BodyOf(c)
  BY <1>1 DEF BodyOf, Body, Own
<1>6. c \in Files /\ Files' = Files
  BY DEF Files, Seconds
<1>7. /\ scripts' = [g \in Files |-> scripts'[g]] /\ scripts'[c] = <<b>>
      /\ \A g \in Files \ {c} : scripts'[g] = scripts[g]
  <2>1. scripts = [g \in Files |-> scripts[g]]
    BY Zenon DEF SInv, FilesOK
  <2>2. scripts' = [scripts EXCEPT ![c] = <<b>>]
    BY <1>1
  <2> QED BY <1>6, <2>1, <2>2, Zenon
<1>8. PartsOf(c)' = {b} /\ \A g \in Files \ {c} : PartsOf(g)' = PartsOf(g)
  <2>1. PartsOf(c)' = {b}
    <3>1. DOMAIN <<b>> = {1} /\ <<b>>[1] = b
      OBVIOUS
    <3> QED BY <1>7, <3>1 DEF PartsOf
  <2> QED BY <1>7, <2>1 DEF PartsOf
<1>9. FilesOK'
  <2>1. ASSUME NEW g \in Files
        PROVE /\ scripts'[g] \in Seq(PartsOf(g)')
              /\ \A q \in PartsOf(g)' : /\ q.by \in Clients /\ client'[q.by].script = g
                                        /\ client'[q.by].at \notin {"starts", "open"}
    <3>1. /\ scripts[g] \in Seq(PartsOf(g))
          /\ \A q \in PartsOf(g) : /\ q.by \in Clients /\ client[q.by].script = g
                                   /\ client[q.by].at \notin {"starts", "open"}
      BY Zenon DEF SInv, FilesOK
    <3>2. CASE g = c
      <4>1. <<b>> \in Seq({b})
        OBVIOUS
      <4> QED BY <1>4, <1>5, <1>7, <1>8, <3>2, <4>1
    <3>3. CASE g # c
      <4>1. \A q \in PartsOf(g) : q.by # c
        BY <1>1, <3>1
      <4> QED BY <1>4, <1>7, <1>8, <3>1, <3>3, <4>1
    <3> QED BY <3>2, <3>3
  <2> QED BY <1>6, <1>7, <2>1, Zenon DEF FilesOK
<1>10. WriterOK(c)'
  <2>1. Known(client'[c].order)
    <3>1. WriterOK(c)
      BY Zenon DEF SInv
    <3> QED BY <3>1, <1>1, <1>4 DEF WriterOK
  <2>2. Own(c)' /\ Whole(c)' = <<b>>
    <3>1. Own(c)' /\ BodyOf(c)' = b
      BY <1>1, <1>4, <1>5 DEF Own, BodyOf
    <3> QED BY <3>1 DEF Whole
  <2>3. \E p \in PartsOf(c)' : p.by = c
    BY <1>5, <1>8
  <2>4. Seconds' = Seconds
    BY DEF Seconds
  <2>5. PartsOf(client[c].script)' = PartsOf(c)'
    BY <1>4 DEF PartsOf
  <2> QED BY <1>4, <1>7, <2>1, <2>2, <2>3, <2>4, <2>5, Zenon DEF WriterOK
<1>11. \A d \in Clients \ {c} : WriterOK(d)' /\ (Shared(d)' <=> Shared(d))
  <2>1. ASSUME NEW d \in Clients \ {c}
        PROVE /\ client'[d] = client[d] /\ job'[d].queued = job[d].queued
              /\ history'[d] = history[d] /\ scripts'[client[d].script] = scripts[client[d].script]
    <3>1. client[d].script \in Seconds \cup {d}
      BY Zenon DEF SInv, WriterOK
    <3>2. client[d].script \in Files \ {c}
      BY <3>1, FilesAssumption DEF Files
    <3> QED BY <1>1, <1>4, <1>7, <3>2
  <2> QED BY <2>1, OthersKept
<1>12. history' = [d \in Clients |-> history'[d]] /\ history'[c] \subseteq {"no template"}
  BY <1>1, HistoryKept
<1>13. \A d \in Clients \ {c} : WriterOK(d)' /\ (Shared(d) => Shared(d)')
  BY <1>11
<1>14. \A d \in Clients \ {c} : /\ client'[d] = client[d] /\ job'[d].queued = job[d].queued
                                /\ history'[d] = history[d]
  BY <1>1, <1>4
<1>15. client'[c].at \in {"starts", "open", "named"} => history'[c] = {}
  BY <1>4
<1>16. client[c].at # "done"
  BY <1>1
<1> QED BY <1>9, <1>10, <1>12, <1>13, <1>14, <1>15, <1>16, ClientAlone

LEMMA PartsThen ==
  ASSUME NEW c, NEW f, client'[c].script = f
  PROVE /\ Shared(c)' <=> \E q \in PartsOf(f)' : q.by # c
        /\ PartsOf(client[c].script)' = PartsOf(f)'
  BY DEF Shared, PartsOf

(* A part more in the file of a client.                                    *)
LEMMA Appends ==
  ASSUME IInv, SInv, NEW c \in Clients, client[c].at \in {"open", "named"},
         NEW p, p.by = c, Append1(c, p), UNCHANGED job,
         NEW a \in {"named", "closed", "done"}, MovesTo(c, a, client[c].script),
         history' = [d \in Clients |-> history'[d]],
         \A d \in Clients \ {c} : history'[d] = history[d],
         history'[c] \subseteq {"no template"}, a = "named" => history'[c] = {},
         a # "done" => /\ Accepts(GeneratorFor(client[c].order), client[c].order.kind)
                       /\ Append(Whole(c), p) = Whole(c)'
  PROVE SInv'
<1>1. /\ client'[c].at = a /\ client'[c].order = client[c].order
      /\ client'[c].script = client[c].script
      /\ \A d \in Clients \ {c} : client'[d] = client[d]
  BY Zenon DEF MovesTo
<1> PICK f : f = client[c].script
  OBVIOUS
<1>2. /\ f \in Seconds /\ f \in Files /\ ~ Own(c) /\ Known(client[c].order)
      /\ ~ Shared(c) => scripts[f] = Whole(c)
  <2>1. WriterOK(c)
    BY Zenon DEF SInv
  <2> QED BY <2>1 DEF WriterOK, Wrote, Files
<1>3. /\ FilesOK'
      /\ PartsOf(f)' = PartsOf(f) \cup {p} /\ scripts'[f] = Append(scripts[f], p)
      /\ \A g \in Files \ {f} : scripts'[g] = scripts[g] /\ PartsOf(g)' = PartsOf(g)
  <2>1. FilesOK /\ scripts' = [scripts EXCEPT ![f] = Append(@, p)]
    BY DEF SInv, Append1
  <2>2. client'[c].script = f /\ client'[c].at \notin {"starts", "open"}
    BY <1>1
  <2>3. f \in Files /\ client[c].script = f /\ p.by = c
    BY <1>2
  <2>4. \A d \in Clients \ {c} : client'[d] = client[d]
    BY <1>1
  <2> QED BY ONLY <2>1, <2>2, <2>3, <2>4, c \in Clients, FileAppended
<1>4. ~ job[c].queued /\ ~ job'[c].queued
  BY AtWork
<1>5. WriterOK(c)'
  <2>1. Seconds' = Seconds
    BY DEF Seconds
  <2>2. CASE a = "done"
    BY <1>1, <1>2, <1>4, <2>1, <2>2 DEF WriterOK, Wrote
  <2>3. CASE a # "done"
    <3>1. ~ Own(c)' /\ Accepts(GeneratorFor(client'[c].order), client'[c].order.kind)
      BY <1>1, <1>2, <2>3 DEF Own
    <3>2. Known(client'[c].order) /\ client'[c].script = f
      BY <1>1, <1>2
    <3>3. ~ Shared(c)' => scripts'[f] = Whole(c)'
      <4> SUFFICES ASSUME ~ Shared(c)' PROVE scripts'[f] = Whole(c)'
        OBVIOUS
      <4>1. \A q \in PartsOf(f)' : q.by = c
        <5>1. client'[c].script = f
          BY <3>2
        <5>2. \A k \in DOMAIN scripts'[client'[c].script] : scripts'[client'[c].script][k].by = c
          BY Zenon DEF Shared
        <5>3. \A k \in DOMAIN scripts'[f] : scripts'[f][k].by = c
          BY <5>1, <5>2, Zenon
        <5>4. PartsOf(f)' = {scripts'[f][k] : k \in DOMAIN scripts'[f]}
          BY DEF PartsOf
        <5>5. ASSUME NEW q, q \in PartsOf(f)' PROVE q.by = c
          <6>1. q \in {scripts'[f][k] : k \in DOMAIN scripts'[f]}
            BY <5>4, <5>5
          <6>2. \E k \in DOMAIN scripts'[f] : q = scripts'[f][k]
            BY <6>1, Zenon
          <6> QED BY <6>2, <5>3, Zenon
        <5> QED BY <5>5, Zenon
      <4>2. ~ Shared(c)
        <5>1. \A q \in PartsOf(f) : q.by = c
          BY <1>3, <4>1
        <5> QED BY <5>1, Zenon DEF Shared, PartsOf
      <4> QED BY <1>2, <1>3, <2>3, <4>2
    <3>4. \E q \in PartsOf(f)' : q.by = c
      BY <1>3
    <3>5. PartsOf(client[c].script)' = PartsOf(f)'
      <4>1. client'[c].script = f
        BY <3>2
      <4> QED BY <4>1, PartsThen
    <3> QED BY <1>2, <2>1, <3>1, <3>2, <3>3, <3>4, <3>5, Zenon DEF WriterOK
  <2> QED BY <2>2, <2>3
<1>6. ASSUME NEW d \in Clients \ {c} PROVE WriterOK(d)' /\ (Shared(d) => Shared(d)')
  <2>1. WriterOK(d) /\ client'[d] = client[d] /\ job'[d].queued = job[d].queued
    BY <1>1 DEF SInv
  <2> PICK g : g = client[d].script
    OBVIOUS
  <2>2. CASE g = f
    <3>1. p.by # d /\ PartsOf(g)' = PartsOf(g) \cup {p}
      BY <1>3, <2>2
    <3> QED BY <2>1, <3>1, WriterShares
  <2>3. CASE g # f
    <3>1. g \in Seconds \cup {d}
      BY <2>1 DEF WriterOK
    <3>2. scripts'[g] = scripts[g]
      BY <1>3, <2>3, <3>1 DEF Files
    <3>3. "no template" \in history'[d] <=> "no template" \in history[d]
      OBVIOUS
    <3> QED BY <2>1, <3>2, <3>3, WriterKept
  <2> QED BY <2>2, <2>3
<1>7. client'[c].at \in {"starts", "open", "named"} => history'[c] = {}
  BY <1>1
<1>8. \A d \in Clients \ {c} : /\ client'[d] = client[d] /\ job'[d].queued = job[d].queued
                               /\ history'[d] = history[d]
  BY <1>1
<1>9. client[c].at # "done"
  OBVIOUS
<1> QED BY <1>3, <1>5, <1>6, <1>7, <1>8, <1>9, ClientAlone

LEMMA SetVariables ==
  ASSUME IInv, SInv, NEW c \in Clients, jobscript_set_variable(c)
  PROVE SInv'
<1> PICK p : p = VarsOf(c)
  OBVIOUS
<1>1. p.by = c
  BY DEF VarsOf, Names
<1>2. /\ client[c].at = "open" /\ Append1(c, p) /\ job' = job
      /\ \/ ~ Accepts(GeneratorFor(client[c].order), client[c].order.kind)
            /\ Refused(c) /\ history' = history
         \/ /\ Accepts(GeneratorFor(client[c].order), client[c].order.kind)
            /\ \/ Moved(c, "named") /\ history' = history
               \/ Moved(c, "closed") /\ Happened(c, {"no template"})
  BY Zenon DEF jobscript_set_variable, At, VarsOf
<1>3. client[c].at \in {"open", "named"} /\ client[c].at # "done"
  BY <1>2
<1>4. history = [d \in Clients |-> history[d]] /\ history[c] = {}
  BY <1>2, Zenon DEF SInv, HistoryOK
<1>5. ~ Own(c)
  <2>1. WriterOK(c)
    BY Zenon DEF SInv
  <2> QED BY <1>2, <2>1 DEF WriterOK
<1>6. Append(Whole(c), p) = <<p>>
  <2>1. Whole(c) = <<>>
    BY <1>2, <1>5, Zenon DEF Whole
  <2> QED BY <2>1
<1>7. ASSUME client'[c].order = client[c].order,
             client'[c].at = "named" \/ (client'[c].at = "closed" /\ history'[c] = {"no template"})
      PROVE Append(Whole(c), p) = Whole(c)'
  <2>1. ~ Own(c)' /\ VarsOf(c)' = p
    <3>1. client'[c].order = client[c].order
      BY <1>7
    <3>2. VarsOf(c)' = VarsOf(c)
      BY <3>1 DEF VarsOf
    <3>3. ~ Own(c)'
      BY <1>5, <3>1 DEF Own
    <3> QED BY <3>2, <3>3
  <2>2. client'[c].at # "open"
    BY <1>7
  <2>3. Whole(c)' = <<p>>
    BY <1>7, <2>1, <2>2 DEF Whole
  <2> QED BY <1>6, <2>3
<1>8. CASE Refused(c) /\ history' = history
  <2> PICK a : a = "done"
    OBVIOUS
  <2>1. MovesTo(c, a, client[c].script)
    BY <1>8, ClientMoves
  <2>2. /\ history' = [d \in Clients |-> history'[d]]
        /\ \A d \in Clients \ {c} : history'[d] = history[d]
        /\ history'[c] \subseteq {"no template"}
    BY <1>4, <1>8
  <2>3. a \in {"named", "closed", "done"} /\ a # "named"
    OBVIOUS
  <2> QED BY <1>1, <1>2, <1>3, <2>1, <2>2, <2>3, Appends
<1>9. CASE /\ Accepts(GeneratorFor(client[c].order), client[c].order.kind)
           /\ Moved(c, "named") /\ history' = history
  <2> PICK a : a = "named"
    OBVIOUS
  <2>1. MovesTo(c, a, client[c].script)
    BY <1>9, ClientMoves
  <2>2. /\ history' = [d \in Clients |-> history'[d]]
        /\ \A d \in Clients \ {c} : history'[d] = history[d]
        /\ history'[c] = {} /\ history'[c] \subseteq {"no template"}
    BY <1>4, <1>9
  <2>3. Append(Whole(c), p) = Whole(c)'
    BY <1>7, <2>1, Zenon DEF MovesTo
  <2>4. a \in {"named", "closed", "done"}
    OBVIOUS
  <2> QED BY <1>1, <1>2, <1>3, <1>9, <2>1, <2>2, <2>3, <2>4, Appends
<1>10. CASE /\ Accepts(GeneratorFor(client[c].order), client[c].order.kind)
            /\ Moved(c, "closed") /\ Happened(c, {"no template"})
  <2> PICK a : a = "closed"
    OBVIOUS
  <2>1. MovesTo(c, a, client[c].script)
    BY <1>10, ClientMoves
  <2>2. /\ history' = [d \in Clients |-> history'[d]]
        /\ \A d \in Clients \ {c} : history'[d] = history[d]
        /\ history'[c] = {"no template"} /\ history'[c] \subseteq {"no template"}
    <3>1. history' = [history EXCEPT ![c] = history[c] \cup {"no template"}]
      BY <1>10, <1>4, Zenon DEF Happened
    <3>2. history'[c] = history[c] \cup {"no template"}
      BY <1>4, <3>1, Zenon
    <3>3. /\ history' = [d \in Clients |-> history'[d]]
          /\ \A d \in Clients \ {c} : history'[d] = history[d]
      BY <1>4, <3>1, Zenon
    <3> QED BY <1>4, <3>2, <3>3
  <2>3. Append(Whole(c), p) = Whole(c)'
    BY <1>7, <2>1, <2>2, Zenon DEF MovesTo
  <2>4. a \in {"named", "closed", "done"} /\ a # "named"
    OBVIOUS
  <2> QED BY <1>1, <1>2, <1>3, <1>10, <2>1, <2>2, <2>3, <2>4, Appends
<1> QED BY <1>2, <1>8, <1>9, <1>10, Zenon

LEMMA AppendOne ==
  ASSUME NEW v, NEW p PROVE Append(<<v>>, p) = <<v, p>>
<1> DEFINE s == <<v>>
           t == <<v, p>>
<1>1. s \in Seq({v, p}) /\ Len(s) = 1 /\ s[1] = v
  OBVIOUS
<1>2. t \in Seq({v, p}) /\ Len(t) = 2 /\ t[1] = v /\ t[2] = p
  OBVIOUS
<1> HIDE DEF s, t
<1> PICK S : S = {v, p}
  OBVIOUS
<1> PICK a : a = Append(s, p)
  OBVIOUS
<1>3. a \in Seq(S) /\ Len(a) = 2 /\ a[1] = v /\ a[2] = p
  <2>1. s \in Seq(S) /\ p \in S
    BY <1>1
  <2>2. Len(s) = 1 /\ s[1] = v
    BY <1>1
  <2>3. Append(s, p) \in Seq(S)
    BY <2>1, AppendProperties
  <2>7. Len(Append(s, p)) = Len(s) + 1 /\ Append(s, p)[Len(s) + 1] = p
    BY <2>1, AppendProperties
  <2>8. Len(s) + 1 = 2
    BY <2>2
  <2>4. Len(Append(s, p)) = 2
    BY <2>7, <2>8, Zenon
  <2>5. Append(s, p)[1] = v
    BY <2>1, <2>2, AppendProperties
  <2>6. Append(s, p)[2] = p
    BY <2>7, <2>8, Zenon
  <2> QED BY <2>3, <2>4, <2>5, <2>6
<1>4. \A i \in 1 .. 2 : a[i] = t[i]
  BY <1>2, <1>3
<1>5. a = t
  BY <1>2, <1>3, <1>4, SeqEqual
<1> QED BY <1>5 DEF s, t

LEMMA WriteTemplate ==
  ASSUME IInv, SInv, NEW c \in Clients, jobscript_template_write(c)
  PROVE SInv'
<1> PICK p : p = BodyOf(c)
  OBVIOUS
<1>1. p.by = c
  BY DEF BodyOf, Body
<1>2. client[c].at = "named" /\ Append1(c, p) /\ job' = job /\ history' = history /\ Moved(c, "closed")
  BY Zenon DEF jobscript_template_write, At, BodyOf
<1>3. client[c].at \in {"open", "named"} /\ client[c].at # "done"
  BY <1>2
<1>4. history = [d \in Clients |-> history[d]] /\ history[c] = {}
  BY <1>2, Zenon DEF SInv, HistoryOK
<1>5. ~ Own(c) /\ Accepts(GeneratorFor(client[c].order), client[c].order.kind)
  <2>1. WriterOK(c)
    BY Zenon DEF SInv
  <2> QED BY <1>2, <2>1 DEF WriterOK, Wrote
<1> PICK a : a = "closed"
  OBVIOUS
<1>6. MovesTo(c, a, client[c].script)
  BY <1>2, ClientMoves
<1>7. Append(Whole(c), p) = Whole(c)'
  <2>1. Whole(c) = <<VarsOf(c)>>
    BY <1>2, <1>5 DEF Whole
  <2>2. /\ client'[c].order = client[c].order /\ client'[c].at = "closed"
        /\ history'[c] = {}
    BY <1>2, <1>4, <1>6, Zenon DEF MovesTo
  <2>3. ~ Own(c)' /\ VarsOf(c)' = VarsOf(c) /\ BodyOf(c)' = p
    BY <1>5, <2>2 DEF Own, VarsOf, BodyOf
  <2> PICK v : v = VarsOf(c)
    OBVIOUS
  <2>4. Whole(c)' = <<v, p>>
    <3>1. client'[c].at # "open" /\ client'[c].at # "named" /\ "no template" \notin history'[c]
      BY <2>2
    <3> QED BY <2>3, <3>1, Zenon DEF Whole
  <2>5. Append(<<v>>, p) = <<v, p>>
    BY AppendOne
  <2> QED BY <2>1, <2>4, <2>5, Zenon
<1>8. /\ history' = [d \in Clients |-> history'[d]]
      /\ \A d \in Clients \ {c} : history'[d] = history[d]
      /\ history'[c] \subseteq {"no template"}
  BY <1>2, <1>4
<1>9. a \in {"named", "closed", "done"} /\ a # "named"
  OBVIOUS
<1> QED BY <1>1, <1>2, <1>3, <1>5, <1>6, <1>7, <1>8, <1>9, Appends

----------------------------------------------------------------------------
(* What the steps of the master change.                                    *)
JobIs(c, r, F) ==
  /\ job'[c].queued = TRUE /\ job'[c].range = r /\ job'[c].frames = F
  /\ \A d \in Clients \ {c} : job'[d] = job[d]

LEMMA JobReplaced ==
  ASSUME IInv, NEW c \in Clients, NEW r, NEW F,
         job' = [job EXCEPT ![c] = [queued |-> TRUE, range |-> r, frames |-> F]]
  PROVE JobIs(c, r, F)
<1>1. job = [d \in Clients |-> job[d]]
  BY Zenon DEF IInv, JobsOK
<1> PICK y : y = [queued |-> TRUE, range |-> r, frames |-> F]
  OBVIOUS
<1>2. job'[c] = y /\ \A d \in Clients \ {c} : job'[d] = job[d]
  BY <1>1, Zenon
<1>3. y.queued = TRUE /\ y.range = r /\ y.frames = F
  BY JobFields
<1> QED BY <1>2, <1>3, Zenon DEF JobIs

LEMMA JobWith ==
  ASSUME IInv, NEW c \in Clients, job[c].queued, NEW i, NEW f, WithFrame(c, i, f)
  PROVE \E G : /\ JobIs(c, job[c].range, G) /\ DOMAIN G = Indices(c)
               /\ i \in Indices(c) => G[i] = f
               /\ \A k \in Indices(c) \ {i} : G[k] = Frame(c, k)
<1>1. PICK r, old : /\ job[c] = [queued |-> TRUE, range |-> r, frames |-> old]
                    /\ InNumbers(r) /\ job_nframes(r) # 0 /\ FramesOK(old, job_nframes(r))
  BY Shapes, Zenon
<1> DEFINE new == [old EXCEPT ![i] = f]
<1>2. job[c].frames = old /\ job[c].range = r
  BY <1>1, JobFields
<1>3. job' = [job EXCEPT ![c] = [queued |-> TRUE, range |-> r, frames |-> new]]
  <2>1. [job[c] EXCEPT !.frames = new] = [queued |-> TRUE, range |-> r, frames |-> new]
    <3> HIDE DEF new
    <3> DEFINE With(j) == [j EXCEPT !.frames = new]
               Old(q) == [queued |-> q, range |-> r, frames |-> old]
               New(q) == [queued |-> q, range |-> r, frames |-> new]
    <3>1. ASSUME NEW j, NEW q, j = Old(q) PROVE With(j) = New(q)
      <4>1. j \in [queued : {q}, range : {r}, frames : {old}]
        BY <3>1, Zenon
      <4> QED BY <4>1, SMT
    <3>2. job[c] = Old(TRUE)
      BY <1>1
    <3> HIDE DEF With, Old, New
    <3>3. With(job[c]) = New(TRUE)
      BY <3>1, <3>2, Zenon
    <3> QED BY <3>3, Zenon DEF With, New
  <2>2. job' = [job EXCEPT ![c] = [job[c] EXCEPT !.frames = [job[c].frames EXCEPT ![i] = f]]]
    BY Zenon DEF WithFrame
  <2> QED BY <2>1, <2>2, <1>2, Zenon
<1>4. Indices(c) = DOMAIN old /\ \A k : Frame(c, k) = old[k]
  BY <1>2, Zenon DEF Indices, Frame
<1>5. /\ DOMAIN new = DOMAIN old /\ (i \in DOMAIN old => new[i] = f)
      /\ \A k \in DOMAIN old \ {i} : new[k] = old[k]
  <2>1. old = [k \in 0 .. job_nframes(r) - 1 |-> old[k]]
    BY <1>1, Zenon DEF FramesOK
  <2> QED BY <2>1, Zenon
<1> HIDE DEF new
<1>6. JobIs(c, r, new)
  BY <1>3, JobReplaced
<1>7. /\ JobIs(c, job[c].range, new) /\ DOMAIN new = Indices(c)
      /\ i \in Indices(c) => new[i] = f
      /\ \A k \in Indices(c) \ {i} : new[k] = Frame(c, k)
  BY <1>2, <1>4, <1>5, <1>6, Zenon
<1> QED BY <1>7, Zenon

LEMMA RangeWith ==
  ASSUME IInv, NEW c \in Clients, job[c].queued, NEW q,
         job' = [job EXCEPT ![c].range = q,
                   ![c].frames = [i \in 0 .. job_nframes(q) - 1 |-> OldRecord(c, q, i)]]
  PROVE JobIs(c, q, [i \in 0 .. job_nframes(q) - 1 |-> OldFrame(job[c].frames, job[c].range, q, i)])
<1>1. PICK o, old : job[c] = [queued |-> TRUE, range |-> o, frames |-> old]
  BY Shapes, Zenon
<1>2. PICK g : g = [i \in 0 .. job_nframes(q) - 1 |-> OldRecord(c, q, i)]
  OBVIOUS
<1>3. job' = [job EXCEPT ![c] = [queued |-> TRUE, range |-> q, frames |-> g]]
  <2>1. job = [d \in Clients |-> job[d]]
    BY Zenon DEF IInv, JobsOK
  <2> DEFINE With(j) == [[j EXCEPT !.range = q] EXCEPT !.frames = g]
             Old(b) == [queued |-> b, range |-> o, frames |-> old]
             New(b) == [queued |-> b, range |-> q, frames |-> g]
  <2>2. ASSUME NEW j, NEW b, j = Old(b) PROVE With(j) = New(b)
    <3>1. j \in [queued : {b}, range : {o}, frames : {old}]
      BY <2>2, Zenon
    <3>2. PICK k : k = [j EXCEPT !.range = q]
      OBVIOUS
    <3>3. k = [queued |-> b, range |-> q, frames |-> old]
      BY <3>1, <3>2, SMT
    <3>4. k \in [queued : {b}, range : {q}, frames : {old}]
      BY <3>3, Zenon
    <3>5. [k EXCEPT !.frames = g] = [queued |-> b, range |-> q, frames |-> g]
      BY <3>4, SMT
    <3> QED BY <3>2, <3>5, Zenon
  <2>3. job[c] = Old(TRUE)
    BY <1>1
  <2>4. job' = [job EXCEPT ![c] = With(job[c])]
    BY <1>2, <2>1, Zenon
  <2> HIDE DEF With, Old, New
  <2>5. With(job[c]) = New(TRUE)
    BY <2>2, <2>3, Zenon
  <2> QED BY <2>4, <2>5, Zenon DEF New
<1>4. g = [i \in 0 .. job_nframes(q) - 1 |-> OldFrame(job[c].frames, job[c].range, q, i)]
  BY <1>2, Zenon DEF OldRecord, OldFrame, Frame
<1>5. JobIs(c, q, g)
  BY <1>3, JobReplaced
<1> QED BY <1>4, <1>5, Zenon

LEMMA StillQueued ==
  ASSUME IInv, NEW c \in Clients, job[c].queued, NEW r, NEW F, JobIs(c, r, F)
  PROVE \A d \in Clients : job'[d].queued = job[d].queued
<1>1. job[c].queued = TRUE
  BY Shapes, Zenon
<1> QED BY <1>1, Zenon DEF JobIs

(* What happened to a job that was queued.                                 *)
HappenedTo(c, what) ==
  /\ history' = [d \in Clients |-> history'[d]] /\ history'[c] = history[c] \cup what
  /\ \A d \in Clients \ {c} : history'[d] = history[d]
LEMMA Happening ==
  ASSUME SInv, NEW c \in Clients
  PROVE /\ \A what : Happened(c, what) => HappenedTo(c, what)
        /\ history' = history => HappenedTo(c, {})
<1>1. history = [d \in Clients |-> history[d]]
  BY Zenon DEF SInv, HistoryOK
<1>2. ASSUME NEW what, Happened(c, what) PROVE HappenedTo(c, what)
  <2>1. history' = [history EXCEPT ![c] = history[c] \cup what]
    BY <1>1, <1>2, Zenon DEF Happened
  <2> QED BY <1>1, <2>1, Zenon DEF HappenedTo
<1>3. history' = history => HappenedTo(c, {})
  BY <1>1 DEF HappenedTo
<1> QED BY <1>2, <1>3, Zenon

LEMMA ScriptsStay ==
  ASSUME IInv, SInv, NEW c \in Clients, job[c].queued, UNCHANGED <<scripts, client>>,
         \A d \in Clients : job'[d].queued = job[d].queued,
         NEW what, HappenedTo(c, what), "no template" \notin what,
         ~ Shared(c) => \A system \in {Linux, Windows} :
                          system \in what => Excused(client[c].order, system)
  PROVE SInv'
<1>1. /\ history' = [d \in Clients |-> history'[d]] /\ history'[c] = history[c] \cup what
      /\ \A d \in Clients \ {c} : history'[d] = history[d]
  BY Zenon DEF HappenedTo
<1>2. \A d \in Clients : job[d].queued \/ history'[d] = history[d]
  BY <1>1
<1>3. \A d \in Clients : "no template" \in history'[d] <=> "no template" \in history[d]
  BY <1>1
<1>4. \A d \in Clients : client[d].at \in {"starts", "open", "named"} => history'[d] = history[d]
  <2>1. client[c].at = "done"
    BY AtWork
  <2> QED BY <1>1, <2>1
<1>5. \A d \in Clients : ~ Shared(d) =>
        \A system \in {Linux, Windows} :
          system \in history'[d] => system \in history[d] \/ Excused(client[d].order, system)
  BY <1>1
<1> QED BY <1>1, <1>2, <1>3, <1>4, <1>5, ScriptsAlone

(* A slot changes, the others do not.                                      *)
SlotIs(s, x) ==
  /\ slot'[s] = x /\ DOMAIN slot' = DOMAIN slot /\ \A u \in DOMAIN slot \ {s} : slot'[u] = slot[u]
LEMMA SlotBecomes ==
  ASSUME NEW s \in DOMAIN slot, IInv, NEW x, slot' = [slot EXCEPT ![s] = x]
  PROVE SlotIs(s, x)
<1>1. slot = [u \in DOMAIN slot |-> slot[u]]
  BY Zenon DEF IInv, SlotsOK
<1> QED BY <1>1, Zenon DEF SlotIs

(* What a launch changes.                                                  *)
Launched(s, c, t, run, exit) ==
  /\ run \in Runs(c, t) /\ exit \in ExitOf(run)
  /\ \E x : /\ SlotIs(s, x) /\ x.held = TRUE /\ x.job = c /\ x.task = t /\ x.exit = exit
  /\ rendered' =
       IF run.rendered = <<>> THEN rendered
       ELSE [d \in Clients |-> [n \in FrameNumbersUsed |->
               Capped(rendered[d][n] + Times(run, d, n))]]
  /\ HappenedTo(c, IF run.exit = "undefined" THEN {run.system} ELSE {})
LEMMA LaunchIs ==
  ASSUME IInv, SInv, NEW s, launch_task(s), NEW c, c = slot[s].job, NEW t, t = slot[s].task
  PROVE /\ s \in DOMAIN slot /\ slot[s].held /\ slot[s].exit = "none"
        /\ c \in Clients /\ job[c].queued /\ UNCHANGED <<now, scripts, client, job>>
        /\ \E run, exit : Launched(s, c, t, run, exit)
<1>1. /\ s \in DOMAIN slot /\ slot[s].held /\ slot[s].exit = "none"
      /\ UNCHANGED <<now, scripts, client, job>>
  BY DEF launch_task, Renders
<1>2. PICK e : e = slot[s].exit
  OBVIOUS
<1>3. /\ slot[s] = [held |-> TRUE, job |-> c, exit |-> e, task |-> t]
      /\ c \in Clients /\ job[c].queued
  BY <1>1, <1>2, HeldSlot
<1>4. PICK run \in Runs(c, t) :
        /\ \E exit \in ExitOf(run) : slot' = [slot EXCEPT ![s].exit = exit]
        /\ rendered' =
             IF run.rendered = <<>> THEN rendered
             ELSE [d \in Clients |-> [n \in FrameNumbersUsed |->
                     Capped(rendered[d][n] + Times(run, d, n))]]
        /\ Happened(c, IF run.exit = "undefined" THEN {run.system} ELSE {})
  BY Zenon DEF launch_task
<1>5. PICK exit \in ExitOf(run) : slot' = [slot EXCEPT ![s].exit = exit]
  BY <1>4
<1>6. PICK x : x = [slot[s] EXCEPT !.exit = exit]
  OBVIOUS
<1>7. x = [held |-> TRUE, job |-> c, exit |-> exit, task |-> t]
  <2> DEFINE With(y) == [y EXCEPT !.exit = exit]
             Old(h) == [held |-> h, job |-> c, exit |-> e, task |-> t]
             New(h) == [held |-> h, job |-> c, exit |-> exit, task |-> t]
  <2>1. ASSUME NEW y, NEW h, y = Old(h) PROVE With(y) = New(h)
    <3>1. y \in [held : {h}, job : {c}, exit : {e}, task : {t}]
      BY <2>1, Zenon
    <3> QED BY <3>1, SMT
  <2>2. slot[s] = Old(TRUE) /\ x = With(slot[s])
    BY <1>3, <1>6
  <2> HIDE DEF With, Old, New
  <2>3. x = New(TRUE)
    BY <2>1, <2>2, Zenon
  <2> QED BY <2>3, Zenon DEF New
<1>8. slot' = [slot EXCEPT ![s] = x]
  BY <1>5, <1>6, Zenon
<1>9. SlotIs(s, x)
  BY <1>1, <1>8, SlotBecomes
<1>10. x.held = TRUE /\ x.job = c /\ x.exit = exit /\ x.task = t
  BY <1>7, SlotFields
<1>11. HappenedTo(c, IF run.exit = "undefined" THEN {run.system} ELSE {})
  BY <1>3, <1>4, Happening
<1>12. Launched(s, c, t, run, exit)
  BY <1>4, <1>9, <1>10, <1>11, Zenon DEF Launched
<1> QED BY <1>1, <1>3, <1>12

(* What a run renders was written by those whose parts it ran.             *)
WritersOf(c) == IF Own(c) THEN {c} ELSE {p.by : p \in PartsOf(client[c].script)}
LEMMA RunsAre ==
  ASSUME NEW c, NEW t, NEW run \in Runs(c, t)
  PROVE /\ Own(c) => \E bad \in BOOLEAN : run = OwnRun(c, t, bad)
        /\ ~ Own(c) => \E system \in Systems : \E bad \in BOOLEAN :
                         run = RunScript(scripts[client[c].script], t, system, bad)
<1>1. CASE Own(c)
  <2>1. Runs(c, t) = {OwnRun(c, t, bad) : bad \in BOOLEAN}
    BY <1>1 DEF Runs, Own
  <2>2. run \in {OwnRun(c, t, bad) : bad \in BOOLEAN}
    BY <2>1
  <2> QED BY <1>1, <2>2
<1>2. CASE ~ Own(c)
  <2>1. Runs(c, t) = {RunScript(scripts[client[c].script], t, system, bad) :
                        system \in Systems, bad \in BOOLEAN}
    BY <1>2 DEF Runs, Own
  <2>2. run \in {RunScript(scripts[client[c].script], t, system, bad) :
                   system \in Systems, bad \in BOOLEAN}
    BY <2>1
  <2> QED BY <1>2, <2>2
<1> QED BY <1>1, <1>2

LEMMA RunBySomeone ==
  ASSUME SInv, NEW c \in Clients, NEW t, NEW run \in Runs(c, t)
  PROVE /\ run.exit = "undefined" => run.system \in {Linux, Windows} /\ ~ Own(c)
        /\ ~ Own(c) => RunBy(WritersOf(c), t, run)
        /\ Own(c) => \E bad \in BOOLEAN : run = OwnRun(c, t, bad)
<1>1. CASE Own(c)
  <2>1. PICK bad \in BOOLEAN : run = OwnRun(c, t, bad)
    BY <1>1, RunsAre
  <2>2. run.exit # "undefined"
    BY <2>1 DEF OwnRun
  <2> QED BY <1>1, <2>1, <2>2
<1>2. CASE ~ Own(c)
  <2>1. PICK system \in Systems, bad \in BOOLEAN :
          run = RunScript(scripts[client[c].script], t, system, bad)
    BY <1>2, RunsAre
  <2>2. system \in {Linux, Windows}
    BY <2>1, FilesAssumption
  <2> PICK P : P = PartsOf(client[c].script)
    OBVIOUS
  <2> PICK A : A = WritersOf(c)
    OBVIOUS
  <2>3. \A p \in P : p.by \in A
    BY <1>2 DEF WritersOf
  <2>4. scripts[client[c].script] \in Seq(P)
    <3>1. client[c].script \in Files
      <4>1. client[c].script \in Seconds \cup {c}
        BY Zenon DEF SInv, WriterOK
      <4> QED BY <4>1 DEF Files
    <3> QED BY <3>1, Zenon DEF SInv, FilesOK
  <2>5. RunBy(A, t, run)
    BY <2>1, <2>2, <2>3, <2>4, RunOfAny
  <2>6. run.system \in {Linux, Windows}
    BY <2>5, Zenon DEF RunBy
  <2> QED BY <1>2, <2>5, <2>6
<1> QED BY <1>1, <1>2

(* A run of a file that nobody else wrote to.                              *)
LEMMA RunAlone ==
  ASSUME IInv, SInv, NEW c \in Clients, job[c].queued, ~ Shared(c), NEW t, NEW run \in Runs(c, t)
  PROVE /\ run.exit = "undefined" => Excused(client[c].order, run.system)
        /\ \/ run.rendered = <<>> /\ run.exit = "zero" /\ "no template" \in history[c]
           \/ run.rendered = <<>> /\ run.exit \in {"error", "failed", "undefined"}
           \/ /\ run.exit = "zero" /\ Own(c) /\ Rendered(run, c, PadFrames(t))
           \/ /\ run.exit = "zero" /\ ~ Own(c) /\ ListIsNumber(t)
              /\ client[c].order.engine \in DOMAIN TemplateOf
              /\ Rendered(run, c, Frames(TemplateOf[client[c].order.engine], t))
<1>1. WriterOK(c) /\ Wrote(c) /\ client[c].at = "done"
  <2>1. client[c].at = "done"
    BY AtWork
  <2> QED BY <2>1, Zenon DEF SInv, Wrote
<1>2. CASE Own(c)
  <2>1. PICK bad \in BOOLEAN : run = OwnRun(c, t, bad)
    BY <1>2, RunBySomeone
  <2>2. /\ bad => run.rendered = <<>> /\ run.exit = "failed"
        /\ ~ bad => Rendered(run, c, PadFrames(t)) /\ run.exit = "zero"
    <3>1. CASE bad
      BY <2>1, <3>1 DEF OwnRun
    <3>2. CASE ~ bad
      BY <2>1, <3>2 DEF OwnRun, Rendered
    <3> QED BY <3>1, <3>2
  <2> QED BY <1>2, <2>2
<1>3. CASE ~ Own(c)
  <2>1. PICK system \in Systems, bad \in BOOLEAN :
          run = RunScript(scripts[client[c].script], t, system, bad)
    BY <1>3, RunsAre
  <2>2. PICK script : script = scripts[client[c].script]
    OBVIOUS
  <2>3. /\ Known(client[c].order)
        /\ Accepts(GeneratorFor(client[c].order), client[c].order.kind)
        /\ script = Whole(c)
    BY <1>1, <1>3, <2>2, Zenon DEF WriterOK
  <2>4. IF "no template" \in history[c] THEN script = <<VarsOf(c)>> ELSE script = <<VarsOf(c), BodyOf(c)>>
    BY <1>1, <1>3, <2>3 DEF Whole
  <2> PICK v, b : v = VarsOf(c) /\ b = BodyOf(c)
    OBVIOUS
  <2>5. <<v>> # <<v, b>>
    OBVIOUS
  <2>6. script = <<VarsOf(c)>> => "no template" \in history[c]
    BY <2>4, <2>5
  <2>7. client[c].order.engine \in DOMAIN TemplateOf
    BY <1>3, <2>3, EngineSupplied DEF Own
  <2>8. LET r == RunScript(script, t, system, bad)
        IN  /\ r.system = system
            /\ \/ r.rendered = <<>> /\ r.exit = "zero" /\ script = <<VarsOf(c)>>
               \/ r.rendered = <<>> /\ r.exit \in {"error", "failed"}
               \/ /\ r.rendered = <<>> /\ r.exit = "undefined"
                  /\ Excused(client[c].order, system)
               \/ /\ r.exit = "zero" /\ ListIsNumber(t)
                  /\ Rendered(r, c, Frames(TemplateOf[client[c].order.engine], t))
    <3>1. script = <<VarsOf(c)>> \/ script = <<VarsOf(c), BodyOf(c)>>
      BY <2>4
    <3> QED BY <1>3, <2>3, <3>1, GeneratedRun
  <2>9. /\ run.system = system
        /\ \/ run.rendered = <<>> /\ run.exit = "zero" /\ script = <<VarsOf(c)>>
           \/ run.rendered = <<>> /\ run.exit \in {"error", "failed"}
           \/ /\ run.rendered = <<>> /\ run.exit = "undefined"
              /\ Excused(client[c].order, system)
           \/ /\ run.exit = "zero" /\ ListIsNumber(t)
              /\ Rendered(run, c, Frames(TemplateOf[client[c].order.engine], t))
    BY <2>1, <2>2, <2>8, Zenon
  <2>10. run.exit = "undefined" => Excused(client[c].order, run.system)
    BY <2>9
  <2>11. run.exit \in {"error", "failed"} => run.exit \in {"error", "failed", "undefined"}
    OBVIOUS
  <2>12. run.exit = "undefined" => run.exit \in {"error", "failed", "undefined"}
    OBVIOUS
  <2> QED BY <1>3, <2>6, <2>7, <2>9, <2>10, <2>11, <2>12, Zenon
<1> QED BY <1>2, <1>3

----------------------------------------------------------------------------
(* The scripts and their writers, step by step.                            *)
FirstWaiting(c) == CHOOSE k \in Waiting(c) : \A m \in Waiting(c) : k <= m
LEMMA RegisterScripts ==
  ASSUME IInv, SInv, NEW c \in Clients, register_job(c)
  PROVE SInv'
<1> PICK r : r = job_bswap_from_network(Sent(client[c].order))
  OBVIOUS
<1> PICK n : n = job_nframes(r)
  OBVIOUS
<1>1. client[c].at = "closed" /\ UNCHANGED <<now, scripts, slot, rendered, history>>
  BY Zenon DEF register_job, At
<1>2. CASE FitsMemory(n)
  <2> PICK g : g = [i \in 0 .. n - 1 |-> NewFrame]
    OBVIOUS
  <2>1. /\ job' = [job EXCEPT ![c] = [queued |-> TRUE, range |-> r, frames |-> g]]
        /\ \E t : client' = [client EXCEPT ![c].at = "done", ![c].told = t]
    BY <1>2, Zenon DEF register_job
  <2>2. JobIs(c, r, g)
    BY <2>1, JobReplaced
  <2>3. MovesTo(c, "done", client[c].script)
    BY <2>1, ClientMoves
  <2>4. /\ client'[c].at = "done" /\ client'[c].order = client[c].order
        /\ client'[c].script = client[c].script
        /\ \A d \in Clients \ {c} : client'[d] = client[d]
    BY <2>3, Zenon DEF MovesTo
  <2>5. FilesOK'
    <3>1. FilesOK
      BY DEF SInv
    <3>2. ASSUME NEW d \in Clients
          PROVE \/ client[d].at \in {"starts", "open"}
                \/ /\ client'[d].script = client[d].script
                   /\ client'[d].at \notin {"starts", "open"}
      BY <2>4
    <3> QED BY <1>1, <3>1, <3>2, FilesKept
  <2>6. WriterOK(c)'
    <3> PICK f : f = client[c].script
      OBVIOUS
    <3>1. WriterOK(c) /\ Wrote(c)
      BY <1>1, Zenon DEF SInv, Wrote
    <3>2. /\ f \in Seconds \cup {c} /\ Known(client[c].order)
          /\ IF Own(c) THEN f = c ELSE f \in Seconds
          /\ ~ Shared(c) => scripts[f] = Whole(c)
          /\ Own(c) \/ Accepts(GeneratorFor(client[c].order), client[c].order.kind)
          /\ \E p \in PartsOf(f) : p.by = c
      BY <1>1, <3>1 DEF WriterOK
    <3>3. PartsOf(f)' = PartsOf(f) /\ PartsOf(client[c].script)' = PartsOf(f)'
      BY <1>1, <2>4 DEF PartsOf
    <3>4. Shared(c)' <=> Shared(c)
      BY <1>1, <2>4 DEF Shared
    <3>5. Own(c)' <=> Own(c)
      BY <2>4 DEF Own
    <3>6. Whole(c)' = Whole(c)
      <4>1. VarsOf(c)' = VarsOf(c) /\ BodyOf(c)' = BodyOf(c)
        BY <2>4 DEF VarsOf, BodyOf
      <4>2. history'[c] = history[c] /\ client'[c].at # "open" /\ client'[c].at # "named"
            /\ client[c].at # "open" /\ client[c].at # "named"
        BY <1>1, <2>4
      <4> QED BY <3>5, <4>1, <4>2, Zenon DEF Whole
    <3>7. Seconds' = Seconds
      BY DEF Seconds
    <3>8. client'[c].script = f /\ scripts'[f] = scripts[f] /\ client'[c].at \in {"closed", "done"}
      BY <1>1, <2>4
    <3>9. Own(c)' \/ Accepts(GeneratorFor(client'[c].order), client'[c].order.kind)
      BY <2>4, <3>2, <3>5
    <3>10. Known(client'[c].order) /\ (~ Shared(c)' => scripts'[f] = Whole(c)')
      BY <2>4, <3>2, <3>4, <3>6, <3>8
    <3> QED BY <3>2, <3>3, <3>5, <3>7, <3>8, <3>9, <3>10, Zenon DEF WriterOK
  <2>7. \A d \in Clients \ {c} : /\ client'[d] = client[d] /\ job'[d].queued = job[d].queued
                                 /\ history'[d] = history[d]
    BY <1>1, <2>2, <2>4 DEF JobIs
  <2>8. \A d \in Clients \ {c} : WriterOK(d)' /\ (Shared(d)' <=> Shared(d))
    <3>1. \A d \in Clients \ {c} : /\ client'[d] = client[d] /\ job'[d].queued = job[d].queued
                                   /\ history'[d] = history[d] /\ scripts'[client[d].script] = scripts[client[d].script]
      BY <1>1, <2>7
    <3> QED BY <3>1, OthersKept
  <2>9. \A d \in Clients \ {c} : WriterOK(d)' /\ (Shared(d) => Shared(d)')
    BY <2>8
  <2>10. history' = [d \in Clients |-> history'[d]] /\ history'[c] \subseteq {"no template"}
    BY <1>1, HistoryKept
  <2>11. client'[c].at \in {"starts", "open", "named"} => history'[c] = {}
    BY <2>4
  <2>12. client[c].at # "done"
    BY <1>1
  <2> QED BY <2>5, <2>6, <2>7, <2>9, <2>10, <2>11, <2>12, ClientAlone
<1>3. CASE ~ FitsMemory(n)
  <2>1. Refused(c) /\ job' = job
    BY <1>3, Zenon DEF register_job
  <2>2. MovesTo(c, "done", client[c].script)
    BY <2>1, ClientMoves
  <2>3. client[c].at # "done" /\ UNCHANGED <<scripts, job, history>>
    BY <1>1, <2>1
  <2> QED BY <2>2, <2>3, GivesUp
<1> QED BY <1>2, <1>3

LEMMA AvailableIs ==
  ASSUME IInv, NEW c \in Clients, Forward(job[c].range), NEW s, job_available(c, s)
  PROVE /\ job[c].queued /\ s \in DOMAIN slot /\ ~ slot[s].held
        /\ UNCHANGED <<now, scripts, client, rendered, history>>
        /\ \E i \in Indices(c) :
             /\ Frame(c, i).status = "waiting"
             /\ \E f : WithFrame(c, i, f) /\ f.status = "assigned"
             /\ \E x : /\ SlotIs(s, x) /\ x.held = TRUE /\ x.job = c /\ x.exit = "none"
                       /\ x.task = Task(job[c].range, i)
<1>1. job[c].queued /\ s \in DOMAIN slot /\ ~ slot[s].held /\ Waiting(c) # {}
      /\ UNCHANGED <<now, scripts, client, rendered, history>>
  BY DEF job_available
<1>2. PICK i : i = FirstWaiting(c)
  OBVIOUS
<1>3. /\ WithFrame(c, i, [Frame(c, i) EXCEPT !.status = "assigned", !.slot = s])
      /\ slot' = [slot EXCEPT ![s] = [held |-> TRUE, job |-> c, exit |-> "none", task |->
           task_set_to_job_frame(job[c].range, job_frame_index_to_number(job[c].range, i))]]
  BY <1>2, Zenon DEF job_available, FirstWaiting
<1>4. i \in Waiting(c)
  <2>1. PICK n : n = job_nframes(job[c].range) - 1
    OBVIOUS
  <2>2. n \in Int /\ Waiting(c) \subseteq 0 .. n
    <3>1. Indices(c) = 0 .. n
      BY <1>1, <2>1, FramesAreOK
    <3>2. job_nframes(job[c].range) \in Nat
      BY FramesCover DEF Forward
    <3> QED BY <2>1, <3>1, <3>2 DEF Waiting
  <2>3. \E k \in Waiting(c) : \A m \in Waiting(c) : k <= m
    BY <1>1, <2>2, FirstIndex
  <2> QED BY <1>2, <2>3, Zenon DEF FirstWaiting
<1>5. i \in Indices(c) /\ Frame(c, i).status = "waiting"
  BY <1>4 DEF Waiting
<1>6. PICK f : f = [Frame(c, i) EXCEPT !.status = "assigned", !.slot = s]
  OBVIOUS
<1>7. f.status = "assigned"
  <2> PICK g : g = Frame(c, i)
    OBVIOUS
  <2>1. g = [status |-> g.status, exit |-> g.exit, requeued |-> g.requeued, slot |-> g.slot]
    BY <1>1, <1>5, FramesAreOK, Zenon DEF FrameOK
  <2> PICK a, e, q, t : a = g.status /\ e = g.exit /\ q = g.requeued /\ t = g.slot
    OBVIOUS
  <2>2. g \in [status : {a}, exit : {e}, requeued : {q}, slot : {t}]
    BY <2>1, Zenon
  <2> QED BY <1>6, <2>2
<1>8. PICK x : x = [held |-> TRUE, job |-> c, exit |-> "none", task |-> Task(job[c].range, i)]
  OBVIOUS
<1>9. x.held = TRUE /\ x.job = c /\ x.exit = "none" /\ x.task = Task(job[c].range, i)
  BY <1>8, SlotFields
<1>10. SlotIs(s, x)
  <2>1. slot' = [slot EXCEPT ![s] = x]
    BY <1>3, <1>8, Zenon DEF Task
  <2> QED BY <1>1, <2>1, SlotBecomes
<1> QED BY <1>1, <1>3, <1>5, <1>6, <1>7, <1>9, <1>10, Zenon

LEMMA MasterScripts ==
  ASSUME IInv, SInv, NEW c \in Clients
  PROVE /\ \A s : job_available(c, s) => SInv'
        /\ \A i : job_check_frame_status(c, i) => SInv'
        /\ handle_r_r_jobsesup(c) => SInv'
<1>1. ASSUME NEW s, job_available(c, s) PROVE SInv'
  <2>1. job[c].queued /\ UNCHANGED <<scripts, client, history>> /\ \E i, f : WithFrame(c, i, f)
    BY <1>1, Zenon DEF job_available
  <2>2. \A d \in Clients : job'[d].queued = job[d].queued
    BY <2>1, JobWith, StillQueued
  <2>3. HappenedTo(c, {})
    BY <2>1, Happening
  <2> QED BY <2>1, <2>2, <2>3, ScriptsStay
<1>2. ASSUME NEW i, job_check_frame_status(c, i) PROVE SInv'
  <2>1. /\ job[c].queued /\ UNCHANGED <<scripts, client>> /\ \E f : WithFrame(c, i, f)
        /\ Happened(c, {"requeued"})
    BY <1>2, Zenon DEF job_check_frame_status
  <2>2. \A d \in Clients : job'[d].queued = job[d].queued
    BY <2>1, JobWith, StillQueued
  <2>3. HappenedTo(c, {"requeued"})
    BY <2>1, Happening
  <2>4. "no template" \notin {"requeued"} /\ \A system \in {Linux, Windows} : system \notin {"requeued"}
    BY NoSystems
  <2> QED BY <2>1, <2>2, <2>3, <2>4, ScriptsStay
<1>3. ASSUME handle_r_r_jobsesup(c) PROVE SInv'
  <2>1. PICK q : /\ job' = [job EXCEPT ![c].range = q,
                             ![c].frames = [i \in 0 .. job_nframes(q) - 1 |-> OldRecord(c, q, i)]]
                 /\ Happened(c, Blocks(q, job[c].range))
    BY <1>3, Zenon DEF handle_r_r_jobsesup, Blocks
  <2>2. job[c].queued /\ UNCHANGED <<scripts, client>>
    BY <1>3 DEF handle_r_r_jobsesup
  <2>3. \A d \in Clients : job'[d].queued = job[d].queued
    BY <2>1, <2>2, RangeWith, StillQueued
  <2>4. HappenedTo(c, Blocks(q, job[c].range))
    BY <2>1, Happening
  <2>5. "no template" \notin Blocks(q, job[c].range)
        /\ \A system \in {Linux, Windows} : system \notin Blocks(q, job[c].range)
    BY NoSystems DEF Blocks
  <2> QED BY <2>2, <2>3, <2>4, <2>5, ScriptsStay
<1> QED BY <1>1, <1>2, <1>3, Zenon

LEMMA LaunchScripts ==
  ASSUME IInv, SInv, NEW s, launch_task(s)
  PROVE SInv'
<1> PICK c, t : c = slot[s].job /\ t = slot[s].task
  OBVIOUS
<1>1. /\ c \in Clients /\ job[c].queued /\ UNCHANGED <<now, scripts, client, job>>
      /\ \E run, exit : Launched(s, c, t, run, exit)
  BY LaunchIs
<1>2. PICK run, exit : Launched(s, c, t, run, exit)
  BY <1>1, Zenon
<1>3. run \in Runs(c, t) /\ HappenedTo(c, IF run.exit = "undefined" THEN {run.system} ELSE {})
  BY <1>2, Zenon DEF Launched
<1> PICK what : what = IF run.exit = "undefined" THEN {run.system} ELSE {}
  OBVIOUS
<1>4. "no template" \notin what
  <2>1. run.exit = "undefined" => run.system \in {Linux, Windows}
    BY <1>1, <1>3, RunBySomeone
  <2> QED BY <2>1, NoSystems
<1>5. ~ Shared(c) => \A system \in {Linux, Windows} :
                       system \in what => Excused(client[c].order, system)
  <2> SUFFICES ASSUME ~ Shared(c), NEW system \in {Linux, Windows}, system \in what
               PROVE Excused(client[c].order, system)
    OBVIOUS
  <2>1. run.exit = "undefined" /\ system = run.system
    OBVIOUS
  <2>2. run.exit = "undefined" => Excused(client[c].order, run.system)
    BY <1>1, <1>3, RunAlone
  <2> QED BY <2>1, <2>2
<1>6. \A d \in Clients : job'[d].queued = job[d].queued
  BY <1>1
<1>7. HappenedTo(c, what)
  BY <1>3
<1>8. UNCHANGED <<scripts, client>>
  BY <1>1
<1> QED BY <1>1, <1>4, <1>5, <1>6, <1>7, <1>8, ScriptsStay

LEMMA ReportScripts ==
  ASSUME IInv, SInv, NEW s, handle_r_r_taskfini(s)
  PROVE SInv'
<1> PICK c : c = slot[s].job
  OBVIOUS
<1>1. s \in DOMAIN slot /\ slot[s].held /\ UNCHANGED <<scripts, client, history>>
  BY DEF handle_r_r_taskfini
<1>2. c \in Clients /\ job[c].queued
  BY <1>1, HeldSlot
<1>3. \A d \in Clients : job'[d].queued = job[d].queued
  <2>1. CASE job' = job
    BY <2>1
  <2>2. CASE job' # job
    <3>1. \E i, f : WithFrame(c, i, f)
      BY <2>2, Zenon DEF handle_r_r_taskfini
    <3> QED BY <1>2, <3>1, JobWith, StillQueued
  <2> QED BY <2>1, <2>2
<1>4. HappenedTo(c, {})
  BY <1>1, <1>2, Happening
<1> QED BY <1>1, <1>2, <1>3, <1>4, ScriptsStay

LEMMA InitScripts == Init => SInv
<1> SUFFICES ASSUME Init PROVE SInv
  OBVIOUS
<1>1. PICK w \in Workloads :
        client = [c \in Clients |->
             [at |-> IF c \in DOMAIN w.orders THEN "starts" ELSE "done",
              order |-> IF c \in DOMAIN w.orders THEN w.orders[c] ELSE <<>>,
              script |-> 1, told |-> "no"]]
  BY Zenon DEF Init
<1>2. /\ scripts = [f \in Files |-> <<>>] /\ job = [c \in Clients |-> NoJob]
      /\ history = [c \in Clients |-> {}]
  BY Zenon DEF Init, Files
<1>3. FilesOK
  <2>1. scripts = [f \in Files |-> scripts[f]]
    BY <1>2, Zenon
  <2>2. ASSUME NEW f \in Files PROVE scripts[f] = <<>> /\ PartsOf(f) = {}
    <3>1. scripts[f] = <<>>
      BY <1>2, Zenon
    <3>2. DOMAIN <<>> = {}
      OBVIOUS
    <3> QED BY <3>1, <3>2 DEF PartsOf
  <2>3. \A f \in Files : scripts[f] \in Seq(PartsOf(f))
    BY <2>2, EmptySeq
  <2> QED BY <2>1, <2>2, <2>3 DEF FilesOK
<1>4. ASSUME NEW c \in Clients PROVE WriterOK(c)
  <2> PICK a, o : /\ a = IF c \in DOMAIN w.orders THEN "starts" ELSE "done"
                  /\ o = IF c \in DOMAIN w.orders THEN w.orders[c] ELSE <<>>
    OBVIOUS
  <2>1. client[c] = [at |-> a, order |-> o, script |-> 1, told |-> "no"]
    BY <1>1, Zenon
  <2>2. client[c].at = a /\ client[c].order = o /\ client[c].script = 1
    BY <2>1
  <2>3. ~ job[c].queued
    BY <1>2 DEF NoJob
  <2>4. 1 \in Seconds
    BY BoundsAssumption DEF Seconds
  <2>5. a = "starts" \/ a = "done"
    OBVIOUS
  <2>6. a # "done" => Known(o)
    <3> SUFFICES ASSUME a # "done" PROVE Known(o)
      OBVIOUS
    <3>1. c \in DOMAIN w.orders /\ o = w.orders[c]
      OBVIOUS
    <3> QED BY <3>1, Zenon DEF Known
  <2> QED BY <2>2, <2>3, <2>4, <2>5, <2>6 DEF WriterOK, Wrote
<1>5. HistoryOK
  BY <1>2 DEF HistoryOK
<1>6. NamesOK
  BY <1>2 DEF NamesOK
<1> QED BY <1>3, <1>4, <1>5, <1>6, Zenon DEF SInv

LEMMA StepScripts == IInv /\ SInv /\ [Next]_vars => SInv'
<1> SUFFICES ASSUME IInv, SInv, [Next]_vars PROVE SInv'
  OBVIOUS
<1>1. ASSUME UNCHANGED <<scripts, client, job, history>> PROVE SInv'
  <2>1. /\ history' = [d \in Clients |-> history'[d]]
        /\ \A d \in Clients : history'[d] = history[d]
    BY <1>1, Zenon DEF SInv, HistoryOK
  <2>2. \A d \in Clients : ~ Shared(d) =>
          \A system \in {Linux, Windows} :
            system \in history'[d] => system \in history[d] \/ Excused(client[d].order, system)
    BY <2>1
  <2>3. \A d \in Clients : job'[d].queued = job[d].queued
    BY <1>1
  <2> QED BY <1>1, <2>1, <2>2, <2>3, ScriptsAlone
<1>2. CASE Tick
  BY <1>1, <1>2 DEF Tick
<1>3. CASE UNCHANGED vars
  BY <1>1, <1>3 DEF vars
<1>4. ASSUME NEW c \in Clients, ScriptRefused(c) PROVE SInv'
  <2>1. client[c].at = "starts" /\ Refused(c) /\ UNCHANGED <<scripts, job, history>>
    BY <1>4, Zenon DEF ScriptRefused, At
  <2>2. MovesTo(c, "done", client[c].script)
    BY <2>1, ClientMoves
  <2> QED BY <2>1, <2>2, GivesUp
<1>5. ASSUME NEW c \in Clients,
             \/ xxxsg_create(c) \/ ScriptRefused(c) \/ OwnCommand(c)
             \/ jobscript_set_variable(c) \/ jobscript_template_write(c) \/ register_job(c)
             \/ handle_r_r_jobsesup(c)
             \/ \E s \in Slots : job_available(c, s)
             \/ \E i \in 0 .. MaxFrames - 1 : job_check_frame_status(c, i)
      PROVE SInv'
  BY <1>4, <1>5, CreateScript, OwnScript, SetVariables, WriteTemplate, RegisterScripts,
     MasterScripts, Zenon
<1>6. ASSUME NEW s, launch_task(s) \/ handle_r_r_taskfini(s) PROVE SInv'
  BY <1>6, LaunchScripts, ReportScripts, Zenon
<1> QED BY <1>2, <1>3, <1>5, <1>6, Zenon DEF Next

LEMMA NamesFollow == SInv => NamesAreSet
<1> SUFFICES ASSUME SInv, NEW c \in Clients, Has(c, Systems), ~ Shared(c)
             PROVE LET order == client[c].order
                   IN  \/ HalfSize(order)
                       \/ order.engine = "maya" /\ "RENDERER" \notin order.given
                       \/ order.engine = "mentalray" /\ order.kind = "single image"
                       \/ order.engine \in LacksOnWindows /\ Linux \notin history[c]
  BY Zenon DEF NamesAreSet
<1>1. \A system \in {Linux, Windows} : system \in history[c] => Excused(client[c].order, system)
  BY Zenon DEF SInv, NamesOK
<1>2. Linux \in history[c] \/ Windows \in history[c]
  BY FilesAssumption DEF Has
<1>3. Linux # Windows
  BY DEF Linux, Windows
<1>4. CASE Linux \in history[c]
  <2>1. Excused(client[c].order, Linux)
    BY <1>1, <1>4
  <2> QED BY <2>1, <1>3, Zenon DEF Excused
<1>5. CASE Linux \notin history[c]
  <2>1. Excused(client[c].order, Windows)
    BY <1>1, <1>2, <1>5
  <2> QED BY <2>1, <1>5, Zenon DEF Excused
<1> QED BY <1>4, <1>5

(* The generators set every name the templates read (jobscript.c:43, the   *)
(* generators of libdrqueue, the templates of etc), for any clients that   *)
(* share the files of a second, any slaves and any orders of known engines.*)
THEOREM GeneratorsSetEveryName == Spec => []NamesAreSet
<1>1. Init => IInv /\ SInv
  BY InitOK, InitScripts
<1>2. IInv /\ SInv /\ [Next]_vars => (IInv /\ SInv)'
  BY StepOK, StepScripts
<1>3. IInv /\ SInv => NamesAreSet
  BY NamesFollow
<1> QED BY <1>1, <1>2, <1>3, PTL DEF Spec

----------------------------------------------------------------------------
(* What a step leaves alone.                                               *)
LEMMA AloneOn ==
  ASSUME NEW o, NEW r, NEW F, NEW h, NEW rd, NEW S, NEW X, NEW Y, \A s \in S : Y[s] = X[s],
         Alone(o, r, F, h, rd, S, X)
  PROVE Alone(o, r, F, h, rd, S, Y)
<1>1. DoneGood(r, F, rd, S, X) => DoneGood(r, F, rd, S, Y)
  BY Zenon DEF DoneGood
<1>2. OnceGood(r, F, rd, S, X) => OnceGood(r, F, rd, S, Y)
  BY Zenon DEF OnceGood
<1> QED BY <1>1, <1>2, Zenon DEF Alone

LEMMA GoodThen ==
  ASSUME NEW c, NEW o, NEW r, NEW F, NEW h, NEW rd, NEW S, NEW X,
         client'[c].order = o, job'[c].range = r, job'[c].frames = F, history'[c] = h,
         rendered'[c] = rd, X = slot',
         \A s : s \in S <=> s \in DOMAIN slot' /\ slot'[s].held /\ slot'[s].job = c,
         Placed(o, r, F, h, S, X), ~ Shared(c)' => Alone(o, r, F, h, rd, S, X)
  PROVE JobGood(c)'
<1>1. Mine(c)' = {s \in DOMAIN slot' : slot'[s].held /\ slot'[s].job = c}
  BY Zenon DEF Mine, Holds
<1>2. Mine(c)' = S
  BY <1>1
<1>3. /\ Placed(client'[c].order, job'[c].range, job'[c].frames, history'[c], Mine(c)', slot')
      /\ ~ Shared(c)' => Alone(client'[c].order, job'[c].range, job'[c].frames, history'[c],
                               rendered'[c], Mine(c)', slot')
  BY <1>2, Zenon
<1> QED BY <1>3, Zenon DEF JobGood

LEMMA MineIs ==
  \A c, s : s \in Mine(c) <=> s \in DOMAIN slot /\ slot[s].held /\ slot[s].job = c
  BY DEF Mine, Holds

LEMMA Untouched ==
  ASSUME NEW d \in Clients, JobGood(d), FreshOK(d),
         job'[d] = job[d], client'[d] = client[d], history'[d] = history[d],
         Shared(d) => Shared(d)',
         ~ Shared(d) \/ client[d].at \in {"starts", "open"} => rendered'[d] = rendered[d],
         \A s : s \in Mine(d) => slot'[s] = slot[s],
         \A s : s \in Mine(d) <=> s \in DOMAIN slot' /\ slot'[s].held /\ slot'[s].job = d
  PROVE JobGood(d)' /\ FreshOK(d)'
<1>1. ASSUME job[d].queued PROVE JobGood(d)'
  <2> PICK o, r, F, h, rd, S, X, Y :
        /\ o = client[d].order /\ r = job[d].range /\ F = job[d].frames /\ h = history[d]
        /\ rd = rendered'[d] /\ S = Mine(d) /\ X = slot /\ Y = slot'
    OBVIOUS
  <2>1. /\ Placed(o, r, F, h, S, X)
        /\ ~ Shared(d) => Alone(o, r, F, h, rendered[d], S, X)
    BY <1>1, Zenon DEF JobGood
  <2>2. \A s \in S : Y[s] = X[s]
    OBVIOUS
  <2>3. Placed(o, r, F, h, S, Y)
    <3>1. \A s \in S : TaskGood(o, r, h, Y[s].task)
      <4>1. \A s \in S : TaskGood(o, r, h, X[s].task)
        BY <2>1, Zenon DEF Placed
      <4> QED BY <4>1, <2>2, Zenon
    <3> QED BY <2>1, <3>1, Zenon DEF Placed
  <2>4. ~ Shared(d)' => Alone(o, r, F, h, rd, S, Y)
    <3> SUFFICES ASSUME ~ Shared(d)' PROVE Alone(o, r, F, h, rd, S, Y)
      OBVIOUS
    <3>1. rd = rendered[d] /\ ~ Shared(d)
      OBVIOUS
    <3>2. Alone(o, r, F, h, rd, S, X)
      BY <2>1, <3>1
    <3> QED BY <2>2, <3>2, AloneOn
  <2>5. /\ client'[d].order = o /\ job'[d].range = r /\ job'[d].frames = F /\ history'[d] = h
        /\ rendered'[d] = rd /\ Y = slot'
    OBVIOUS
  <2>6. \A s : s \in S <=> s \in DOMAIN slot' /\ slot'[s].held /\ slot'[s].job = d
    OBVIOUS
  <2> QED BY <2>3, <2>4, <2>5, <2>6, GoodThen
<1>2. ASSUME ~ job[d].queued PROVE JobGood(d)'
  BY <1>2 DEF JobGood
<1>3. FreshOK(d)'
  <2> SUFFICES ASSUME client'[d].at \in {"starts", "open"} \/ (~ job'[d].queued /\ ~ Shared(d)')
               PROVE \A n \in FrameNumbersUsed : rendered'[d][n] = 0
    BY Zenon DEF FreshOK, FrameNumbersUsed
  <2>1. client[d].at \in {"starts", "open"} \/ (~ job[d].queued /\ ~ Shared(d))
    OBVIOUS
  <2>2. rendered'[d] = rendered[d]
    BY <2>1
  <2> QED BY <2>1, <2>2 DEF FreshOK
<1> QED BY <1>1, <1>2, <1>3

(* What is rendered by others.                                             *)
LEMMA NotRendered ==
  ASSUME SInv, NEW d \in Clients, job[d].queued, NEW t, NEW run \in Runs(d, t),
         NEW c \in Clients \ {d}, ~ Shared(c) \/ client[c].at \in {"starts", "open"}
  PROVE \A n : Times(run, c, n) = 0
<1>1. \A k \in DOMAIN run.rendered : run.rendered[k].of # c
  <2>1. CASE Own(d)
    <3>1. PICK bad \in BOOLEAN : run = OwnRun(d, t, bad)
      BY <2>1, RunBySomeone
    <3> PICK P : P = PadFrames(t)
      OBVIOUS
    <3>2. run.rendered = IF bad THEN <<>> ELSE <<[of |-> d, frames |-> P]>>
      BY <3>1 DEF OwnRun
    <3>3. \A k \in DOMAIN <<[of |-> d, frames |-> P]>> : <<[of |-> d, frames |-> P]>>[k].of = d
      OBVIOUS
    <3>4. DOMAIN <<>> = {}
      OBVIOUS
    <3> QED BY <3>2, <3>3, <3>4
  <2>2. CASE ~ Own(d)
    <3> PICK A : A = WritersOf(d)
      OBVIOUS
    <3> PICK f : f = client[d].script
      OBVIOUS
    <3>1. c \notin A
      <4> SUFFICES ASSUME c \in A PROVE FALSE
        OBVIOUS
      <4>1. PICK p \in PartsOf(f) : p.by = c
        BY <2>2 DEF WritersOf
      <4>2. /\ f \in Files /\ \E q \in PartsOf(f) : q.by = d
        <5>1. WriterOK(d) /\ Wrote(d)
          BY Zenon DEF SInv, Wrote
        <5> QED BY <5>1 DEF WriterOK, Files
      <4>3. client[c].script = f /\ client[c].at \notin {"starts", "open"}
        BY <4>1, <4>2, Zenon DEF SInv, FilesOK
      <4>4. \E q \in PartsOf(client[c].script) : q.by # c
        BY <4>2, <4>3
      <4>5. Shared(c)
        BY <4>4, SharedParts
      <4> QED BY <4>3, <4>5
    <3>2. run.rendered \in Seq([of : A, frames : Painted(t)])
      <4>1. RunBy(A, t, run)
        BY <2>2, RunBySomeone
      <4> QED BY <4>1, Zenon DEF RunBy
    <3> PICK R, g : R = [of : A, frames : Painted(t)] /\ g = run.rendered
      OBVIOUS
    <3>3. \A k \in DOMAIN g : g[k] \in R
      <4>1. DOMAIN g = 1 .. Len(g)
        BY <3>2, LenProperties
      <4> QED BY <3>2, <4>1, ElementOfSeq
    <3>4. \A x \in R : x.of \in A
      OBVIOUS
    <3> QED BY <3>1, <3>3, <3>4
  <2> QED BY <2>1, <2>2
<1>2. ASSUME NEW n PROVE Times(run, c, n) = 0
  <2>1. {k \in DOMAIN run.rendered : run.rendered[k].of = c /\ n \in run.rendered[k].frames} = {}
    BY <1>1
  <2>2. Cardinality({}) = 0
    BY FS_EmptySet
  <2> QED BY <2>1, <2>2 DEF Times
<1> QED BY <1>2

LEMMA CappedStays == \A m \in 0 .. 2 : Capped(m + 0) = m
  BY DEF Capped

LEMMA OthersRendered ==
  ASSUME IInv, SInv, NEW s, NEW d \in Clients, job[d].queued, NEW t, NEW run, NEW exit,
         Launched(s, d, t, run, exit),
         NEW c \in Clients \ {d}, ~ Shared(c) \/ client[c].at \in {"starts", "open"}
  PROVE rendered'[c] = rendered[c]
<1>1. /\ run \in Runs(d, t)
      /\ rendered' =
           IF run.rendered = <<>> THEN rendered
           ELSE [e \in Clients |-> [n \in FrameNumbersUsed |->
                   Capped(rendered[e][n] + Times(run, e, n))]]
  BY Zenon DEF Launched
<1>2. \A n : Times(run, c, n) = 0
  BY <1>1, NotRendered
<1>3. CASE run.rendered = <<>>
  BY <1>1, <1>3
<1>4. CASE run.rendered # <<>>
  <2> PICK rd : rd = rendered[c]
    OBVIOUS
  <2>1. rendered'[c] = [n \in FrameNumbersUsed |-> Capped(rd[n] + Times(run, c, n))]
    BY <1>1, <1>4, Zenon
  <2>2. rd \in [FrameNumbersUsed -> 0 .. 2]
    BY Zenon DEF IInv, RenderedOK
  <2>3. \A n \in FrameNumbersUsed : Capped(rd[n] + Times(run, c, n)) = rd[n]
    BY <1>2, <2>2, CappedStays
  <2>4. rendered'[c] = [n \in FrameNumbersUsed |-> rd[n]]
    BY <2>1, <2>3, Zenon
  <2> QED BY <2>2, <2>4, Zenon
<1> QED BY <1>3, <1>4

LEMMA OwnRendered ==
  ASSUME IInv, NEW s, NEW c \in Clients, NEW t, NEW run, NEW exit,
         Launched(s, c, t, run, exit)
  PROVE /\ run.rendered = <<>> => rendered'[c] = Rendering(rendered[c], {})
        /\ \A P : Rendered(run, c, P) => rendered'[c] = Rendering(rendered[c], P)
<1> PICK rd : rd = rendered[c]
  OBVIOUS
<1>1. rd \in [FrameNumbersUsed -> 0 .. 2]
  BY Zenon DEF IInv, RenderedOK
<1>2. rendered' =
        IF run.rendered = <<>> THEN rendered
        ELSE [e \in Clients |-> [n \in FrameNumbersUsed |->
                Capped(rendered[e][n] + Times(run, e, n))]]
  BY Zenon DEF Launched
<1>3. CASE run.rendered = <<>>
  <2>1. Rendering(rd, {}) = rd
    <3>1. Rendering(rd, {}) = [n \in FrameNumbersUsed |-> rd[n]]
      BY Zenon DEF Rendering
    <3> QED BY <1>1, <3>1, Zenon
  <2>2. \A P : ~ Rendered(run, c, P)
    <3> SUFFICES ASSUME NEW P, Rendered(run, c, P) PROVE FALSE
      OBVIOUS
    <3>1. <<>> = <<[of |-> c, frames |-> P]>>
      BY <1>3 DEF Rendered
    <3> QED BY <3>1
  <2> QED BY <1>2, <1>3, <2>1, <2>2
<1>4. ASSUME NEW P, Rendered(run, c, P) PROVE rendered'[c] = Rendering(rd, P)
  <2> PICK e : e = [of |-> c, frames |-> P]
    OBVIOUS
  <2>1. run.rendered = <<e>> /\ e.of = c /\ e.frames = P
    BY <1>4 DEF Rendered
  <2>2. <<e>> # <<>> /\ DOMAIN <<e>> = {1} /\ <<e>>[1] = e
    OBVIOUS
  <2>3. ASSUME NEW n PROVE Times(run, c, n) = IF n \in P THEN 1 ELSE 0
    <3> PICK K : K = {k \in DOMAIN run.rendered : run.rendered[k].of = c /\ n \in run.rendered[k].frames}
      OBVIOUS
    <3>1. K = IF n \in P THEN {1} ELSE {}
      BY <2>1, <2>2
    <3>2. Cardinality({}) = 0 /\ Cardinality({1}) = 1
      BY FS_EmptySet, FS_Singleton
    <3>3. Times(run, c, n) = Cardinality(K)
      BY Zenon DEF Times
    <3> QED BY <3>1, <3>2, <3>3
  <2>4. rendered'[c] = [n \in FrameNumbersUsed |-> Capped(rd[n] + Times(run, c, n))]
    BY <1>2, <2>1, <2>2, Zenon
  <2>5. \A n \in FrameNumbersUsed :
          Capped(rd[n] + Times(run, c, n)) = IF n \in P THEN Capped(rd[n] + 1) ELSE rd[n]
    BY <1>1, <2>3, CappedStays
  <2>6. rendered'[c] = [n \in FrameNumbersUsed |-> IF n \in P THEN Capped(rd[n] + 1) ELSE rd[n]]
    BY <2>4, <2>5, Zenon
  <2> QED BY <2>6, Zenon DEF Rendering
<1> QED BY <1>2, <1>3, <1>4

----------------------------------------------------------------------------
(* The jobs, step by step: the clients.                                    *)
LEMMA PartsPrimed ==
  \A f : /\ PartsOf(f)' = {scripts'[f][k] : k \in DOMAIN scripts'[f]}
         /\ PartsOf(f) = {scripts[f][k] : k \in DOMAIN scripts[f]}
  BY DEF PartsOf

LEMMA SharedMore ==
  ASSUME NEW d, NEW f, f = client[d].script, client'[d].script = f, PartsOf(f) \subseteq PartsOf(f)'
  PROVE Shared(d) => Shared(d)'
<1> SUFFICES ASSUME Shared(d) PROVE Shared(d)'
  OBVIOUS
<1>1. PICK p \in PartsOf(f) : p.by # d
  BY SharedParts
<1>2. \E q \in PartsOf(f)' : q.by # d
  BY <1>1
<1> QED BY <1>2, PartsThen

LEMMA FileGrows ==
  ASSUME SInv, NEW c \in Clients, NEW p, Append1(c, p), client[c].script \in Files
  PROVE \A g \in Files : PartsOf(g) \subseteq PartsOf(g)'
<1> PICK f : f = client[c].script
  OBVIOUS
<1>1. scripts' = [scripts EXCEPT ![f] = Append(scripts[f], p)]
  BY Zenon DEF Append1
<1>2. scripts = [g \in Files |-> scripts[g]]
  BY Zenon DEF SInv, FilesOK
<1>3. scripts'[f] = Append(scripts[f], p) /\ \A g \in Files \ {f} : scripts'[g] = scripts[g]
  BY <1>1, <1>2, Zenon
<1>4. PartsOf(f) \subseteq PartsOf(f)'
  <2> PICK s, s2 : s = scripts[f] /\ s2 = scripts'[f]
    OBVIOUS
  <2>1. s \in Seq(PartsOf(f))
    BY Zenon DEF SInv, FilesOK
  <2>2. LET B == {s[k] : k \in DOMAIN s}
            C == {s2[k] : k \in DOMAIN s2}
        IN  C = B \cup {p} /\ s2 \in Seq(C)
    <3>1. s2 = Append(s, p)
      BY <1>3
    <3> QED BY <2>1, <3>1, AppendedParts, SMTT(30)
  <2> PICK B, C : B = {s[k] : k \in DOMAIN s} /\ C = {s2[k] : k \in DOMAIN s2}
    OBVIOUS
  <2>3. B \subseteq C
    BY <2>2, Zenon
  <2>4. PartsOf(f) = B /\ PartsOf(f)' = C
    BY PartsPrimed, Zenon
  <2> QED BY <2>3, <2>4, Zenon
<1>5. \A g \in Files \ {f} : PartsOf(g)' = PartsOf(g)
  BY <1>3 DEF PartsOf
<1> QED BY <1>4, <1>5

LEMMA FreshStays ==
  ASSUME IInv, GInv, NEW c \in Clients, client[c].at # "done", job'[c].queued = job[c].queued,
         rendered' = rendered,
         \/ client[c].at \in {"starts", "open"}
         \/ client'[c].at \notin {"starts", "open"} /\ (Shared(c) => Shared(c)')
  PROVE JobGood(c)' /\ FreshOK(c)'
<1>1. ~ job[c].queued /\ ~ job'[c].queued
  BY AtWork
<1>2. JobGood(c)'
  BY <1>1 DEF JobGood
<1>3. FreshOK(c)
  BY DEF GInv
<1>4. FreshOK(c)'
  <2> SUFFICES ASSUME client'[c].at \in {"starts", "open"} \/ (~ job'[c].queued /\ ~ Shared(c)')
               PROVE \A n \in FrameNumbersUsed : rendered'[c][n] = 0
    BY Zenon DEF FreshOK, FrameNumbersUsed
  <2>1. client[c].at \in {"starts", "open"} \/ (~ job[c].queued /\ ~ Shared(c))
    BY <1>1
  <2> QED BY <2>1, <1>3 DEF FreshOK
<1> QED BY <1>2, <1>4

(* A client moves, the jobs stay.                                          *)
LEMMA ClientJobs ==
  ASSUME IInv, SInv, GInv, NEW c \in Clients, UNCHANGED <<job, slot, rendered>>,
         client[c].at # "done",
         \/ client[c].at \in {"starts", "open"}
         \/ /\ client'[c].script = client[c].script /\ client'[c].at \notin {"starts", "open"},
         \A d \in Clients \ {c} : client'[d] = client[d] /\ history'[d] = history[d],
         \A d \in Clients : \/ d = c /\ client[c].at = "starts"
                            \/ PartsOf(client[d].script) \subseteq {scripts'[client[d].script][k] :
                                                    k \in DOMAIN scripts'[client[d].script]}
  PROVE GInv'
<1>1. ASSUME NEW d \in Clients \ {c} PROVE JobGood(d)' /\ FreshOK(d)'
  <2>1. Shared(d) => Shared(d)'
    <3> PICK f : f = client[d].script
      OBVIOUS
    <3>1. PartsOf(f) \subseteq PartsOf(f)'
      <4>1. PartsOf(f) \subseteq {scripts'[f][k] : k \in DOMAIN scripts'[f]}
        BY Zenon
      <4> QED BY <4>1, PartsPrimed, Zenon
    <3>2. client'[d].script = f
      OBVIOUS
    <3> QED BY <3>1, <3>2, SharedMore
  <2>2. JobGood(d) /\ FreshOK(d)
    BY DEF GInv
  <2>3. \A s : s \in Mine(d) <=> s \in DOMAIN slot' /\ slot'[s].held /\ slot'[s].job = d
    BY MineIs
  <2>4. /\ job'[d] = job[d] /\ client'[d] = client[d] /\ history'[d] = history[d]
        /\ rendered'[d] = rendered[d] /\ \A s : s \in Mine(d) => slot'[s] = slot[s]
    OBVIOUS
  <2> QED BY <2>1, <2>2, <2>3, <2>4, Untouched
<1>2. JobGood(c)' /\ FreshOK(c)'
  <2>1. CASE client[c].at \in {"starts", "open"}
    BY <2>1, FreshStays
  <2>2. CASE ~ client[c].at \in {"starts", "open"}
    <3> PICK f : f = client[c].script
      OBVIOUS
    <3>3. client'[c].script = f /\ client'[c].at \notin {"starts", "open"}
      BY <2>2
    <3>1. PartsOf(f) \subseteq PartsOf(f)'
      <4>1. PartsOf(f) \subseteq {scripts'[f][k] : k \in DOMAIN scripts'[f]}
        BY <2>2
      <4> QED BY <4>1, PartsPrimed, Zenon
    <3>2. Shared(c) => Shared(c)'
      BY <3>1, <3>3, SharedMore
    <3> QED BY <3>2, <3>3, FreshStays
  <2> QED BY <2>1, <2>2
<1> QED BY <1>1, <1>2, Zenon DEF GInv

LEMMA PartsKept == scripts' = scripts => \A f : PartsOf(f) \subseteq {scripts'[f][k] : k \in DOMAIN scripts'[f]}
  BY DEF PartsOf

LEMMA ClientsJobs ==
  ASSUME IInv, SInv, GInv, NEW c \in Clients,
         \/ xxxsg_create(c) \/ ScriptRefused(c) \/ OwnCommand(c)
         \/ jobscript_set_variable(c) \/ jobscript_template_write(c)
  PROVE GInv'
<1>1. CASE xxxsg_create(c) \/ ScriptRefused(c)
  <2>1. /\ client[c].at = "starts" /\ UNCHANGED <<scripts, job, slot, rendered, history>>
        /\ Writes(c, "open") \/ Refused(c)
    BY <1>1, Zenon DEF xxxsg_create, ScriptRefused, At
  <2>2. \A d \in Clients \ {c} : client'[d] = client[d]
    BY <2>1, ClientMoves, Zenon DEF MovesTo
  <2>3. \A d \in Clients : PartsOf(client[d].script) \subseteq {scripts'[client[d].script][k] :
                                                    k \in DOMAIN scripts'[client[d].script]}
    BY <2>1, PartsKept
  <2>4. \A d \in Clients \ {c} : client'[d] = client[d] /\ history'[d] = history[d]
    BY <2>1, <2>2
  <2>5. client[c].at # "done" /\ client[c].at \in {"starts", "open"}
    BY <2>1
  <2> QED BY <2>1, <2>3, <2>4, <2>5, ClientJobs
<1>2. CASE OwnCommand(c)
  <2>1. /\ client[c].at = "starts" /\ UNCHANGED <<job, slot, rendered, history>>
        /\ Writes(c, "closed") /\ scripts' = [scripts EXCEPT ![c] = <<Body(c, "own")>>]
    BY <1>2, Zenon DEF OwnCommand, At
  <2>2. \A d \in Clients \ {c} : client'[d] = client[d]
    BY <2>1, ClientMoves, Zenon DEF MovesTo
  <2>3. ASSUME NEW d \in Clients \ {c}
        PROVE PartsOf(client[d].script) \subseteq {scripts'[client[d].script][k] :
                                                    k \in DOMAIN scripts'[client[d].script]}
    <3> PICK f : f = client[d].script
      OBVIOUS
    <3>1. f \in Seconds \cup {d}
      BY Zenon DEF SInv, WriterOK
    <3>2. f \in Files /\ f # c
      BY <3>1, FilesAssumption DEF Files
    <3>3. scripts = [g \in Files |-> scripts[g]]
      BY Zenon DEF SInv, FilesOK
    <3>4. scripts'[f] = scripts[f]
      BY <2>1, <3>2, <3>3, Zenon
    <3> QED BY <3>4 DEF PartsOf
  <2>4. \A d \in Clients : \/ d = c /\ client[c].at = "starts"
                           \/ PartsOf(client[d].script) \subseteq {scripts'[client[d].script][k] :
                                                   k \in DOMAIN scripts'[client[d].script]}
    BY <2>1, <2>3
  <2>5. \A d \in Clients \ {c} : client'[d] = client[d] /\ history'[d] = history[d]
    BY <2>1, <2>2
  <2>6. client[c].at # "done" /\ client[c].at \in {"starts", "open"}
    BY <2>1
  <2> QED BY <2>1, <2>4, <2>5, <2>6, ClientJobs
<1>3. CASE jobscript_set_variable(c) \/ jobscript_template_write(c)
  <2>1. /\ client[c].at \in {"open", "named"} /\ UNCHANGED <<job, slot, rendered>>
        /\ \E p : Append1(c, p)
        /\ Refused(c) \/ Moved(c, "named") \/ Moved(c, "closed")
        /\ history' = history \/ Happened(c, {"no template"})
    <3>1. CASE jobscript_set_variable(c)
      <4>1. /\ At(c, "open") /\ UNCHANGED <<now, job, slot, rendered>> /\ \E p : Append1(c, p)
            /\ Refused(c) \/ Moved(c, "named") \/ Moved(c, "closed")
            /\ history' = history \/ Happened(c, {"no template"})
        BY <3>1, Zenon DEF jobscript_set_variable
      <4> QED BY <4>1 DEF At
    <3>2. CASE jobscript_template_write(c)
      <4>1. /\ At(c, "named") /\ UNCHANGED <<now, job, slot, rendered, history>>
            /\ \E p : Append1(c, p) /\ Moved(c, "closed")
        BY <3>2, Zenon DEF jobscript_template_write
      <4> QED BY <4>1 DEF At
    <3> QED BY <1>3, <3>1, <3>2
  <2>2. \E a \in {"named", "closed", "done"} : MovesTo(c, a, client[c].script)
    <3>1. \A a \in {"named", "closed"} : Moved(c, a) => MovesTo(c, a, client[c].script)
      BY ClientMoves
    <3>2. Refused(c) => MovesTo(c, "done", client[c].script)
      BY ClientMoves
    <3> QED BY <2>1, <3>1, <3>2
  <2>3. PICK a \in {"named", "closed", "done"} : MovesTo(c, a, client[c].script)
    BY <2>2
  <2>4. /\ client'[c].at = a /\ client'[c].script = client[c].script
        /\ \A d \in Clients \ {c} : client'[d] = client[d]
    BY <2>3, Zenon DEF MovesTo
  <2>5. \A d \in Clients \ {c} : history'[d] = history[d]
    <3>1. \E what : HappenedTo(c, what)
      BY <2>1, Happening
    <3> QED BY <3>1, Zenon DEF HappenedTo
  <2>6. ASSUME NEW d \in Clients
        PROVE PartsOf(client[d].script) \subseteq {scripts'[client[d].script][k] :
                                                    k \in DOMAIN scripts'[client[d].script]}
    <3>1. \A e \in Clients : client[e].script \in Files
      <4>1. \A e \in Clients : client[e].script \in Seconds \cup {e}
        BY Zenon DEF SInv, WriterOK
      <4> QED BY <4>1 DEF Files
    <3>2. \A g \in Files : PartsOf(g) \subseteq PartsOf(g)'
      BY <2>1, <3>1, FileGrows
    <3> PICK f : f = client[d].script
      OBVIOUS
    <3>3. PartsOf(f) \subseteq PartsOf(f)'
      BY <3>1, <3>2
    <3>4. PartsOf(f)' = {scripts'[f][k] : k \in DOMAIN scripts'[f]}
      BY DEF PartsOf
    <3> QED BY <3>3, <3>4
  <2>7. client[c].at # "done" /\ client'[c].at \notin {"starts", "open"}
    BY <2>1, <2>4
  <2>8. \A d \in Clients \ {c} : client'[d] = client[d] /\ history'[d] = history[d]
    BY <2>4, <2>5
  <2> QED BY <2>1, <2>4, <2>6, <2>7, <2>8, ClientJobs
<1> QED BY <1>1, <1>2, <1>3

----------------------------------------------------------------------------
(* The jobs, step by step: the master.                                     *)
LEMMA RangesForward ==
  ASSUME NoBackwards, NEW o, Known(o), Sane(o), NEW r \in RangesOf(o), FitsMemory(job_nframes(r))
  PROVE Forward(r)
<1>1. PICK w \in Workloads : \E c \in DOMAIN w.orders : o = w.orders[c]
  BY Zenon DEF Known
<1>2. PICK c \in DOMAIN w.orders : o = w.orders[c]
  BY <1>1
<1>3. r.start <= r.end
  BY <1>2, Zenon DEF NoBackwards
<1>4. InNumbers(r)
  BY Zenon DEF RangesOf, Sane, Origin
<1>5. job_nframes(r) # 0
  BY DEF FitsMemory
<1> QED BY <1>3, <1>4, <1>5 DEF Forward

LEMMA SharedKept ==
  ASSUME NEW d, client'[d].script = client[d].script, scripts' = scripts
  PROVE Shared(d)' <=> Shared(d)
  BY DEF Shared

LEMMA QueuedOrder ==
  ASSUME IInv, SInv, NEW c \in Clients, job[c].queued \/ client[c].at # "done"
  PROVE Known(client[c].order) /\ Sane(client[c].order)
<1>1. ClientOK(c) /\ WriterOK(c)
  BY Zenon DEF IInv, ClientsOK, SInv
<1> QED BY <1>1, Zenon DEF ClientOK, WriterOK

LEMMA RegisterJobs ==
  ASSUME NoBackwards, IInv, SInv, GInv, NEW c \in Clients, register_job(c)
  PROVE GInv'
<1> PICK o : o = client[c].order
  OBVIOUS
<1> PICK r : r = Origin(o)
  OBVIOUS
<1> PICK n : n = job_nframes(r)
  OBVIOUS
<1>1. client[c].at = "closed" /\ UNCHANGED <<now, scripts, slot, rendered, history>>
  BY Zenon DEF register_job, At
<1>2. CASE FitsMemory(n)
  <2> PICK g : g = [i \in 0 .. n - 1 |-> NewFrame]
    OBVIOUS
  <2>1. /\ job' = [job EXCEPT ![c] = [queued |-> TRUE, range |-> r, frames |-> g]]
        /\ \E t : client' = [client EXCEPT ![c].at = "done", ![c].told = t]
    BY <1>2, Zenon DEF register_job, Origin
  <2>2. JobIs(c, r, g)
    BY <2>1, JobReplaced
  <2>3. MovesTo(c, "done", client[c].script)
    BY <2>1, ClientMoves
  <2>4. /\ client'[c].at = "done" /\ client'[c].order = o
        /\ client'[c].script = client[c].script
        /\ \A d \in Clients \ {c} : client'[d] = client[d]
    BY <2>3, Zenon DEF MovesTo
  <2>5. /\ job'[c].queued = TRUE /\ job'[c].range = r /\ job'[c].frames = g
        /\ \A d \in Clients \ {c} : job'[d] = job[d]
    BY <2>2, Zenon DEF JobIs
  <2>6. ~ job[c].queued
    BY <1>1, AtWork
  <2>7. ASSUME NEW d \in Clients \ {c} PROVE JobGood(d)' /\ FreshOK(d)'
    <3>1. JobGood(d) /\ FreshOK(d)
      BY DEF GInv
    <3>2. Shared(d) => Shared(d)'
      BY <1>1, <2>4, SharedKept
    <3>3. \A s : s \in Mine(d) <=> s \in DOMAIN slot' /\ slot'[s].held /\ slot'[s].job = d
      BY <1>1, MineIs
    <3>4. /\ job'[d] = job[d] /\ client'[d] = client[d] /\ history'[d] = history[d]
          /\ rendered'[d] = rendered[d] /\ \A s : s \in Mine(d) => slot'[s] = slot[s]
      BY <1>1, <2>4, <2>5
    <3> QED BY <3>1, <3>2, <3>3, <3>4, Untouched
  <2>8. JobGood(c)'
    <3> PICK h, rd, X : h = history[c] /\ rd = rendered[c] /\ X = slot
      OBVIOUS
    <3>1. Forward(r)
      <4>1. Known(o) /\ Sane(o)
        BY <1>1, QueuedOrder
      <4>2. r \in RangesOf(o)
        BY DEF RangesOf
      <4> QED BY <1>2, <4>1, <4>2, RangesForward
    <3>2. h \cap {"updated", "reblocked"} = {}
      <4>1. h \subseteq {"no template"}
        BY <2>6, Zenon DEF SInv, HistoryOK
      <4> QED BY <4>1, NoSystems
    <3> PICK S : S = {}
      OBVIOUS
    <3>3. /\ Placed(o, r, g, h, S, X)
          /\ (\A m \in FrameNumbersUsed : rd[m] = 0) => Alone(o, r, g, h, rd, S, X)
      BY <3>1, <3>2, RegisterGood
    <3>4. ~ Shared(c)' => Alone(o, r, g, h, rd, S, X)
      <4> SUFFICES ASSUME ~ Shared(c)' PROVE \A m \in FrameNumbersUsed : rd[m] = 0
        BY <3>3
      <4>1. ~ Shared(c)
        BY <1>1, <2>4, SharedKept
      <4> QED BY <2>6, <4>1 DEF GInv, FreshOK
    <3>5. \A s : s \in S <=> s \in DOMAIN slot' /\ slot'[s].held /\ slot'[s].job = c
      <4>1. ASSUME NEW s \in DOMAIN slot, slot[s].held PROVE slot[s].job # c
        BY <2>6, <4>1, HeldSlot
      <4> QED BY <1>1, <4>1
    <3>6. /\ client'[c].order = o /\ job'[c].range = r /\ job'[c].frames = g /\ history'[c] = h
          /\ rendered'[c] = rd /\ X = slot'
      BY <1>1, <2>4, <2>5
    <3>7. Placed(o, r, g, h, S, X)
      BY <3>3
    <3> QED BY <3>4, <3>5, <3>6, <3>7, GoodThen
  <2>9. FreshOK(c)'
    <3>1. ~ (client'[c].at \in {"starts", "open"} \/ (~ job'[c].queued /\ ~ Shared(c)'))
      BY <2>4, <2>5
    <3> QED BY <3>1, Zenon DEF FreshOK
  <2> QED BY <2>7, <2>8, <2>9, Zenon DEF GInv
<1>3. CASE ~ FitsMemory(n)
  <2>1. Refused(c) /\ job' = job
    BY <1>3, Zenon DEF register_job, Origin
  <2>2. MovesTo(c, "done", client[c].script)
    BY <2>1, ClientMoves
  <2>3. /\ client'[c].at = "done" /\ client'[c].script = client[c].script
        /\ \A d \in Clients \ {c} : client'[d] = client[d]
    BY <2>2, Zenon DEF MovesTo
  <2>4. client[c].at # "done" /\ client'[c].at \notin {"starts", "open"}
    BY <1>1, <2>3
  <2>5. \A d \in Clients \ {c} : client'[d] = client[d] /\ history'[d] = history[d]
    BY <1>1, <2>3
  <2>6. \A d \in Clients : PartsOf(client[d].script) \subseteq {scripts'[client[d].script][k] :
                                                    k \in DOMAIN scripts'[client[d].script]}
    BY <1>1, PartsKept
  <2> QED BY <1>1, <2>1, <2>3, <2>4, <2>5, <2>6, ClientJobs
<1> QED BY <1>2, <1>3

(* A queued job changes; the others stay.                                  *)
LEMMA OneJob ==
  ASSUME IInv, GInv, NEW c \in Clients, job[c].queued, UNCHANGED <<scripts, client>>,
         \A d \in Clients \ {c} : job'[d] = job[d] /\ history'[d] = history[d],
         job'[c].queued,
         \A d \in Clients \ {c} : ~ Shared(d) \/ client[d].at \in {"starts", "open"} =>
                                    rendered'[d] = rendered[d],
         \A d \in Clients \ {c} : \A s :
           /\ s \in Mine(d) => slot'[s] = slot[s]
           /\ s \in Mine(d) <=> s \in DOMAIN slot' /\ slot'[s].held /\ slot'[s].job = d,
         NEW o, NEW r, NEW F, NEW h, NEW rd, NEW S, NEW X,
         client[c].order = o, job'[c].range = r, job'[c].frames = F, history'[c] = h,
         rendered'[c] = rd, X = slot',
         \A s : s \in S <=> s \in DOMAIN slot' /\ slot'[s].held /\ slot'[s].job = c,
         Placed(o, r, F, h, S, X), ~ Shared(c) => Alone(o, r, F, h, rd, S, X)
  PROVE GInv'
<1>1. ASSUME NEW d \in Clients \ {c} PROVE JobGood(d)' /\ FreshOK(d)'
  <2>1. JobGood(d) /\ FreshOK(d)
    BY DEF GInv
  <2>2. Shared(d) => Shared(d)'
    BY SharedKept
  <2>3. \A s : s \in Mine(d) <=> s \in DOMAIN slot' /\ slot'[s].held /\ slot'[s].job = d
    OBVIOUS
  <2>4. /\ job'[d] = job[d] /\ client'[d] = client[d] /\ history'[d] = history[d]
        /\ \A s : s \in Mine(d) => slot'[s] = slot[s]
    OBVIOUS
  <2>5. ~ Shared(d) \/ client[d].at \in {"starts", "open"} => rendered'[d] = rendered[d]
    OBVIOUS
  <2> QED BY <2>1, <2>2, <2>3, <2>4, <2>5, Untouched
<1>2. JobGood(c)'
  <2>1. ~ Shared(c)' => Alone(o, r, F, h, rd, S, X)
    BY SharedKept
  <2>2. client'[c].order = o
    OBVIOUS
  <2> QED BY <2>1, <2>2, GoodThen
<1>3. FreshOK(c)'
  <2>1. client[c].at = "done"
    BY AtWork
  <2>2. ~ (client'[c].at \in {"starts", "open"} \/ (~ job'[c].queued /\ ~ Shared(c)'))
    BY <2>1
  <2> QED BY <2>2, Zenon DEF FreshOK
<1> QED BY <1>1, <1>2, <1>3, Zenon DEF GInv

LEMMA NoUpdates ==
  ASSUME NEW h, Cardinality(h \cap {"updated", "reblocked"}) < MaxUpdates, MaxUpdates <= 1
  PROVE h \cap {"updated", "reblocked"} = {}
<1> PICK u : u = h \cap {"updated", "reblocked"}
  OBVIOUS
<1>1. IsFiniteSet({"updated", "reblocked"})
  <2>1. IsFiniteSet({"updated"})
    BY FS_Singleton
  <2>2. IsFiniteSet({"updated"} \cup {"reblocked"})
    BY <2>1, FS_AddElement
  <2>3. {"updated", "reblocked"} = {"updated"} \cup {"reblocked"}
    OBVIOUS
  <2> QED BY <2>2, <2>3, Zenon
<1>2. IsFiniteSet(u)
  BY <1>1, FS_Subset
<1>3. Cardinality(u) \in Nat /\ (Cardinality(u) = 0 <=> u = {})
  BY <1>2, FS_CardinalityType, FS_EmptySet
<1>4. Cardinality(u) = 0
  BY <1>3, BoundsAssumption
<1> QED BY <1>3, <1>4

LEMMA RangeJobs ==
  ASSUME NoBackwards, IInv, SInv, GInv, NEW c \in Clients, handle_r_r_jobsesup(c)
  PROVE GInv'
<1> PICK o, r, F, h, rd, S, X :
      /\ o = client[c].order /\ r = job[c].range /\ F = job[c].frames /\ h = history[c]
      /\ rd = rendered[c] /\ S = Mine(c) /\ X = slot
  OBVIOUS
<1>1. /\ job[c].queued /\ Updates(c) < MaxUpdates
      /\ UNCHANGED <<now, scripts, client, slot, rendered>>
  BY DEF handle_r_r_jobsesup
<1>2. PICK q \in o.changes :
        /\ FitsMemory(job_nframes(q))
        /\ job' = [job EXCEPT ![c].range = q,
                     ![c].frames = [i \in 0 .. job_nframes(q) - 1 |-> OldRecord(c, q, i)]]
        /\ Happened(c, Blocks(q, r))
  BY Zenon DEF handle_r_r_jobsesup, Blocks
<1> PICK G : G = [i \in 0 .. job_nframes(q) - 1 |-> OldFrame(F, r, q, i)]
  OBVIOUS
<1> PICK g : g = h \cup Blocks(q, r)
  OBVIOUS
<1>3. JobIs(c, q, G)
  BY <1>1, <1>2, RangeWith
<1>4. /\ job'[c].queued /\ job'[c].range = q /\ job'[c].frames = G
      /\ \A d \in Clients \ {c} : job'[d] = job[d]
  BY <1>3, Zenon DEF JobIs
<1>5. history'[c] = g /\ \A d \in Clients \ {c} : history'[d] = history[d]
  <2>1. HappenedTo(c, Blocks(q, r))
    BY <1>2, Happening
  <2> QED BY <2>1, Zenon DEF HappenedTo
<1>6. Forward(q)
  <2>1. Known(o) /\ Sane(o)
    BY <1>1, QueuedOrder
  <2>2. q \in RangesOf(o)
    BY DEF RangesOf
  <2> QED BY <1>2, <2>1, <2>2, RangesForward
<1>7. MaxUpdates <= 1 => h \cap {"updated", "reblocked"} = {}
  <2>1. Cardinality(h \cap {"updated", "reblocked"}) < MaxUpdates
    BY <1>1 DEF Updates
  <2> QED BY <2>1, NoUpdates
<1>8. Placed(o, r, F, h, S, X) /\ (~ Shared(c) => Alone(o, r, F, h, rd, S, X))
  BY <1>1, Zenon DEF GInv, JobGood
<1>9. rd \in [FrameNumbersUsed -> 0 .. 2]
  BY Zenon DEF IInv, RenderedOK
<1>10. /\ Placed(o, q, G, g, S, X)
       /\ Alone(o, r, F, h, rd, S, X) => Alone(o, q, G, g, rd, S, X)
  <2>1. Placed(o, r, F, h, S, X) /\ q \in o.changes
    BY <1>2, <1>8
  <2>2. Changes(o, r, F, h, q, G, g)
    BY <1>6, <1>7, <2>1, Zenon DEF Changes
  <2> QED BY <1>9, <2>1, <2>2, RangeChanged
<1>11. \A d, s : s \in Mine(d) <=> s \in DOMAIN slot' /\ slot'[s].held /\ slot'[s].job = d
  BY <1>1, MineIs
<1>12. \A d \in Clients \ {c} : job'[d] = job[d] /\ history'[d] = history[d]
  BY <1>4, <1>5
<1>13. \A d \in Clients \ {c} : ~ Shared(d) \/ client[d].at \in {"starts", "open"} =>
                                    rendered'[d] = rendered[d]
  BY <1>1
<1>14. \A d \in Clients \ {c} : \A s :
         /\ s \in Mine(d) => slot'[s] = slot[s]
         /\ s \in Mine(d) <=> s \in DOMAIN slot' /\ slot'[s].held /\ slot'[s].job = d
  BY <1>1, <1>11
<1>15. \A s : s \in S <=> s \in DOMAIN slot' /\ slot'[s].held /\ slot'[s].job = c
  BY <1>11
<1>16. UNCHANGED <<scripts, client>> /\ rendered'[c] = rd /\ X = slot' /\ client[c].order = o
  BY <1>1
<1>17. Placed(o, q, G, g, S, X)
  BY <1>10
<1>18. ~ Shared(c) => Alone(o, q, G, g, rd, S, X)
  BY <1>8, <1>10
<1>19. /\ job[c].queued /\ job'[c].queued /\ job'[c].range = q /\ job'[c].frames = G
       /\ history'[c] = g
  BY <1>1, <1>4, <1>5
<1> QED BY <1>12, <1>13, <1>14, <1>15, <1>16, <1>17, <1>18, <1>19, OneJob

(* What a report or the check makes of the status of a frame.              *)
LEMMA StatusOf ==
  ASSUME NEW f, FrameOK(f)
  PROVE /\ \A st : Left(f, st).status = st
        /\ \A e : Settled(f, e).status = "finished" /\ Settled(f, e).exit = e
        /\ Requeued(f).status = "waiting"
<1> PICK st0, e0, q0, s0 : st0 = f.status /\ e0 = f.exit /\ q0 = f.requeued /\ s0 = f.slot
  OBVIOUS
<1>1. f \in [status : {st0}, exit : {e0}, requeued : {q0}, slot : {s0}]
  BY Zenon DEF FrameOK
<1>2. ASSUME NEW st
      PROVE Left(f, st) \in [status : {st}, exit : {e0}, requeued : {q0}, slot : {"none"}]
  <2>1. PICK g : g = [f EXCEPT !.status = st]
    OBVIOUS
  <2>2. g = [status |-> st, exit |-> e0, requeued |-> q0, slot |-> s0]
    BY <1>1, <2>1, SMT
  <2>3. g \in [status : {st}, exit : {e0}, requeued : {q0}, slot : {s0}]
    BY <2>2, Zenon
  <2>4. [g EXCEPT !.slot = "none"] \in [status : {st}, exit : {e0}, requeued : {q0}, slot : {"none"}]
    BY <2>3, SMT
  <2> QED BY <2>1, <2>4, Zenon DEF Left
<1>3. \A st : Left(f, st).status = st
  BY <1>2
<1>4. ASSUME NEW e PROVE Settled(f, e).status = "finished" /\ Settled(f, e).exit = e
  <2>1. PICK g : g = Left(f, "finished")
    OBVIOUS
  <2>2. g \in [status : {"finished"}, exit : {e0}, requeued : {q0}, slot : {"none"}]
    BY <1>2, <2>1
  <2>3. PICK k : k = [g EXCEPT !.exit = e]
    OBVIOUS
  <2>4. k = [status |-> "finished", exit |-> e, requeued |-> q0, slot |-> "none"]
    BY <2>2, <2>3, SMT
  <2>5. k.status = "finished" /\ k.exit = e
    BY <2>4
  <2> QED BY <2>1, <2>3, <2>5, Zenon DEF Settled
<1>5. Requeued(f).status = "waiting"
  <2>1. PICK g : g = Left(f, "waiting")
    OBVIOUS
  <2>2. g \in [status : {"waiting"}, exit : {e0}, requeued : {q0}, slot : {"none"}]
    BY <1>2, <2>1
  <2>3. PICK q1 : q1 = g.requeued + 1
    OBVIOUS
  <2>4. PICK k : k = [g EXCEPT !.requeued = q1]
    OBVIOUS
  <2>5. k = [status |-> "waiting", exit |-> e0, requeued |-> q1, slot |-> "none"]
    BY <2>2, <2>4, SMT
  <2>6. k.status = "waiting"
    BY <2>5
  <2> QED BY <2>1, <2>3, <2>4, <2>6, Zenon DEF Requeued
<1> QED BY <1>3, <1>4, <1>5

(* The slots of the jobs when one slot changes.                            *)
LEMMA SlotsThen ==
  ASSUME NEW s \in DOMAIN slot, NEW x, SlotIs(s, x)
  PROVE /\ s \in DOMAIN slot' /\ slot'[s] = x
        /\ \A u \in DOMAIN slot \ {s} : slot'[u] = slot[u]
        /\ \A d, u : u # s =>
             /\ u \in Mine(d) => slot'[u] = slot[u]
             /\ u \in Mine(d) <=> u \in DOMAIN slot' /\ slot'[u].held /\ slot'[u].job = d
<1>1. slot'[s] = x /\ DOMAIN slot' = DOMAIN slot /\ \A u \in DOMAIN slot \ {s} : slot'[u] = slot[u]
  BY Zenon DEF SlotIs
<1>2. \A d, u : u \in Mine(d) <=> u \in DOMAIN slot /\ slot[u].held /\ slot[u].job = d
  BY MineIs
<1> QED BY <1>1, <1>2

(* A slot is given to a job or taken from it: the slots of other jobs stay. *)
LEMMA OthersSlots ==
  ASSUME NEW c \in Clients, NEW s \in DOMAIN slot, slot[s].held => slot[s].job = c,
         NEW x, SlotIs(s, x), x.held => x.job = c
  PROVE \A d \in Clients \ {c} : \A u :
          /\ u \in Mine(d) => slot'[u] = slot[u]
          /\ u \in Mine(d) <=> u \in DOMAIN slot' /\ slot'[u].held /\ slot'[u].job = d
<1> SUFFICES ASSUME NEW d \in Clients \ {c}, NEW u
             PROVE /\ u \in Mine(d) => slot'[u] = slot[u]
                   /\ u \in Mine(d) <=> u \in DOMAIN slot' /\ slot'[u].held /\ slot'[u].job = d
  OBVIOUS
<1>1. CASE u # s
  BY <1>1, SlotsThen
<1>2. CASE u = s
  <2>1. u \notin Mine(d)
    BY <1>2, MineIs
  <2>2. slot'[s] = x
    BY SlotsThen
  <2> QED BY <1>2, <2>1, <2>2
<1> QED BY <1>1, <1>2

(* A frame is assigned.                                                    *)
LEMMA AvailableJobs ==
  ASSUME IInv, GInv, NEW c \in Clients, NEW s, job_available(c, s)
  PROVE GInv'
<1> PICK o, r, F, h, rd, S, X :
      /\ o = client[c].order /\ r = job[c].range /\ F = job[c].frames /\ h = history[c]
      /\ rd = rendered[c] /\ S = Mine(c) /\ X = slot
  OBVIOUS
<1>1. job[c].queued
  BY DEF job_available
<1>2. Placed(o, r, F, h, S, X) /\ (~ Shared(c) => Alone(o, r, F, h, rd, S, X))
  BY <1>1, Zenon DEF GInv, JobGood
<1>3. Forward(r)
  BY <1>2, Zenon DEF Placed, RangeGood
<1>4. /\ s \in DOMAIN slot /\ ~ slot[s].held
      /\ UNCHANGED <<now, scripts, client, rendered, history>>
      /\ \E i \in Indices(c) :
             /\ Frame(c, i).status = "waiting"
             /\ \E f : WithFrame(c, i, f) /\ f.status = "assigned"
             /\ \E x : /\ SlotIs(s, x) /\ x.held = TRUE /\ x.job = c /\ x.exit = "none"
                       /\ x.task = Task(job[c].range, i)
  BY <1>3, AvailableIs
<1>5. PICK i \in Indices(c) :
             /\ Frame(c, i).status = "waiting"
             /\ \E f : WithFrame(c, i, f) /\ f.status = "assigned"
             /\ \E x : /\ SlotIs(s, x) /\ x.held = TRUE /\ x.job = c /\ x.exit = "none"
                       /\ x.task = Task(job[c].range, i)
  BY <1>4
<1>6. PICK f : WithFrame(c, i, f) /\ f.status = "assigned"
  BY <1>5
<1>7. PICK x : /\ SlotIs(s, x) /\ x.held = TRUE /\ x.job = c /\ x.exit = "none"
               /\ x.task = Task(job[c].range, i)
  BY <1>5
<1>8. PICK G : /\ JobIs(c, job[c].range, G) /\ DOMAIN G = Indices(c)
               /\ i \in Indices(c) => G[i] = f
               /\ \A k \in Indices(c) \ {i} : G[k] = Frame(c, k)
  BY <1>1, <1>6, JobWith
<1>9. Indices(c) = DOMAIN F /\ \A k : Frame(c, k) = F[k]
  BY Zenon DEF Indices, Frame
<1>10. /\ i \in DOMAIN F /\ F[i].status = "waiting" /\ DOMAIN G = DOMAIN F
       /\ G[i].status = "assigned" /\ \A k \in DOMAIN F \ {i} : G[k] = F[k]
  BY <1>5, <1>6, <1>8, <1>9
<1>11. s \notin S
  BY <1>4, MineIs
<1> PICK Y : Y = slot'
  OBVIOUS
<1>12. /\ s \in DOMAIN slot' /\ slot'[s] = x
       /\ \A d, u : u # s =>
             /\ u \in Mine(d) => slot'[u] = slot[u]
             /\ u \in Mine(d) <=> u \in DOMAIN slot' /\ slot'[u].held /\ slot'[u].job = d
  BY <1>4, <1>7, SlotsThen
<1>13. Y[s].exit = "none" /\ Y[s].task = Task(r, i)
  BY <1>7, <1>12
<1>14. \A u \in S : Y[u] = X[u]
  BY <1>11, <1>12
<1>15. /\ Placed(o, r, G, h, S \cup {s}, Y)
       /\ Alone(o, r, F, h, rd, S, X) => Alone(o, r, G, h, rd, S \cup {s}, Y)
  <2>1. Placed(o, r, F, h, S, X)
    BY <1>2
  <2>2. i \in DOMAIN F /\ F[i].status = "waiting"
    BY <1>10
  <2>3. DOMAIN G = DOMAIN F /\ G[i].status = "assigned"
    BY <1>10
  <2>4. \A k \in DOMAIN F \ {i} : G[k] = F[k]
    BY <1>10
  <2>5. Y[s].exit = "none"
    BY <1>13
  <2>6. Y[s].task = Task(r, i)
    BY <1>13
  <2> QED BY ONLY <2>1, <2>2, <2>3, <2>4, <2>5, <2>6, <1>11, <1>14, AvailableGood
<1> PICK V : V = S \cup {s}
  OBVIOUS
<1>16. /\ Placed(o, r, G, h, V, Y)
       /\ ~ Shared(c) => Alone(o, r, G, h, rd, V, Y)
  BY <1>2, <1>15
<1>17. \A u : u \in V <=> u \in DOMAIN slot' /\ slot'[u].held /\ slot'[u].job = c
  BY <1>7, <1>12
<1>18. /\ job'[c].queued /\ job'[c].range = r /\ job'[c].frames = G
       /\ \A d \in Clients \ {c} : job'[d] = job[d]
  BY <1>8, Zenon DEF JobIs
<1>19. \A d \in Clients \ {c} : job'[d] = job[d] /\ history'[d] = history[d]
  BY <1>4, <1>18
<1>20. \A d \in Clients \ {c} : ~ Shared(d) \/ client[d].at \in {"starts", "open"} =>
                                    rendered'[d] = rendered[d]
  BY <1>4
<1>21. \A d \in Clients \ {c} : \A u :
         /\ u \in Mine(d) => slot'[u] = slot[u]
         /\ u \in Mine(d) <=> u \in DOMAIN slot' /\ slot'[u].held /\ slot'[u].job = d
  BY <1>4, <1>7, OthersSlots
<1>22. /\ UNCHANGED <<scripts, client>> /\ rendered'[c] = rd /\ Y = slot' /\ client[c].order = o
       /\ history'[c] = h
  BY <1>4
<1> QED BY <1>1, <1>16, <1>17, <1>18, <1>19, <1>20, <1>21, <1>22, OneJob

(* A frame whose task is gone waits again.                                 *)
LEMMA CheckJobs ==
  ASSUME IInv, SInv, GInv, NEW c \in Clients, NEW i, job_check_frame_status(c, i)
  PROVE GInv'
<1> PICK o, r, F, h, rd, S, X :
      /\ o = client[c].order /\ r = job[c].range /\ F = job[c].frames /\ h = history[c]
      /\ rd = rendered[c] /\ S = Mine(c) /\ X = slot
  OBVIOUS
<1>1. /\ job[c].queued /\ i \in Indices(c) /\ WithFrame(c, i, Left(Frame(c, i), "waiting"))
      /\ Happened(c, {"requeued"})
      /\ UNCHANGED <<now, scripts, client, slot, rendered>>
  BY Zenon DEF job_check_frame_status
<1>2. Placed(o, r, F, h, S, X) /\ (~ Shared(c) => Alone(o, r, F, h, rd, S, X))
  BY <1>1, Zenon DEF GInv, JobGood
<1>3. PICK f : f = Left(Frame(c, i), "waiting")
  OBVIOUS
<1>4. f.status = "waiting"
  <2>1. FrameOK(Frame(c, i))
    BY <1>1, FramesAreOK
  <2> QED BY <1>3, <2>1, StatusOf
<1>5. PICK G : /\ JobIs(c, job[c].range, G) /\ DOMAIN G = Indices(c)
               /\ i \in Indices(c) => G[i] = f
               /\ \A k \in Indices(c) \ {i} : G[k] = Frame(c, k)
  BY <1>1, <1>3, JobWith
<1>6. Indices(c) = DOMAIN F /\ \A k : Frame(c, k) = F[k]
  BY Zenon DEF Indices, Frame
<1>7. /\ i \in DOMAIN F /\ DOMAIN G = DOMAIN F
      /\ G[i].status = "waiting" /\ \A k \in DOMAIN F \ {i} : G[k] = F[k]
  BY <1>1, <1>4, <1>5, <1>6
<1> PICK g : g = h \cup {"requeued"}
  OBVIOUS
<1>8. history'[c] = g /\ \A d \in Clients \ {c} : history'[d] = history[d]
  <2>1. HappenedTo(c, {"requeued"})
    BY <1>1, Happening
  <2> QED BY <2>1, Zenon DEF HappenedTo
<1>9. /\ Placed(o, r, G, g, S, X)
      /\ ~ Shared(c) => Alone(o, r, G, g, rd, S, X)
  <2>1. /\ Placed(o, r, G, h \cup {"requeued"}, S, X)
        /\ Alone(o, r, F, h, rd, S, X) => Alone(o, r, G, h \cup {"requeued"}, rd, S, X)
    BY <1>2, <1>7, CheckGood
  <2> QED BY <1>2, <2>1
<1>10. /\ job'[c].queued /\ job'[c].range = r /\ job'[c].frames = G
       /\ \A d \in Clients \ {c} : job'[d] = job[d]
  BY <1>5, Zenon DEF JobIs
<1>11. \A d, u : u \in Mine(d) <=> u \in DOMAIN slot' /\ slot'[u].held /\ slot'[u].job = d
  BY <1>1, MineIs
<1>12. \A d \in Clients \ {c} : job'[d] = job[d] /\ history'[d] = history[d]
  BY <1>8, <1>10
<1>13. \A d \in Clients \ {c} : ~ Shared(d) \/ client[d].at \in {"starts", "open"} =>
                                    rendered'[d] = rendered[d]
  BY <1>1
<1>14. \A d \in Clients \ {c} : \A u :
         /\ u \in Mine(d) => slot'[u] = slot[u]
         /\ u \in Mine(d) <=> u \in DOMAIN slot' /\ slot'[u].held /\ slot'[u].job = d
  BY <1>1, <1>11
<1>15. \A u : u \in S <=> u \in DOMAIN slot' /\ slot'[u].held /\ slot'[u].job = c
  BY <1>11
<1>16. UNCHANGED <<scripts, client>> /\ rendered'[c] = rd /\ X = slot' /\ client[c].order = o
  BY <1>1
<1>17. job[c].queued /\ history'[c] = g
  BY <1>1, <1>8
<1> QED BY <1>9, <1>10, <1>12, <1>13, <1>14, <1>15, <1>16, <1>17, OneJob

(* What a report makes of the table of frames.                             *)
LEMMA ReportIs ==
  ASSUME IInv, NEW s, handle_r_r_taskfini(s), NEW c, c = slot[s].job,
         NEW n, n = slot[s].task.frame, NEW i, i = job_frame_number_to_index(job[c].range, n),
         NEW e, e = slot[s].exit
  PROVE /\ s \in DOMAIN slot /\ slot[s].held /\ e # "none" /\ c \in Clients /\ job[c].queued
        /\ UNCHANGED <<now, scripts, client, rendered, history>>
        /\ SlotIs(s, Free)
        /\ \E G : /\ JobIs(c, job[c].range, G) /\ DOMAIN G = Indices(c)
                  /\ \A k \in Indices(c) :
                       ~ (job_frame_number_correct(job[c].range, n) /\ k = i) => G[k] = Frame(c, k)
                  /\ job_frame_number_correct(job[c].range, n) /\ i \in Indices(c) =>
                       IF e = "signal"
                       THEN G[i] = Frame(c, i) \/ G[i].status \in {"waiting", "error"}
                       ELSE G[i].status = "finished" /\ G[i].exit = e
<1>1. /\ s \in DOMAIN slot /\ slot[s].held /\ e # "none" /\ slot' = [slot EXCEPT ![s] = Free]
      /\ UNCHANGED <<now, scripts, client, rendered, history>>
  BY DEF handle_r_r_taskfini
<1>2. c \in Clients /\ job[c].queued
  BY <1>1, HeldSlot
<1>3. SlotIs(s, Free)
  BY <1>1, SlotBecomes
<1>4. CASE ~ job_frame_number_correct(job[c].range, n)
  <2>1. job' = job
    BY <1>4, Zenon DEF handle_r_r_taskfini
  <2>2. PICK r, F : r = job[c].range /\ F = job[c].frames
    OBVIOUS
  <2>3. job[c].queued = TRUE
    BY <1>2, Shapes, Zenon
  <2>4. JobIs(c, r, F)
    BY <2>1, <2>2, <2>3, Zenon DEF JobIs
  <2>5. DOMAIN F = Indices(c) /\ \A k : F[k] = Frame(c, k)
    BY <2>2, Zenon DEF Indices, Frame
  <2> QED BY <1>1, <1>2, <1>3, <1>4, <2>2, <2>4, <2>5, Zenon
<1>5. CASE job_frame_number_correct(job[c].range, n)
  <2>1. PICK f : f = IF e = "signal"
                     THEN Interrupted(Frame(c, i), TriesAgain(client[c].order))
                     ELSE Settled(Frame(c, i), e)
    OBVIOUS
  <2>2. WithFrame(c, i, f)
    BY <1>5, <2>1, Zenon DEF handle_r_r_taskfini
  <2>3. PICK G : /\ JobIs(c, job[c].range, G) /\ DOMAIN G = Indices(c)
                 /\ i \in Indices(c) => G[i] = f
                 /\ \A k \in Indices(c) \ {i} : G[k] = Frame(c, k)
    BY <1>2, <2>2, JobWith
  <2>4. i \in Indices(c) => IF e = "signal"
                            THEN f = Frame(c, i) \/ f.status \in {"waiting", "error"}
                            ELSE f.status = "finished" /\ f.exit = e
    <3> SUFFICES ASSUME i \in Indices(c)
                 PROVE IF e = "signal"
                       THEN f = Frame(c, i) \/ f.status \in {"waiting", "error"}
                       ELSE f.status = "finished" /\ f.exit = e
      OBVIOUS
    <3>1. PICK g : g = Frame(c, i)
      OBVIOUS
    <3>2. FrameOK(g)
      BY <1>2, <3>1, FramesAreOK
    <3>3. /\ Left(g, "error").status = "error" /\ Requeued(g).status = "waiting"
          /\ Settled(g, e).status = "finished" /\ Settled(g, e).exit = e
      BY <3>2, StatusOf
    <3>4. CASE e = "signal"
      <4>1. f = g \/ f = Requeued(g) \/ f = Left(g, "error")
        BY <2>1, <3>1, <3>4, Zenon DEF Interrupted
      <4> QED BY <3>1, <3>3, <3>4, <4>1
    <3>5. CASE e # "signal"
      BY <2>1, <3>1, <3>3, <3>5
    <3> QED BY <3>4, <3>5
  <2>5. \A k \in Indices(c) :
          ~ (job_frame_number_correct(job[c].range, n) /\ k = i) => G[k] = Frame(c, k)
    BY <1>5, <2>3
  <2>6. i \in Indices(c) => IF e = "signal"
                            THEN G[i] = Frame(c, i) \/ G[i].status \in {"waiting", "error"}
                            ELSE G[i].status = "finished" /\ G[i].exit = e
    BY <2>3, <2>4
  <2>7. /\ JobIs(c, job[c].range, G) /\ DOMAIN G = Indices(c)
    BY <2>3
  <2> QED BY <1>1, <1>2, <1>3, <2>5, <2>6, <2>7, Zenon
<1> QED BY <1>4, <1>5

LEMMA ReportJobs ==
  ASSUME IInv, GInv, NEW s, handle_r_r_taskfini(s)
  PROVE GInv'
<1> PICK c : c = slot[s].job
  OBVIOUS
<1> PICK o, r, F, h, rd, S, X :
      /\ o = client[c].order /\ r = job[c].range /\ F = job[c].frames /\ h = history[c]
      /\ rd = rendered[c] /\ S = Mine(c) /\ X = slot
  OBVIOUS
<1> PICK n : n = slot[s].task.frame
  OBVIOUS
<1> PICK i, e : i = job_frame_number_to_index(r, n) /\ e = slot[s].exit
  OBVIOUS
<1>1. /\ s \in DOMAIN slot /\ slot[s].held /\ e # "none" /\ c \in Clients /\ job[c].queued
      /\ UNCHANGED <<now, scripts, client, rendered, history>>
      /\ SlotIs(s, Free)
      /\ \E G : /\ JobIs(c, job[c].range, G) /\ DOMAIN G = Indices(c)
                /\ \A k \in Indices(c) :
                     ~ (job_frame_number_correct(job[c].range, n) /\ k = i) => G[k] = Frame(c, k)
                /\ job_frame_number_correct(job[c].range, n) /\ i \in Indices(c) =>
                     IF e = "signal"
                     THEN G[i] = Frame(c, i) \/ G[i].status \in {"waiting", "error"}
                     ELSE G[i].status = "finished" /\ G[i].exit = e
  BY ReportIs
<1>2. PICK G : /\ JobIs(c, job[c].range, G) /\ DOMAIN G = Indices(c)
               /\ \A k \in Indices(c) :
                    ~ (job_frame_number_correct(job[c].range, n) /\ k = i) => G[k] = Frame(c, k)
               /\ job_frame_number_correct(job[c].range, n) /\ i \in Indices(c) =>
                    IF e = "signal"
                    THEN G[i] = Frame(c, i) \/ G[i].status \in {"waiting", "error"}
                    ELSE G[i].status = "finished" /\ G[i].exit = e
  BY <1>1
<1>3. Placed(o, r, F, h, S, X) /\ (~ Shared(c) => Alone(o, r, F, h, rd, S, X))
  BY <1>1, Zenon DEF GInv, JobGood
<1>4. Indices(c) = DOMAIN F /\ \A k : Frame(c, k) = F[k]
  BY Zenon DEF Indices, Frame
<1>5. Free.held = FALSE
  BY DEF Free
<1>6. s \in S
  BY <1>1, MineIs
<1> PICK Y, V : Y = slot' /\ V = S \ {s}
  OBVIOUS
<1>7. /\ s \in DOMAIN slot' /\ slot'[s] = Free
      /\ \A d, u : u # s =>
             /\ u \in Mine(d) => slot'[u] = slot[u]
             /\ u \in Mine(d) <=> u \in DOMAIN slot' /\ slot'[u].held /\ slot'[u].job = d
  BY <1>1, SlotsThen
<1>8. \A u \in S \ {s} : Y[u] = X[u]
  BY <1>7
<1>9. /\ Placed(o, r, G, h, V, Y)
      /\ ~ Shared(c) => Alone(o, r, G, h, rd, V, Y)
  <2>1. Placed(o, r, F, h, S, X)
    BY <1>3
  <2>2. X[s].exit # "none" /\ n = X[s].task.frame
    BY <1>1
  <2>3. DOMAIN G = DOMAIN F
    BY <1>2, <1>4
  <2>4. \A k \in DOMAIN F : ~ (job_frame_number_correct(r, n) /\ k = i) => G[k] = F[k]
    BY <1>2, <1>4
  <2>5. job_frame_number_correct(r, n) /\ i \in DOMAIN F =>
           IF X[s].exit = "signal"
           THEN G[i] = F[i] \/ G[i].status \in {"waiting", "error"}
           ELSE G[i].status = "finished" /\ G[i].exit = X[s].exit
    BY <1>2, <1>4
  <2>6. Reported(r, F, S, X, s, Y, n, i, G)
    BY <1>6, <1>8, <2>2, <2>3, <2>4, <2>5, Zenon DEF Reported
  <2>7. /\ Placed(o, r, G, h, S \ {s}, Y)
        /\ Alone(o, r, F, h, rd, S, X) => Alone(o, r, G, h, rd, S \ {s}, Y)
    BY <2>1, <2>6, ReportGood
  <2> QED BY <1>3, <2>7
<1>10. \A u : u \in V <=> u \in DOMAIN slot' /\ slot'[u].held /\ slot'[u].job = c
  BY <1>5, <1>7
<1>11. /\ job'[c].queued /\ job'[c].range = r /\ job'[c].frames = G
       /\ \A d \in Clients \ {c} : job'[d] = job[d]
  BY <1>2, Zenon DEF JobIs
<1>12. \A d \in Clients \ {c} : job'[d] = job[d] /\ history'[d] = history[d]
  BY <1>1, <1>11
<1>13. \A d \in Clients \ {c} : ~ Shared(d) \/ client[d].at \in {"starts", "open"} =>
                                    rendered'[d] = rendered[d]
  BY <1>1
<1>14. \A d \in Clients \ {c} : \A u :
         /\ u \in Mine(d) => slot'[u] = slot[u]
         /\ u \in Mine(d) <=> u \in DOMAIN slot' /\ slot'[u].held /\ slot'[u].job = d
  BY <1>1, <1>5, OthersSlots
<1>15. /\ UNCHANGED <<scripts, client>> /\ rendered'[c] = rd /\ Y = slot' /\ client[c].order = o
       /\ history'[c] = h
  BY <1>1
<1> QED BY <1>1, <1>9, <1>10, <1>11, <1>12, <1>13, <1>14, <1>15, OneJob

(* What a slave reports of a run.                                          *)
LEMMA ExitIs ==
  ASSUME NEW run, NEW exit \in ExitOf(run)
  PROVE /\ run.exit = "zero" => exit = "zero"
        /\ run.exit # "zero" => exit \in {"one", "signal"}
        /\ exit \in {"zero", "one", "signal"}
<1>1. CASE run.exit = "zero"
  <2>1. ExitOf(run) = {"zero"}
    BY <1>1, Zenon DEF ExitOf
  <2> QED BY <1>1, <2>1
<1>2. CASE run.exit = "failed"
  <2>1. "zero" # "failed"
    OBVIOUS
  <2>2. ExitOf(run) = {"signal", "one"}
    BY <1>2, <2>1, Zenon DEF ExitOf
  <2> QED BY <1>2, <2>2
<1>3. CASE run.exit # "zero" /\ run.exit # "failed"
  <2>1. ExitOf(run) = {"one"}
    BY <1>3, Zenon DEF ExitOf
  <2> QED BY <1>3, <2>1
<1> QED BY <1>1, <1>2, <1>3

(* What a run of a script that nobody else wrote to renders.               *)
LEMMA RunYields ==
  ASSUME IInv, SInv, NEW s, NEW c \in Clients, job[c].queued, ~ Shared(c),
         NEW o, o = client[c].order, NEW r, NEW h, h = history[c],
         NEW t, TaskGood(o, r, h, t), NEW run, NEW exit, Launched(s, c, t, run, exit)
  PROVE \E P : Yields(o, h, t, exit, P) /\ rendered'[c] = Rendering(rendered[c], P)
<1>1. run \in Runs(c, t) /\ exit \in ExitOf(run)
  BY Zenon DEF Launched
<1>2. /\ run.exit = "zero" => exit = "zero"
      /\ run.exit # "zero" => exit \in {"one", "signal"}
  BY <1>1, ExitIs
<1>3. /\ run.rendered = <<>> => rendered'[c] = Rendering(rendered[c], {})
      /\ \A P : Rendered(run, c, P) => rendered'[c] = Rendering(rendered[c], P)
  BY OwnRendered
<1>4. \/ run.rendered = <<>> /\ run.exit = "zero" /\ "no template" \in history[c]
      \/ run.rendered = <<>> /\ run.exit \in {"error", "failed", "undefined"}
      \/ /\ run.exit = "zero" /\ Own(c) /\ Rendered(run, c, PadFrames(t))
      \/ /\ run.exit = "zero" /\ ~ Own(c) /\ ListIsNumber(t)
         /\ client[c].order.engine \in DOMAIN TemplateOf
         /\ Rendered(run, c, Frames(TemplateOf[client[c].order.engine], t))
  BY <1>1, RunAlone
<1>5. CASE run.rendered = <<>> /\ run.exit = "zero" /\ "no template" \in history[c]
  <2>1. Yields(o, h, t, exit, {})
    BY <1>2, <1>5 DEF Yields
  <2> QED BY <1>3, <1>5, <2>1
<1>6. CASE run.rendered = <<>> /\ run.exit \in {"error", "failed", "undefined"}
  <2>1. exit # "zero"
    BY <1>2, <1>6
  <2>2. Yields(o, h, t, exit, {})
    BY <2>1 DEF Yields
  <2> QED BY <1>3, <1>6, <2>2
<1>7. CASE run.exit = "zero" /\ Own(c) /\ Rendered(run, c, PadFrames(t))
  <2>1. Yields(o, h, t, exit, PadFrames(t))
    BY <1>2, <1>7 DEF Yields
  <2> QED BY <1>3, <1>7, <2>1
<1>8. CASE /\ run.exit = "zero" /\ ~ Own(c) /\ ListIsNumber(t)
           /\ client[c].order.engine \in DOMAIN TemplateOf
           /\ Rendered(run, c, Frames(TemplateOf[client[c].order.engine], t))
  <2> PICK T, P : T = TemplateOf[o.engine] /\ P = Frames(T, t)
    OBVIOUS
  <2>1. PICK q, i : TaskOf(q, i, o, r, h, t)
    BY Zenon DEF TaskGood
  <2>2. Forward(q) /\ i \in 0 .. job_nframes(q) - 1 /\ t = Task(q, i)
    BY <2>1, Zenon DEF TaskOf
  <2>3. /\ ListIsNumber(t) => PadFrames(t) = {t.frame}
        /\ \A template : /\ Frames(template, t) \subseteq PadFrames(t)
                         /\ template.frames \in {"frame", "block", "steps"} =>
                              t.frame \in Frames(template, t)
    BY <2>2, PadsOf
  <2>4. P \subseteq PadFrames(t) /\ PadFrames(t) = {t.frame}
    BY <1>8, <2>3
  <2>5. o.engine # "luxrender" => P = PadFrames(t)
    <3> SUFFICES ASSUME o.engine # "luxrender" PROVE P = PadFrames(t)
      OBVIOUS
    <3>1. o.engine \in DOMAIN TemplateOf \ {"luxrender"}
      BY <1>8
    <3>2. T.frames \in {"frame", "block", "steps"}
      BY <3>1, FramesOfTemplates
    <3>3. t.frame \in P
      BY <2>3, <3>2
    <3> QED BY <2>4, <3>3
  <2>6. Yields(o, h, t, exit, P)
    BY <1>2, <1>8, <2>4, <2>5 DEF Yields
  <2>7. Rendered(run, c, P)
    BY <1>8
  <2> QED BY <1>3, <2>6, <2>7
<1> QED BY <1>4, <1>5, <1>6, <1>7, <1>8

(* A task is run.                                                          *)
LEMMA LaunchJobs ==
  ASSUME IInv, SInv, GInv, NEW s, launch_task(s)
  PROVE GInv'
<1> PICK c, t : c = slot[s].job /\ t = slot[s].task
  OBVIOUS
<1> PICK o, r, F, h, rd, S, X :
      /\ o = client[c].order /\ r = job[c].range /\ F = job[c].frames /\ h = history[c]
      /\ rd = rendered[c] /\ S = Mine(c) /\ X = slot
  OBVIOUS
<1>1. /\ s \in DOMAIN slot /\ slot[s].held /\ slot[s].exit = "none"
      /\ c \in Clients /\ job[c].queued /\ UNCHANGED <<now, scripts, client, job>>
      /\ \E run, exit : Launched(s, c, t, run, exit)
  BY LaunchIs
<1>2. PICK run, exit : Launched(s, c, t, run, exit)
  BY <1>1, Zenon
<1> PICK what : what = IF run.exit = "undefined" THEN {run.system} ELSE {}
  OBVIOUS
<1>3. run \in Runs(c, t) /\ exit \in ExitOf(run) /\ HappenedTo(c, what)
  BY <1>2, Zenon DEF Launched
<1>4. PICK x : SlotIs(s, x) /\ x.held = TRUE /\ x.job = c /\ x.task = t /\ x.exit = exit
  BY <1>2, Zenon DEF Launched
<1>5. exit \in {"zero", "one", "signal"}
  BY <1>3, ExitIs
<1>6. what \subseteq {Linux, Windows}
  <2>1. run.exit = "undefined" => run.system \in {Linux, Windows}
    BY <1>1, <1>3, RunBySomeone
  <2> QED BY <2>1
<1> PICK g, Y, rdn : g = h \cup what /\ Y = slot' /\ rdn = rendered'[c]
  OBVIOUS
<1>7. history'[c] = g /\ \A d \in Clients \ {c} : history'[d] = history[d]
  BY <1>3, Zenon DEF HappenedTo
<1>8. Placed(o, r, F, h, S, X) /\ (~ Shared(c) => Alone(o, r, F, h, rd, S, X))
  BY <1>1, Zenon DEF GInv, JobGood
<1>9. s \in S
  BY <1>1, MineIs
<1>10. TaskGood(o, r, h, t)
  <2>1. \A u \in S : TaskGood(o, r, h, X[u].task)
    BY <1>8, Zenon DEF Placed
  <2> QED BY <1>9, <2>1
<1>11. /\ s \in DOMAIN slot' /\ slot'[s] = x
       /\ \A d, u : u # s =>
             /\ u \in Mine(d) => slot'[u] = slot[u]
             /\ u \in Mine(d) <=> u \in DOMAIN slot' /\ slot'[u].held /\ slot'[u].job = d
  BY <1>1, <1>4, SlotsThen
<1>12. \A u \in S \ {s} : Y[u] = X[u]
  BY <1>11
<1>13. PICK P : Yields(o, h, t, exit, P) /\ (~ Shared(c) => rdn = Rendering(rd, P))
  <2>1. CASE ~ Shared(c)
    <3>1. \E P : Yields(o, h, t, exit, P) /\ rendered'[c] = Rendering(rendered[c], P)
      BY <1>1, <1>2, <1>10, <2>1, RunYields
    <3> QED BY <3>1
  <2>2. CASE Shared(c)
    <3>1. PICK P : P = IF exit = "zero" THEN PadFrames(t) ELSE {}
      OBVIOUS
    <3>2. Yields(o, h, t, exit, P)
      BY <3>1 DEF Yields
    <3> QED BY <2>2, <3>2
  <2> QED BY <2>1, <2>2
<1>14. Placed(o, r, F, g, S, Y) /\ (~ Shared(c) => Alone(o, r, F, g, rdn, S, Y))
  <2>1. rd \in [FrameNumbersUsed -> 0 .. 2]
    BY <1>1, Zenon DEF IInv, RenderedOK
  <2>2. Y[s].task = X[s].task /\ Y[s].exit = exit /\ X[s].task = t
    BY <1>4, <1>11
  <2>3. h \subseteq g /\ g \subseteq h \cup {Linux, Windows}
    BY <1>6
  <2>4. X[s].exit = "none" /\ Y[s].exit \in {"zero", "one", "signal"}
    BY <1>1, <1>5, <2>2
  <2>5. Yields(o, h, X[s].task, Y[s].exit, P)
    BY <1>13, <2>2
  <2>6. Ran(o, h, S, X, s, Y, g, P)
    BY <1>9, <1>12, <2>2, <2>3, <2>4, <2>5, Zenon DEF Ran
  <2>7. /\ Placed(o, r, F, g, S, Y)
        /\ Alone(o, r, F, h, rd, S, X) => Alone(o, r, F, g, Rendering(rd, P), S, Y)
    BY <1>8, <2>1, <2>6, LaunchGood
  <2> QED BY <1>8, <1>13, <2>7
<1>15. \A u : u \in S <=> u \in DOMAIN slot' /\ slot'[u].held /\ slot'[u].job = c
  BY <1>4, <1>9, <1>11
<1>16. \A d \in Clients \ {c} : job'[d] = job[d] /\ history'[d] = history[d]
  BY <1>1, <1>7
<1>17. \A d \in Clients \ {c} : ~ Shared(d) \/ client[d].at \in {"starts", "open"} =>
                                    rendered'[d] = rendered[d]
  BY <1>1, <1>2, OthersRendered
<1>18. \A d \in Clients \ {c} : \A u :
         /\ u \in Mine(d) => slot'[u] = slot[u]
         /\ u \in Mine(d) <=> u \in DOMAIN slot' /\ slot'[u].held /\ slot'[u].job = d
  BY <1>1, <1>4, OthersSlots
<1>19. /\ UNCHANGED <<scripts, client>> /\ rendered'[c] = rdn /\ Y = slot' /\ client[c].order = o
       /\ history'[c] = g /\ job'[c].queued /\ job'[c].range = r /\ job'[c].frames = F
  BY <1>1, <1>7
<1> QED BY <1>1, <1>14, <1>15, <1>16, <1>17, <1>18, <1>19, OneJob

LEMMA NothingJobs ==
  ASSUME GInv, UNCHANGED <<scripts, client, job, slot, rendered, history>>
  PROVE GInv'
<1>1. ASSUME NEW d \in Clients PROVE JobGood(d)' /\ FreshOK(d)'
  <2>1. JobGood(d) /\ FreshOK(d)
    BY DEF GInv
  <2>2. Shared(d) => Shared(d)'
    BY SharedKept
  <2>3. \A s : s \in Mine(d) <=> s \in DOMAIN slot' /\ slot'[s].held /\ slot'[s].job = d
    BY MineIs
  <2>4. /\ job'[d] = job[d] /\ client'[d] = client[d] /\ history'[d] = history[d]
        /\ rendered'[d] = rendered[d] /\ \A s : s \in Mine(d) => slot'[s] = slot[s]
    OBVIOUS
  <2> QED BY <2>1, <2>2, <2>3, <2>4, Untouched
<1> QED BY <1>1, Zenon DEF GInv

LEMMA InitJobs == Init => GInv
<1> SUFFICES ASSUME Init, NEW c \in Clients PROVE JobGood(c) /\ FreshOK(c)
  BY DEF GInv
<1>1. job = [d \in Clients |-> NoJob] /\ rendered = [d \in Clients |-> [n \in FrameNumbersUsed |-> 0]]
  BY Zenon DEF Init
<1>2. ~ job[c].queued
  <2>1. NoJob.queued = FALSE
    BY DEF NoJob
  <2> QED BY <1>1, <2>1
<1>3. \A n \in FrameNumbersUsed : rendered[c][n] = 0
  BY <1>1
<1> QED BY <1>2, <1>3 DEF JobGood, FreshOK

LEMMA StepJobs ==
  ASSUME NoBackwards PROVE IInv /\ SInv /\ GInv /\ [Next]_vars => GInv'
<1> SUFFICES ASSUME IInv, SInv, GInv, [Next]_vars PROVE GInv'
  OBVIOUS
<1>1. CASE Tick
  BY <1>1, NothingJobs DEF Tick
<1>2. CASE UNCHANGED vars
  BY <1>2, NothingJobs DEF vars
<1>3. ASSUME NEW c \in Clients,
             \/ xxxsg_create(c) \/ ScriptRefused(c) \/ OwnCommand(c)
             \/ jobscript_set_variable(c) \/ jobscript_template_write(c) \/ register_job(c)
             \/ handle_r_r_jobsesup(c)
             \/ \E s \in Slots : job_available(c, s)
             \/ \E i \in 0 .. MaxFrames - 1 : job_check_frame_status(c, i)
      PROVE GInv'
  <2>1. CASE \/ xxxsg_create(c) \/ ScriptRefused(c) \/ OwnCommand(c)
             \/ jobscript_set_variable(c) \/ jobscript_template_write(c)
    BY <2>1, ClientsJobs
  <2>2. CASE register_job(c)
    BY <2>2, RegisterJobs
  <2>3. CASE handle_r_r_jobsesup(c)
    BY <2>3, RangeJobs
  <2>4. CASE \E s \in Slots : job_available(c, s)
    BY <2>4, AvailableJobs
  <2>5. CASE \E i \in 0 .. MaxFrames - 1 : job_check_frame_status(c, i)
    BY <2>5, CheckJobs
  <2> QED BY <1>3, <2>1, <2>2, <2>3, <2>4, <2>5, Zenon
<1>4. ASSUME NEW s, launch_task(s) \/ handle_r_r_taskfini(s) PROVE GInv'
  BY <1>4, LaunchJobs, ReportJobs
<1> QED BY <1>1, <1>2, <1>3, <1>4, Zenon DEF Next

(* What the invariant says of the frames of a job.                         *)
LEMMA AloneSays ==
  ASSUME GInv, NEW c \in Clients, job[c].queued, ~ Shared(c)
  PROVE \E S : Alone(client[c].order, job[c].range, job[c].frames, history[c], rendered[c], S, slot)
  BY Zenon DEF GInv, JobGood

LEMMA RenderedFollows == GInv => ExitZeroIsRendered
<1> SUFFICES ASSUME GInv, NEW c \in Clients, job[c].queued, ~ Shared(c),
                    ~ Has(c, {"no template", "reblocked"}),
                    client[c].order.engine # "luxrender", ~ Strides(Original(c)),
                    NEW i \in Indices(c), Frame(c, i).status = "finished", Frame(c, i).exit = "zero"
             PROVE \A n \in FramesOfIndex(job[c].range, i) : rendered[c][n] > 0
  BY Zenon DEF ExitZeroIsRendered
<1> PICK o, r, F, h, rd :
      /\ o = client[c].order /\ r = job[c].range /\ F = job[c].frames /\ h = history[c]
      /\ rd = rendered[c]
  OBVIOUS
<1>1. PICK S : Alone(o, r, F, h, rd, S, slot)
  BY AloneSays
<1>2. h \cap {"no template", "reblocked"} = {} /\ ~ Strides(Origin(o))
  BY Zenon DEF Has, Original, Origin
<1>3. DoneGood(r, F, rd, S, slot)
  BY <1>1, <1>2, Zenon DEF Alone
<1>4. i \in DOMAIN F /\ F[i].status = "finished" /\ F[i].exit = "zero"
  BY Zenon DEF Indices, Frame
<1>5. \A n \in FramesOfIndex(r, i) : rd[n] > 0
  BY <1>3, <1>4, Zenon DEF DoneGood
<1> QED BY <1>5

LEMMA AskedFollows == ASSUME MaxUpdates <= 1 PROVE GInv => RenderedAsAsked
<1> SUFFICES ASSUME GInv, NEW c \in Clients, job[c].queued, ~ Shared(c),
                    ~ Strides(Original(c)), ~ Strides(job[c].range)
             PROVE {n \in FrameNumbersUsed : rendered[c][n] > 0}
                     \subseteq FramesAsked(Original(c)) \cup FramesAsked(job[c].range)
  BY Zenon DEF RenderedAsAsked
<1> PICK o, r, F, h, rd :
      /\ o = client[c].order /\ r = job[c].range /\ F = job[c].frames /\ h = history[c]
      /\ rd = rendered[c]
  OBVIOUS
<1>1. PICK S : Alone(o, r, F, h, rd, S, slot)
  BY AloneSays
<1>2. Original(c) = Origin(o)
  BY Zenon DEF Original, Origin
<1>3. AskedGood(o, r, rd)
  BY <1>1, <1>2, Zenon DEF Alone
<1>4. \A n \in FrameNumbersUsed : rd[n] > 0 => n \in FramesAsked(Original(c)) \cup FramesAsked(r)
  BY <1>2, <1>3 DEF AskedGood
<1> QED BY <1>4

LEMMA OnceFollows == ASSUME MaxUpdates <= 1 PROVE GInv => RenderedOnce
<1> SUFFICES ASSUME GInv, NEW c \in Clients, ~ Shared(c), ~ Has(c, {"reblocked", "requeued"})
             PROVE \A n \in FrameNumbersUsed : rendered[c][n] <= 1
  BY Zenon DEF RenderedOnce
<1>1. CASE job[c].queued
  <2> PICK o, r, F, h, rd :
        /\ o = client[c].order /\ r = job[c].range /\ F = job[c].frames /\ h = history[c]
        /\ rd = rendered[c]
    OBVIOUS
  <2>1. PICK S : Alone(o, r, F, h, rd, S, slot)
    BY <1>1, AloneSays
  <2>2. h \cap {"reblocked", "requeued"} = {}
    BY Zenon DEF Has
  <2>3. OnceGood(r, F, rd, S, slot)
    BY <2>1, <2>2, Zenon DEF Alone
  <2> QED BY <2>3, Zenon DEF OnceGood
<1>2. CASE ~ job[c].queued
  <2>1. FreshOK(c)
    BY DEF GInv
  <2>2. \A n \in FrameNumbersUsed : rendered[c][n] = 0
    BY <1>2, <2>1 DEF FreshOK
  <2> QED BY <2>2
<1> QED BY <1>1, <1>2

LEMMA JobsInvariant == ASSUME NoBackwards PROVE Spec => [](IInv /\ SInv /\ GInv)
<1>1. Init => IInv /\ SInv /\ GInv
  BY InitOK, InitScripts, InitJobs
<1>2. IInv /\ SInv /\ GInv /\ [Next]_vars => (IInv /\ SInv /\ GInv)'
  BY StepOK, StepScripts, StepJobs
<1> QED BY <1>1, <1>2, PTL DEF Spec

(* A frame that is finished with exit code 0 is rendered (task.c:161,      *)
(* job.c:831, the templates), but for the exceptions ExitZeroIsRendered    *)
(* lists: for any clients, slaves, requeues and changes of range, as many  *)
(* of them as there may be.                                                *)
THEOREM FinishedFramesAreRendered == ASSUME NoBackwards PROVE Spec => []ExitZeroIsRendered
<1>1. Spec => [](IInv /\ SInv /\ GInv)
  BY JobsInvariant
<1>2. IInv /\ SInv /\ GInv => ExitZeroIsRendered
  BY RenderedFollows
<1> QED BY <1>1, <1>2, PTL

(* Nothing is rendered that nobody asked for (job.c:285, task.c:161,       *)
(* request.c:3541), if a range is changed once at most: a task of a range  *)
(* that has been replaced twice goes on unasked.                           *)
THEOREM OnlyWhatIsAskedFor ==
  ASSUME NoBackwards, MaxUpdates <= 1 PROVE Spec => []RenderedAsAsked
<1>1. Spec => [](IInv /\ SInv /\ GInv)
  BY JobsInvariant
<1>2. IInv /\ SInv /\ GInv => RenderedAsAsked
  BY AskedFollows
<1> QED BY <1>1, <1>2, PTL

(* No frame is rendered twice from one job (job.c:299, request.c:3541),    *)
(* unless blocks were changed or the check requeued a frame whose task was *)
(* over (job.c:694); if a range is changed once at most.                   *)
THEOREM EachFrameOnce == ASSUME NoBackwards, MaxUpdates <= 1 PROVE Spec => []RenderedOnce
<1>1. Spec => [](IInv /\ SInv /\ GInv)
  BY JobsInvariant
<1>2. IInv /\ SInv /\ GInv => RenderedOnce
  BY OnceFollows
<1> QED BY <1>1, <1>2, PTL
=============================================================================
