--------------------------- MODULE ServicesProofs ---------------------------
(***************************************************************************)
(* What the compressed copies, the chat, the template cache, the tokens    *)
(* and the migration promise, for any set of requests, versions, crashes,  *)
(* callers and connections, any chain of schemes and any life, interval,   *)
(* window and width of a counter, each by an inductive invariant of its    *)
(* own; and that the services side by side keep those promises.            *)
(***************************************************************************)
EXTENDS MCServices, FiniteSetTheorems, SequenceTheorems, TLAPS

-----------------------------------------------------------------------------
(* The compressed copies.  What CopiesAreSound leaves unsaid and the code  *)
(* relies on: O_EXCL makes the request that created path.gz.tmp the only   *)
(* one to write, settle or rename it; the bytes counted are those in it;   *)
(* the footer was tried before it is settled; and as one copy is finished  *)
(* before the next is begun, their times increase.                         *)

Copies == [version : Nat, blocks : Nat, footer : {"due", "written", "failed"}, time : Nat]
Answers == [from : {"none", "notfound", "copy", "file", "cut"}, version : Nat]
Before == {"start", "statgz", "opengz", "open", "create"}
Making == {"write", "close", "settle", "rename"}

TypeOK ==
    /\ file \in Versions
    /\ gz \in Requests \cup {Nobody} /\ tmp \in Requests \cup {Nobody}
    /\ data \in [Requests -> Copies]
    /\ pc \in [Requests -> Before \cup Making \cup {"done"}]
    /\ clen \in [Requests -> Nat] /\ modtime \in [Requests -> Nat]
    /\ open \in [Requests -> Nat] /\ raw \in [Requests -> Nat]
    /\ answer \in [Requests -> Answers]
    /\ left \in Nat /\ left <= Crashes

\* What a request found out about the file was true when it looked.
FoundInv ==
    \A r \in Requests :
        /\ pc[r] # "start" => /\ modtime[r] \in Versions /\ modtime[r] <= file
                              /\ clen[r] = Sizes[modtime[r]]
        /\ pc[r] \in Making \cup {"create"} => open[r] \in Versions
        /\ pc[r] \in Before => data[r] = NoData /\ raw[r] = 0
        /\ pc[r] # "done" => answer[r].from # "copy"

\* Who writes a copy has the temporary file, and has counted what is in it.
OwnerInv ==
    \A r \in Requests :
        /\ pc[r] \in Making /\ Writes(r) =>
               tmp = r /\ data[r].version = open[r] /\ data[r].blocks = raw[r]
        /\ pc[r] \in {"settle", "rename"} => Writes(r) /\ data[r].footer # "due"
        /\ pc[r] = "rename" => raw[r] = clen[r]

\* A temporary file is being written, or was when the process died.
TmpInv == tmp # Nobody => Writes(tmp) /\ (left = Crashes => pc[tmp] \in Making)

\* The copy is whole, and nobody writes to it any more.
GzInv == gz # Nobody => pc[gz] = "done" /\ CopyIsWhole

\* The next copy is never older than the last, so what a request found new
\* enough is replaced by what is new enough.
TimeInv ==
    /\ \A r \in Requests : data[r].time <= file
    /\ gz # Nobody /\ tmp # Nobody => data[gz].time <= data[tmp].time
    /\ \A r \in Requests : pc[r] = "opengz" =>
           \A w \in {gz, tmp} : w # Nobody => modtime[r] <= data[w].time

IInv == TypeOK /\ FoundInv /\ OwnerInv /\ TmpInv /\ GzInv /\ TimeInv /\ CopyIsCurrent

-----------------------------------------------------------------------------
\* Versions count from 1 and have a size.
LEMMA VersionSizes ==
    ASSUME NEW v \in Versions
    PROVE  v \in Nat /\ v # 0 /\ Sizes[v] \in Nat
  BY CacheAssumption DEF Versions

\* Times are numbers.
LEMMA Times == ASSUME TypeOK, NEW r \in Requests PROVE data[r].time \in Nat /\ data[r].version \in Nat
  BY DEF TypeOK, Copies

\* No request has begun and there is no copy.
LEMMA Begins == ASSUME Init PROVE IInv
<1> USE CacheAssumption DEF Init
<1>1. TypeOK
  BY DEF TypeOK, Versions, Copies, NoData, Answers, NoAnswer, Before
<1>2. FoundInv /\ OwnerInv /\ TmpInv /\ GzInv
  BY DEF FoundInv, OwnerInv, TmpInv, GzInv, Making, Before, NoAnswer
<1>3. TimeInv /\ CopyIsCurrent
  BY DEF TimeInv, CopyIsCurrent, Versions, NoData, NoAnswer
<1> QED
  BY <1>1, <1>2, <1>3 DEF IInv

\* An answer stays explained as long as no copy loses its version and none gets
\* an older time, and answers are not changed.
LEMMA StaysCurrent ==
    ASSUME CopyIsCurrent, answer' = answer,
           \A r \in Requests : answer[r].from = "copy" => modtime'[r] = modtime[r],
           \A r \in Requests : answer[r].from = "copy" => \A w \in Requests :
               data[w].version = answer[r].version /\ data[w].time > data[w].version =>
                   data'[w].version = data[w].version /\ data'[w].time > data[w].version
    PROVE  CopyIsCurrent'
  BY DEF CopyIsCurrent

\* A new version of the file makes nothing else newer.
LEMMA ReplaceKeeps == ASSUME IInv, Replace PROVE IInv'
<1> USE CacheAssumption DEF IInv, Replace
<1>1. TypeOK'
  BY DEF TypeOK, Versions
<1>2. file' = file + 1 /\ file \in Nat
  BY DEF TypeOK, Versions
<1>3. FoundInv' /\ OwnerInv' /\ TmpInv' /\ GzInv'
  BY <1>2 DEF FoundInv, OwnerInv, TmpInv, GzInv, CopyIsWhole, Writes, TypeOK, Versions
<1>4. TimeInv' /\ CopyIsCurrent'
  BY <1>2 DEF TimeInv, CopyIsCurrent, TypeOK, Copies
<1> QED
  BY <1>1, <1>3, <1>4

\* A crash leaves the files as they are.
LEMMA CrashKeeps == ASSUME IInv, Crash PROVE IInv'
<1> USE CacheAssumption DEF IInv, Crash
<1>1. TypeOK' /\ left' # Crashes
  BY DEF TypeOK, Before
<1>2. \A r \in Requests : pc'[r] = IF pc[r] = "start" THEN "start" ELSE "done"
  OBVIOUS
<1>3. FoundInv' /\ OwnerInv'
  BY <1>2 DEF FoundInv, OwnerInv, Making, Before
<1>4. TmpInv'
  BY <1>1 DEF TmpInv, Writes
<1>5. GzInv'
  BY <1>2 DEF GzInv, CopyIsWhole, TypeOK
<1>6. TimeInv' /\ CopyIsCurrent'
  BY <1>2 DEF TimeInv, CopyIsCurrent
<1> QED
  BY <1>1, <1>3, <1>4, <1>5, <1>6

-----------------------------------------------------------------------------
(* Requests that only look.                                                *)

\* The size and the time are those of the version the file has.
LEMMA StatKeeps == ASSUME IInv, NEW r \in Requests, Stat(r) PROVE IInv'
<1> USE CacheAssumption DEF IInv, Stat, Go
<1>1. /\ pc'[r] = "statgz" /\ modtime'[r] = file /\ clen'[r] = Sizes[file]
      /\ \A q \in Requests \ {r} : pc'[q] = pc[q] /\ modtime'[q] = modtime[q] /\ clen'[q] = clen[q]
      /\ UNCHANGED <<file, gz, tmp, data, open, raw, answer, left>>
  BY DEF TypeOK
<1>2. TypeOK'
  <2>1. file \in Nat /\ Sizes[file] \in Nat
    BY VersionSizes DEF TypeOK
  <2> QED
    BY <2>1 DEF TypeOK, Before
<1>3. FoundInv'
  BY <1>1 DEF FoundInv, TypeOK, Before, Making, Versions
<1>4. OwnerInv' /\ TmpInv'
  BY <1>1 DEF OwnerInv, TmpInv, Making, Writes, TypeOK
<1>5. GzInv'
  BY <1>1 DEF GzInv, CopyIsWhole, TypeOK
<1>6. TimeInv'
  BY <1>1 DEF TimeInv
<1>7. CopyIsCurrent'
  BY <1>1, StaysCurrent DEF FoundInv
<1> QED
  BY <1>2, <1>3, <1>4, <1>5, <1>6, <1>7

\* A copy found not older than the file: so is the next one, if one is being made.
LEMMA StatCopyKeeps == ASSUME IInv, NEW r \in Requests, StatCopy(r) PROVE IInv'
<1> USE CacheAssumption DEF IInv, StatCopy, Go
<1>1. /\ pc'[r] \in {"opengz", "open"}
      /\ pc'[r] = "opengz" => gz # Nobody /\ data[gz].time >= modtime[r]
      /\ \A q \in Requests \ {r} : pc'[q] = pc[q]
      /\ UNCHANGED <<file, gz, tmp, data, clen, modtime, open, raw, answer, left>>
  BY DEF TypeOK
<1>2. TypeOK'
  BY DEF TypeOK, Before
<1>3. FoundInv'
  BY <1>1 DEF FoundInv, TypeOK, Before, Making
<1>4. OwnerInv' /\ TmpInv'
  BY <1>1 DEF OwnerInv, TmpInv, Making, Writes, TypeOK
<1>5. GzInv'
  BY <1>1 DEF GzInv, CopyIsWhole, TypeOK
<1>6. TimeInv'
  <2>1. pc'[r] = "opengz" => modtime[r] <= data[gz].time
    BY <1>1, Times DEF TypeOK
  <2>2. pc'[r] = "opengz" /\ tmp # Nobody => modtime[r] <= data[tmp].time
    <3> SUFFICES ASSUME pc'[r] = "opengz", tmp # Nobody PROVE modtime[r] <= data[tmp].time
      OBVIOUS
    <3>1. gz \in Requests /\ tmp \in Requests /\ modtime[r] \in Nat
      BY <1>1 DEF TypeOK
    <3>2. data[gz].time <= data[tmp].time
      BY <1>1 DEF TimeInv
    <3> QED
      BY <2>1, <3>1, <3>2, Times
  <2> QED
    BY <1>1, <2>1, <2>2 DEF TimeInv
<1>7. CopyIsCurrent'
  BY <1>1 DEF CopyIsCurrent
<1> QED
  BY <1>2, <1>3, <1>4, <1>5, <1>6, <1>7

\* What is served is not older than the file was when the request began, or was
\* being written when the file was replaced.
LEMMA ServeCopyKeeps == ASSUME IInv, NEW r \in Requests, ServeCopy(r) PROVE IInv'
<1> USE CacheAssumption DEF IInv, ServeCopy, Go
<1>1. /\ pc'[r] = "done"
      /\ \A q \in Requests \ {r} : pc'[q] = pc[q] /\ answer'[q] = answer[q]
      /\ UNCHANGED <<file, gz, tmp, data, clen, modtime, open, raw, left>>
  BY DEF TypeOK
<1>2. answer'[r] = IF gz = Nobody THEN [from |-> "notfound", version |-> 0]
                   ELSE [from |-> "copy", version |-> data[gz].version]
  BY DEF TypeOK
<1>3. TypeOK'
  <2>1. answer'[r] \in Answers
    BY <1>2 DEF TypeOK, Answers, Copies
  <2> QED
    BY <2>1 DEF TypeOK
<1>4. FoundInv'
  BY <1>1 DEF FoundInv, TypeOK, Before, Making
<1>5. OwnerInv' /\ TmpInv'
  BY <1>1 DEF OwnerInv, TmpInv, Making, Writes, TypeOK
<1>6. GzInv'
  BY <1>1 DEF GzInv, CopyIsWhole, TypeOK
<1>7. TimeInv'
  BY <1>1 DEF TimeInv
<1>8. CopyIsCurrent'
  <2>1. ASSUME gz # Nobody, data[gz].version < modtime[r]
        PROVE  gz \in Requests /\ data[gz].time > data[gz].version
    BY <2>1 DEF TimeInv, TypeOK, Copies
  <2>2. ASSUME NEW q \in Requests, answer'[q].from = "copy", answer'[q].version < modtime'[q]
        PROVE  \E w \in Requests : data'[w].version = answer'[q].version /\ data'[w].time > data'[w].version
    <3>1. CASE q = r
      BY <1>1, <1>2, <2>1, <2>2, <3>1
    <3>2. CASE q # r
      BY <1>1, <2>2, <3>2 DEF CopyIsCurrent
    <3> QED
      BY <3>1, <3>2
  <2> QED
    BY <2>2 DEF CopyIsCurrent
<1> QED
  BY <1>3, <1>4, <1>5, <1>6, <1>7, <1>8

\* The version that is read is one the file has had.
LEMMA OpenKeeps == ASSUME IInv, NEW r \in Requests, Open(r) PROVE IInv'
<1> USE CacheAssumption DEF IInv, Open, Go
<1>1. /\ pc'[r] = "create" /\ open'[r] = file
      /\ \A q \in Requests \ {r} : pc'[q] = pc[q] /\ open'[q] = open[q]
      /\ UNCHANGED <<file, gz, tmp, data, clen, modtime, raw, answer, left>>
  BY DEF TypeOK
<1>2. TypeOK'
  <2>1. file \in Nat
    BY VersionSizes DEF TypeOK
  <2> QED
    BY <2>1 DEF TypeOK, Before
<1>3. FoundInv'
  BY <1>1 DEF FoundInv, TypeOK, Before, Making
<1>4. OwnerInv' /\ TmpInv'
  BY <1>1 DEF OwnerInv, TmpInv, Making, Writes, TypeOK
<1>5. GzInv'
  BY <1>1 DEF GzInv, CopyIsWhole, TypeOK
<1>6. TimeInv' /\ CopyIsCurrent'
  BY <1>1 DEF TimeInv, CopyIsCurrent
<1> QED
  BY <1>2, <1>3, <1>4, <1>5, <1>6

-----------------------------------------------------------------------------
(* Requests that make a copy.                                              *)

\* Without a temporary file nobody writes a copy; the new one is as old as the file.
LEMMA CreateKeeps == ASSUME IInv, NEW r \in Requests, Create(r) PROVE IInv'
<1> USE CacheAssumption DEF IInv, Create, Go
<1>1. /\ pc[r] = "create" /\ pc'[r] = "write"
      /\ \A q \in Requests \ {r} : pc'[q] = pc[q]
      /\ UNCHANGED <<file, gz, clen, modtime, open, raw, answer, left>>
  BY DEF TypeOK
<1>2. data[r] = NoData /\ raw[r] = 0 /\ open[r] \in Versions /\ answer[r].from # "copy"
  BY <1>1 DEF FoundInv, Making, Before
<1>3. CASE UNCHANGED <<tmp, data>>
  <2>1. TypeOK'
    BY <1>3 DEF TypeOK, Making
  <2>2. FoundInv'
    BY <1>1, <1>2, <1>3 DEF FoundInv, TypeOK, Before, Making
  <2>3. OwnerInv' /\ TmpInv'
    BY <1>1, <1>2, <1>3 DEF OwnerInv, TmpInv, Making, Writes, TypeOK, NoData
  <2>4. GzInv'
    BY <1>1, <1>3 DEF GzInv, CopyIsWhole, TypeOK
  <2>5. TimeInv' /\ CopyIsCurrent'
    BY <1>1, <1>3 DEF TimeInv, CopyIsCurrent
  <2> QED
    BY <2>1, <2>2, <2>3, <2>4, <2>5
<1>4. CASE tmp = Nobody /\ tmp' = r /\ data' = [data EXCEPT ![r] = [NoData EXCEPT !.version = open[r], !.time = file]]
  <2>1. /\ data'[r] = [version |-> open[r], blocks |-> 0, footer |-> "due", time |-> file]
        /\ \A q \in Requests \ {r} : data'[q] = data[q]
    BY <1>4 DEF TypeOK, NoData
  <2>2. TypeOK'
    <3>1. data'[r] \in Copies
      BY <2>1 DEF TypeOK, Versions, Copies
    <3> QED
      BY <1>4, <3>1 DEF TypeOK, Making
  <2>3. FoundInv'
    BY <1>1, <1>2, <2>1 DEF FoundInv, TypeOK, Before, Making
  <2>4. \A q \in Requests : ~(pc[q] \in Making /\ Writes(q))
    BY <1>4 DEF OwnerInv
  <2>5. OwnerInv' /\ TmpInv'
    <3>1. Writes(r)'
      BY <1>2, <2>1 DEF Writes, Versions
    <3>2. ASSUME NEW q \in Requests \ {r} 
          PROVE  ~(pc'[q] \in Making /\ Writes(q)') /\ pc'[q] \notin {"settle", "rename"}
      <4>1. ~(pc'[q] \in Making /\ Writes(q)')
        BY <1>1, <2>1, <2>4 DEF Writes
      <4>2. pc[q] \notin {"settle", "rename"}
        BY <2>4 DEF OwnerInv, Making
      <4> QED
        BY <1>1, <4>1, <4>2
    <3>3. OwnerInv'
      <4>1. tmp' = r /\ data'[r].version = open'[r] /\ data'[r].blocks = raw'[r]
        <5>1. data'[r].version = open[r] /\ data'[r].blocks = 0
          BY <2>1
        <5> QED
          BY <1>1, <1>2, <1>4, <5>1
      <4>2. pc'[r] \notin {"settle", "rename"}
        BY <1>1
      <4> QED
        BY <3>2, <4>1, <4>2 DEF OwnerInv
    <3> QED
      BY <1>1, <1>4, <3>1, <3>3 DEF TmpInv, Making, Writes
  <2>6. gz # Nobody => gz # r
    BY <1>1 DEF GzInv
  <2>7. GzInv'
    BY <1>1, <2>1, <2>6 DEF GzInv, CopyIsWhole, TypeOK
  <2>8. TimeInv'
    <3>1. file \in Nat /\ data'[r].time = file
      BY <2>1, VersionSizes DEF TypeOK
    <3>2. \A q \in Requests : data'[q].time <= file
      BY <2>1, <3>1 DEF TimeInv
    <3>3. gz # Nobody => data'[gz].time <= file /\ gz \in Requests
      BY <3>2 DEF TypeOK
    <3>4. \A q \in Requests : pc'[q] = "opengz" => modtime[q] <= file /\ pc[q] = "opengz"
      BY <1>1 DEF FoundInv
    <3>5. gz # Nobody => data'[gz] = data[gz]
      BY <2>1, <2>6 DEF TypeOK
    <3> QED
      BY <1>1, <1>4, <3>1, <3>2, <3>3, <3>4, <3>5 DEF TimeInv
  <2>9. CopyIsCurrent'
    <3>1. ASSUME NEW w \in Requests, data[w].time > data[w].version
          PROVE  w # r
      BY <1>2, <3>1 DEF NoData
    <3> QED
      BY <1>1, <2>1, <3>1, StaysCurrent
  <2> QED
    BY <2>2, <2>3, <2>5, <2>7, <2>8, <2>9
<1> QED
  BY <1>3, <1>4 DEF Create

\* What a write or the footer may do to a copy: its version stays, its time is
\* not older, and only the owner of the temporary file writes.
LEMMA WritingKeepsTimes ==
    ASSUME IInv, NEW r \in Requests, pc[r] \in Making,
           UNCHANGED <<file, gz, tmp, modtime>>,
           \A q \in Requests \ {r} : pc'[q] = pc[q] /\ data'[q] = data[q] /\ answer'[q] = answer[q],
           pc'[r] # "opengz", answer'[r].from # "copy",
           \/ data'[r] = data[r]
           \/ /\ Writes(r)
              /\ data'[r].version = data[r].version
              /\ data'[r].time \in {data[r].time, file}
    PROVE  TimeInv' /\ CopyIsCurrent'
<1> USE CacheAssumption DEF IInv
<1>1. gz # r
  BY DEF GzInv, Making
<1>2. gz # Nobody => gz \in Requests /\ data'[gz] = data[gz]
  BY <1>1 DEF TypeOK
<1>3. data[r].time \in Nat /\ file \in Nat /\ data[r].time <= file
  BY Times, VersionSizes DEF TypeOK, TimeInv
<1>4. data'[r].time \in Nat /\ data[r].time <= data'[r].time /\ data'[r].time <= file
      /\ data'[r].version = data[r].version
  BY <1>3
<1>5. \A w \in Requests : data[w].time <= data'[w].time /\ data'[w].time <= file /\ data'[w].time \in Nat
                          /\ data'[w].version = data[w].version
  <2> TAKE w \in Requests
  <2>1. CASE w = r
    BY <2>1, <1>4
  <2>2. CASE w # r
    BY <2>2, Times DEF TimeInv
  <2> QED
    BY <2>1, <2>2
<1>6. TimeInv'
  <2>1. ASSUME gz # Nobody, tmp # Nobody PROVE data'[gz].time <= data'[tmp].time
    <3>1. tmp \in Requests /\ data[gz].time <= data[tmp].time
      BY <2>1 DEF TimeInv, TypeOK
    <3> QED
      BY <1>2, <1>5, <2>1, <3>1, Times
  <2>2. ASSUME NEW q \in Requests, pc'[q] = "opengz", NEW w \in {gz, tmp}, w # Nobody
        PROVE  modtime[q] <= data'[w].time
    <3>1. w \in Requests /\ modtime[q] \in Nat /\ q # r
      BY <2>2 DEF TypeOK
    <3>2. pc[q] = "opengz"
      BY <2>2, <3>1
    <3>3. modtime[q] <= data[w].time
      BY <2>2, <3>2 DEF TimeInv
    <3> QED
      BY <1>5, <3>1, <3>3, Times
  <2> QED
    BY <1>5, <2>1, <2>2 DEF TimeInv
<1>7. CopyIsCurrent'
  <2> SUFFICES ASSUME NEW q \in Requests, answer'[q].from = "copy", answer'[q].version < modtime'[q]
               PROVE  \E w \in Requests : data'[w].version = answer'[q].version /\ data'[w].time > data'[w].version
    BY DEF CopyIsCurrent
  <2>1. answer'[q] = answer[q]
    OBVIOUS
  <2>2. PICK w \in Requests : data[w].version = answer[q].version /\ data[w].time > data[w].version
    BY <2>1 DEF CopyIsCurrent
  <2> QED
    BY <1>5, <2>1, <2>2, Times
<1> QED
  BY <1>6, <1>7

\* A block that is counted is in the copy.
LEMMA WriteKeeps == ASSUME IInv, NEW r \in Requests, Write(r) PROVE IInv'
<1> USE CacheAssumption DEF IInv
<1>1. /\ pc[r] = "write" /\ pc'[r] \in {"write", "close"}
      /\ \A q \in Requests \ {r} : pc'[q] = pc[q] /\ raw'[q] = raw[q] /\ data'[q] = data[q] /\ answer'[q] = answer[q]
      /\ UNCHANGED <<file, gz, tmp, clen, modtime, open, left>>
  BY DEF Write, Go, TypeOK
<1>2. /\ answer[r].from # "copy" /\ open[r] \in Versions
      /\ data[r] \in Copies /\ raw[r] \in Nat /\ file \in Nat
  BY <1>1, VersionSizes DEF FoundInv, Making, TypeOK
<1>3. answer'[r].from # "copy" /\ answer'[r] \in Answers
  <2>1. answer' = answer \/ \E f \in {"file", "cut"} : answer' = [answer EXCEPT ![r] = [from |-> f, version |-> open[r]]]
    BY DEF Write
  <2> QED
    BY <1>2, <2>1, VersionSizes DEF TypeOK, Answers
<1>4. \/ raw'[r] = raw[r] /\ data'[r] = data[r]
      \/ raw'[r] = raw[r] + 1 /\ ~Writes(r) /\ data'[r] = data[r]
      \/ raw'[r] = raw[r] + 1 /\ Writes(r)
           /\ data'[r] = [data[r] EXCEPT !.blocks = @ + 1, !.time = file]
  BY DEF Write, TypeOK
<1>5. data'[r] \in Copies /\ raw'[r] \in Nat /\ data'[r].version = data[r].version
  <2>1. CASE data'[r] = data[r]
    BY <1>2, <1>4, <2>1
  <2>2. CASE data'[r] = [data[r] EXCEPT !.blocks = @ + 1, !.time = file]
    <3>1. data'[r] \in Copies /\ data'[r].version = data[r].version
      <4>1. data'[r] = [version |-> data[r].version, blocks |-> data[r].blocks + 1, footer |-> data[r].footer, time |-> file]
        BY <1>2, <2>2 DEF Copies
      <4>2. data[r].version \in Nat /\ data[r].blocks \in Nat /\ data[r].footer \in {"due", "written", "failed"}
        BY <1>2 DEF Copies
      <4> QED
        BY <1>2, <4>1, <4>2 DEF Copies
    <3>2. raw'[r] \in Nat
      BY <1>2, <1>4
    <3> QED
      BY <3>1, <3>2
  <2> QED
    BY <1>4, <2>1, <2>2
<1>6. TypeOK'
  <2>1. /\ pc' \in [Requests -> Before \cup Making \cup {"done"}]
        /\ data' = [q \in Requests |-> data'[q]] /\ raw' = [q \in Requests |-> raw'[q]]
        /\ answer' = [q \in Requests |-> answer'[q]]
    BY DEF Write, Go, TypeOK, Making
  <2> QED
    BY <1>1, <1>3, <1>5, <2>1 DEF TypeOK
<1>7. FoundInv'
  BY <1>1, <1>3 DEF FoundInv, Making, Before
<1>8. OwnerInv'
  <2>1. ASSUME Writes(r)
        PROVE  tmp' = r /\ data'[r].version = open'[r] /\ data'[r].blocks = raw'[r]
    <3>1. tmp = r /\ data[r].version = open[r] /\ data[r].blocks = raw[r]
      BY <1>1, <2>1 DEF OwnerInv, Making
    <3>2. data'[r].blocks = raw'[r]
      BY <1>2, <1>4, <2>1, <3>1 DEF Copies
    <3> QED
      BY <1>1, <1>5, <3>1, <3>2
  <2>2. \A q \in Requests : Writes(q)' = Writes(q)
    BY <1>1, <1>5 DEF Writes
  <2> QED
    BY <1>1, <2>1, <2>2 DEF OwnerInv
<1>9. TmpInv'
  BY <1>1, <1>5 DEF TmpInv, Writes, Making, TypeOK
<1>10. GzInv'
  BY <1>1 DEF GzInv, CopyIsWhole, TypeOK
<1>11. TimeInv' /\ CopyIsCurrent'
  <2>1. \/ data'[r] = data[r]
        \/ /\ Writes(r)
           /\ data'[r].version = data[r].version
           /\ data'[r].time \in {data[r].time, file}
    BY <1>2, <1>4, <1>5 DEF Copies
  <2> QED
    BY <1>1, <1>3, <2>1, WritingKeepsTimes DEF Making
<1> QED
  BY <1>6, <1>7, <1>8, <1>9, <1>10, <1>11

\* The footer is no block; a request without a copy is done.
LEMMA CloseWriterKeeps == ASSUME IInv, NEW r \in Requests, CloseWriter(r) PROVE IInv'
<1> USE CacheAssumption DEF IInv
<1>1. /\ pc[r] = "close" /\ pc'[r] = IF Writes(r) THEN "settle" ELSE "done"
      /\ \A q \in Requests \ {r} : pc'[q] = pc[q] /\ data'[q] = data[q]
      /\ UNCHANGED <<file, gz, tmp, clen, modtime, open, raw, answer, left>>
  BY DEF CloseWriter, Go, TypeOK
<1>2. answer[r].from # "copy" /\ data[r] \in Copies /\ file \in Nat
  BY <1>1, VersionSizes DEF FoundInv, TypeOK
<1>3. \/ data'[r] = data[r]
      \/ Writes(r) /\ \E f \in {"written", "failed"} :
           data'[r] = [data[r] EXCEPT !.footer = f, !.time = IF f = "written" THEN file ELSE @]
  BY DEF CloseWriter, TypeOK
<1>4. /\ data'[r] \in Copies /\ data'[r].version = data[r].version /\ data'[r].blocks = data[r].blocks
      /\ data'[r].time \in {data[r].time, file}
  BY <1>2, <1>3 DEF Copies
<1>5. TypeOK'
  <2>1. /\ pc' \in [Requests -> Before \cup Making \cup {"done"}]
        /\ data' = [q \in Requests |-> data'[q]]
    BY DEF CloseWriter, Go, TypeOK, Making
  <2> QED
    BY <1>1, <1>4, <2>1 DEF TypeOK
<1>6. FoundInv'
  BY <1>1, <1>2 DEF FoundInv, Making, Before
<1>7. \A q \in Requests : /\ Writes(q)' = Writes(q)
                          /\ data'[q].version = data[q].version /\ data'[q].blocks = data[q].blocks
  BY <1>1, <1>4 DEF Writes
<1>8. OwnerInv'
  <2>1. Writes(r) => data'[r].footer # "due"
    <3>1. Writes(r) => \E f \in {"written", "failed"} :
            data'[r] = [data[r] EXCEPT !.footer = f, !.time = IF f = "written" THEN file ELSE @]
      BY DEF CloseWriter, TypeOK
    <3> QED
      BY <1>2, <3>1 DEF Copies
  <2> QED
    BY <1>1, <1>7, <2>1 DEF OwnerInv, Making
<1>9. TmpInv'
  <2>1. tmp # Nobody => tmp \in Requests /\ Writes(tmp)
    BY DEF TmpInv, TypeOK
  <2> QED
    BY <1>1, <1>7, <2>1 DEF TmpInv, Making, Writes
<1>10. GzInv'
  BY <1>1 DEF GzInv, CopyIsWhole, TypeOK
<1>11. TimeInv' /\ CopyIsCurrent'
  BY <1>1, <1>2, <1>3, <1>4, WritingKeepsTimes DEF Making
<1> QED
  BY <1>5, <1>6, <1>8, <1>9, <1>10, <1>11

\* A copy is kept only if what was counted is what the file had; else the
\* temporary file goes.
LEMMA SettleKeeps == ASSUME IInv, NEW r \in Requests, Settle(r) PROVE IInv'
<1> USE CacheAssumption DEF IInv, Settle, Go
<1>1. /\ pc[r] = "settle" /\ Writes(r) /\ tmp = r
      /\ \A q \in Requests \ {r} : pc'[q] = pc[q]
      /\ UNCHANGED <<file, data, clen, modtime, open, raw, answer, left>>
  BY DEF OwnerInv, TypeOK, Making
<1>2. \/ pc'[r] = "rename" /\ raw[r] = clen[r] /\ gz' = Nobody /\ tmp' = tmp
      \/ pc'[r] = "done" /\ tmp' = Nobody /\ gz' = gz
  BY DEF TypeOK
<1>3. TypeOK'
  <2>1. pc' \in [Requests -> Before \cup Making \cup {"done"}]
    BY DEF TypeOK, Making
  <2> QED
    BY <1>1, <1>2, <2>1 DEF TypeOK
<1>4. FoundInv'
  BY <1>1, <1>2 DEF FoundInv, Making, Before
<1>5. \A q \in Requests : Writes(q)' = Writes(q)
  BY <1>1 DEF Writes
<1>6. OwnerInv'
  <2>1. \A q \in Requests \ {r} : ~(pc[q] \in Making /\ Writes(q))
    BY <1>1 DEF OwnerInv
  <2> QED
    BY <1>1, <1>2, <1>5, <2>1 DEF OwnerInv, Making
<1>7. TmpInv'
  BY <1>1, <1>2 DEF TmpInv, Making, Writes
<1>8. GzInv'
  BY <1>1, <1>2 DEF GzInv, CopyIsWhole, TypeOK
<1>9. TimeInv' /\ CopyIsCurrent'
  BY <1>1, <1>2 DEF TimeInv, CopyIsCurrent
<1> QED
  BY <1>3, <1>4, <1>6, <1>7, <1>8, <1>9

\* What gets the copy's name has as many blocks as the version had whose size was
\* found.
LEMMA RenameKeeps == ASSUME IInv, NEW r \in Requests, Rename(r) PROVE IInv'
<1> USE CacheAssumption DEF IInv, Rename, Go
<1>1. /\ pc[r] = "rename" /\ pc'[r] = "done" /\ Writes(r) /\ raw[r] = clen[r]
      /\ \A q \in Requests \ {r} : pc'[q] = pc[q]
      /\ UNCHANGED <<file, data, clen, modtime, open, raw, answer, left>>
      /\ tmp' = Nobody
  BY DEF OwnerInv, TypeOK
<1>2. tmp = r /\ data[r].blocks = raw[r] /\ gz' \in {r, gz}
  BY <1>1 DEF OwnerInv, Making
<1>3. TypeOK'
  <2>1. pc' \in [Requests -> Before \cup Making \cup {"done"}]
    BY DEF TypeOK
  <2> QED
    BY <1>1, <1>2, <2>1 DEF TypeOK
<1>4. FoundInv'
  BY <1>1 DEF FoundInv, Making, Before
<1>5. OwnerInv'
  <2>1. \A q \in Requests \ {r} : ~(pc[q] \in Making /\ Writes(q))
    BY <1>2 DEF OwnerInv
  <2> QED
    BY <1>1, <2>1 DEF OwnerInv, Making, Writes
<1>6. TmpInv'
  BY <1>1 DEF TmpInv
<1>7. GzInv'
  <2>1. CASE gz' = r
    <3>1. data[r].blocks = Sizes[modtime[r]]
      BY <1>1, <1>2 DEF FoundInv
    <3>2. data[r].footer \in {"written", "failed"}
      BY <1>1 DEF OwnerInv, TypeOK, Copies
    <3> QED
      BY <1>1, <2>1, <3>1, <3>2 DEF GzInv, CopyIsWhole
  <2>2. CASE gz' = gz
    BY <1>1, <2>2 DEF GzInv, CopyIsWhole, TypeOK
  <2> QED
    BY <1>2, <2>1, <2>2
<1>8. TimeInv' /\ CopyIsCurrent'
  BY <1>1, <1>2 DEF TimeInv, CopyIsCurrent
<1> QED
  BY <1>3, <1>4, <1>5, <1>6, <1>7, <1>8

-----------------------------------------------------------------------------
\* Whatever requests, replacements, failures and crashes meet, the copies are whole
\* but for a footer whose write failed and for a version that took the place of the
\* one that was sized, current but for a race, and the temporary file has an owner
\* until the process dies (static.go:67-187), for any number of requests, versions
\* and crashes.
THEOREM CopiesAlwaysSound == Spec => []CopiesAreSound
<1>1. Init => IInv
  BY Begins
<1>2. IInv /\ [Next]_vars => IInv'
  <2> SUFFICES ASSUME IInv, [Next]_vars PROVE IInv'
    OBVIOUS
  <2>1. CASE UNCHANGED vars
    <3> USE <2>1 DEF vars, IInv
    <3>1. TypeOK' /\ FoundInv' /\ TmpInv'
      BY DEF TypeOK, FoundInv, TmpInv, Writes
    <3>2. OwnerInv' /\ GzInv'
      BY DEF OwnerInv, GzInv, CopyIsWhole, Writes
    <3>3. TimeInv' /\ CopyIsCurrent'
      BY DEF TimeInv, CopyIsCurrent
    <3> QED
      BY <3>1, <3>2, <3>3
  <2>2. CASE Replace \/ Crash
    BY <2>2, ReplaceKeeps, CrashKeeps
  <2>3. ASSUME NEW r \in Requests, ServeHTTP(r) PROVE IInv'
    BY <2>3, StatKeeps, StatCopyKeeps, ServeCopyKeeps, OpenKeeps, CreateKeeps, WriteKeeps,
       CloseWriterKeeps, SettleKeeps, RenameKeeps DEF ServeHTTP
  <2> QED
    BY <2>1, <2>2, <2>3 DEF Next
<1>3. IInv => CopiesAreSound
  BY DEF IInv, CopiesAreSound, GzInv, CopyIsWhole, TmpInv, TemporaryIsOwned, Making
<1> QED
  BY <1>1, <1>2, <1>3, PTL DEF Spec

-----------------------------------------------------------------------------
(* The chat.  What BroadcastWaits leaves unsaid: the WaitGroup of a        *)
(* broadcast is the number of connections it has not come to and of those  *)
(* its writers are at, as long as every user has one connection.           *)

ChatTypes ==
    /\ clients \in SUBSET Contexts /\ doubled \in BOOLEAN
    /\ callerpc \in [Callers -> {"idle", "lock", "rlock", "message", "drop", "broadcast"}]
    /\ arg \in [Callers -> [op : {"none", "AddChannel", "Broadcast", "AddClient", "RemoveClient", "MessageClient"},
                            clients : SUBSET Contexts]]
    /\ copy \in [Callers -> SUBSET Contexts] /\ writing \in [Callers -> SUBSET Contexts]
    /\ wg \in [Callers -> Int]

Counts(g) ==
    IF callerpc[g] = "broadcast"
    THEN copy[g] \cap writing[g] = {} /\ wg[g] = Cardinality(copy[g]) + Cardinality(writing[g])
    ELSE writing[g] = {}

ChatInv ==
    /\ ChatTypes
    /\ ~doubled => ~crashed /\ \A g \in Callers : Counts(g)

\* The numbers of the instance are those of this module.
LEMMA SameCardinality == \A S : Chat!Cardinality(S) = Cardinality(S)
  BY DEF Chat!Cardinality, Cardinality

\* The sets that are counted.
LEMMA Connected ==
  \A S \in SUBSET Contexts :
     /\ IsFiniteSet(S) /\ Cardinality(S) \in Nat /\ (Cardinality(S) = 0 <=> S = {})
     /\ \A c \in S : Cardinality(S \ {c}) = Cardinality(S) - 1
     /\ \A c \in Contexts : c \notin S => Cardinality(S \cup {c}) = Cardinality(S) + 1
  <1> SUFFICES ASSUME NEW S \in SUBSET Contexts
               PROVE  /\ IsFiniteSet(S) /\ Cardinality(S) \in Nat /\ (Cardinality(S) = 0 <=> S = {})
                      /\ \A c \in S : Cardinality(S \ {c}) = Cardinality(S) - 1
                      /\ \A c \in Contexts : c \notin S => Cardinality(S \cup {c}) = Cardinality(S) + 1
    OBVIOUS
  <1>1. IsFiniteSet(S)
    BY ChatAssumption, FS_Subset
  <1>2. QED BY <1>1, FS_CardinalityType, FS_EmptySet, FS_AddElement, FS_RemoveElement

\* A channel has at most as many users as connections.
LEMMA FewerUsers ==
  ASSUME clients \in SUBSET Contexts
  PROVE  /\ Cardinality(Chat!UsersOf(clients)) \in Nat
         /\ Cardinality(Chat!UsersOf(clients)) <= Cardinality(clients)
  <1> DEFINE U == {user[c] : c \in clients}
  <1>1. IsFiniteSet(clients)
    BY Connected
  <1>2. IsFiniteSet(U) /\ Cardinality(U) <= Cardinality(clients)
    <2>1. [c \in clients |-> user[c]] \in Surjection(clients, U)
      BY DEF Surjection
    <2> HIDE DEF U
    <2>2. QED BY <1>1, <2>1, FS_Surjection
  <1>3. QED BY <1>2, FS_CardinalityType DEF Chat!UsersOf

\* An empty channel, or a filled one, and no call yet (websocket.go:10-19).
LEMMA ChatBegins == Chat!Init => ChatInv
  <1> SUFFICES ASSUME Chat!Init PROVE ChatInv
    OBVIOUS
  <1>1. /\ clients \in SUBSET Contexts /\ doubled = FALSE /\ crashed = FALSE
        /\ callerpc = [g \in Callers |-> "idle"] /\ arg = [g \in Callers |-> [op |-> "none", clients |-> {}]]
        /\ copy = [g \in Callers |-> {}] /\ writing = [g \in Callers |-> {}] /\ wg = [g \in Callers |-> 0]
    BY DEF Chat!Init, Chat!NoCall
  <1>2. ChatTypes
    <2>1. arg \in [Callers -> [op : {"none", "AddChannel", "Broadcast", "AddClient", "RemoveClient", "MessageClient"},
                              clients : SUBSET Contexts]]
      BY <1>1
    <2>2. /\ callerpc \in [Callers -> {"idle", "lock", "rlock", "message", "drop", "broadcast"}]
          /\ copy \in [Callers -> SUBSET Contexts] /\ writing \in [Callers -> SUBSET Contexts]
          /\ wg \in [Callers -> Int]
      BY <1>1
    <2>3. QED BY <1>1, <2>1, <2>2, Zenon DEF ChatTypes
  <1>3. \A g \in Callers : Counts(g)
    BY <1>1 DEF Counts
  <1>4. QED BY <1>1, <1>2, <1>3 DEF ChatInv

\* What a call may be.
LEMMA CallIs ==
  ASSUME NEW call \in Chat!Calls
  PROVE  call \in [op : {"none", "AddChannel", "Broadcast", "AddClient", "RemoveClient", "MessageClient"},
                   clients : SUBSET Contexts]
  BY DEF Chat!Calls, Chat!Connections, Chat!UsersOf

\* Steps that no broadcast is touched by.
LEMMA BroadcastsApart ==
  ASSUME ChatInv, ChatTypes', UNCHANGED <<writing, wg, crashed, doubled>>,
         \A g \in Callers : /\ callerpc'[g] = "broadcast" <=> callerpc[g] = "broadcast"
                            /\ callerpc[g] = "broadcast" => copy'[g] = copy[g]
  PROVE  ChatInv'
  BY DEF ChatInv, Counts

\* A call begins, ends or goes on without the broadcast's WaitGroup
\* (websocket.go:26-122).
LEMMA CallKeepsChat ==
  ASSUME ChatInv, NEW g \in Callers,
         \/ \E call \in Chat!Calls : Chat!Start(g, call)
         \/ Chat!Update(g) \/ Chat!Client(g) \/ Chat!Message(g) \/ Chat!Drop(g)
  PROVE  ChatInv'
  <1>1. ChatTypes
    BY DEF ChatInv
  <1>2. UNCHANGED <<writing, wg, crashed, doubled>>
    BY DEF Chat!Start, Chat!Update, Chat!Client, Chat!Message, Chat!Drop
  <1>3. callerpc[g] # "broadcast"
    BY DEF Chat!Start, Chat!Update, Chat!Client, Chat!Message, Chat!Drop
  <1>4. \E p \in {"idle", "lock", "rlock", "message", "drop"} : callerpc' = [callerpc EXCEPT ![g] = p]
    <2>1. ASSUME NEW call \in Chat!Calls, Chat!Start(g, call)
          PROVE  \E p \in {"idle", "lock", "rlock", "message", "drop"} : callerpc' = [callerpc EXCEPT ![g] = p]
      BY <2>1 DEF Chat!Start
    <2>2. CASE Chat!Update(g)
      BY <2>2 DEF Chat!Update, Chat!Return
    <2>3. CASE Chat!Client(g)
      BY <2>3 DEF Chat!Client
    <2>4. CASE Chat!Message(g)
      <3>1. CASE callerpc' = callerpc
        <4>1. callerpc = [callerpc EXCEPT ![g] = "message"]
          BY <1>1, <2>4 DEF Chat!Message, ChatTypes
        <4>2. QED BY <3>1, <4>1
      <3>2. QED BY <2>4, <3>1 DEF Chat!Message, Chat!Return
    <2>5. CASE Chat!Drop(g)
      BY <2>5 DEF Chat!Drop
    <2>6. QED BY <2>1, <2>2, <2>3, <2>4, <2>5
  <1>5. \E S \in SUBSET Contexts : copy' = [copy EXCEPT ![g] = S]
    <2>1. CASE copy' = copy
      <3>1. copy = [copy EXCEPT ![g] = copy[g]] /\ copy[g] \in SUBSET Contexts
        BY <1>1 DEF ChatTypes
      <3>2. QED BY <2>1, <3>1
    <2>2. CASE Chat!Client(g)
      BY <1>1, <2>2 DEF Chat!Client, ChatTypes
    <2>3. CASE Chat!Message(g)
      <3>1. copy[g] \in SUBSET Contexts
        BY <1>1 DEF ChatTypes
      <3>2. QED BY <2>1, <2>3, <3>1 DEF Chat!Message
    <2>4. QED BY <2>1, <2>2, <2>3 DEF Chat!Start, Chat!Update, Chat!Drop
  <1>6. clients' \in SUBSET Contexts
    <2>1. arg[g].clients \in SUBSET Contexts
      BY <1>1 DEF ChatTypes
    <2>2. QED BY <1>1, <2>1 DEF ChatTypes, Chat!Start, Chat!Update, Chat!Client, Chat!Message, Chat!Drop
  <1> DEFINE Args == [op : {"none", "AddChannel", "Broadcast", "AddClient", "RemoveClient", "MessageClient"},
                      clients : SUBSET Contexts]
  <1>7. arg' \in [Callers -> Args]
    <2>1. arg \in [Callers -> Args]
      BY <1>1 DEF ChatTypes
    <2>2. [op |-> "none", clients |-> {}] \in Args
      OBVIOUS
    <2>3. ASSUME NEW c \in copy[g] PROVE [arg EXCEPT ![g].clients = {c}] \in [Callers -> Args]
      <3>1. {c} \in SUBSET Contexts
        BY <1>1 DEF ChatTypes
      <3>2. QED BY <2>1, <3>1
    <2>4. ASSUME NEW call \in Chat!Calls, Chat!Start(g, call) PROVE arg' \in [Callers -> Args]
      <3>1. call \in Args
        BY CallIs
      <3>2. arg' = [arg EXCEPT ![g] = call]
        BY <2>4 DEF Chat!Start
      <3> HIDE DEF Args
      <3>3. QED BY <2>1, <3>1, <3>2
    <2> HIDE DEF Args
    <2>5. CASE Chat!Return(g)
      BY <2>1, <2>2, <2>5 DEF Chat!Return, Chat!NoCall
    <2>6. CASE Chat!Message(g)
      BY <2>1, <2>3, <2>5, <2>6 DEF Chat!Message
    <2>7. QED BY <2>1, <2>4, <2>5, <2>6 DEF Chat!Update, Chat!Client, Chat!Drop
  <1>8. ChatTypes'
    BY <1>1, <1>2, <1>4, <1>5, <1>6, <1>7 DEF ChatTypes
  <1>9. \A h \in Callers : /\ callerpc'[h] = "broadcast" <=> callerpc[h] = "broadcast"
                           /\ callerpc[h] = "broadcast" => copy'[h] = copy[h]
    BY <1>1, <1>3, <1>4, <1>5 DEF ChatTypes
  <1>10. QED BY <1>2, <1>8, <1>9, BroadcastsApart

\* The WaitGroup is given the number of users, which is that of connections unless
\* a user has two (websocket.go:124-132).
LEMMA BroadcastKeeps ==
  ASSUME ChatInv, NEW g \in Callers, Chat!Broadcast(g)
  PROVE  ChatInv'
  <1>1. ChatTypes /\ callerpc[g] = "rlock" /\ UNCHANGED <<clients, writing, crashed>>
    BY DEF ChatInv, Chat!Broadcast
  <1>2. CASE channel
    <2>1. /\ copy' = [copy EXCEPT ![g] = clients] /\ arg' = arg
          /\ wg' = [wg EXCEPT ![g] = Cardinality(Chat!UsersOf(clients))]
          /\ doubled' = (doubled \/ Cardinality(clients) > Cardinality(Chat!UsersOf(clients)))
          /\ callerpc' = [callerpc EXCEPT ![g] = "broadcast"]
      BY <1>2, SameCardinality, Zenon DEF Chat!Broadcast
    <2>2. clients \in SUBSET Contexts /\ Cardinality(Chat!UsersOf(clients)) \in Nat
          /\ Cardinality(Chat!UsersOf(clients)) <= Cardinality(clients)
      BY <1>1, FewerUsers DEF ChatTypes
    <2>3. ChatTypes'
      BY <1>1, <2>1, <2>2 DEF ChatTypes
    <2>4. ASSUME ~doubled', NEW h \in Callers PROVE ~crashed /\ Counts(h)'
      <3>1. ~doubled /\ Cardinality(Chat!UsersOf(clients)) = Cardinality(clients)
        <4>1. ~doubled /\ ~(Cardinality(clients) > Cardinality(Chat!UsersOf(clients)))
          BY <2>1, <2>4, Zenon
        <4>2. Cardinality(clients) \in Nat
          BY <2>2, Connected
        <4>3. QED BY <2>2, <4>1, <4>2
      <3>2. ~crashed /\ Counts(h) /\ Counts(g)
        BY <3>1 DEF ChatInv
      <3>3. CASE h # g
        BY <1>1, <2>1, <3>2, <3>3 DEF Counts, ChatTypes
      <3>4. CASE h = g
        <4>1. writing[g] = {} /\ Cardinality({}) = 0
          BY <1>1, <3>2, FS_EmptySet DEF Counts
        <4>2. callerpc'[g] = "broadcast" /\ copy'[g] = clients /\ writing'[g] = {} /\ wg'[g] = Cardinality(clients)
          BY <1>1, <2>1, <3>1, <4>1 DEF ChatTypes
        <4>3. QED BY <2>2, <3>2, <3>4, <4>1, <4>2, Connected DEF Counts
      <3>5. QED BY <3>2, <3>3, <3>4
    <2>5. QED BY <1>1, <2>3, <2>4 DEF ChatInv
  <1>3. CASE ~channel
    <2>1. /\ UNCHANGED <<copy, wg, doubled>> /\ callerpc' = [callerpc EXCEPT ![g] = "idle"]
          /\ arg' = [arg EXCEPT ![g] = [op |-> "none", clients |-> {}]]
      BY <1>3 DEF Chat!Broadcast, Chat!Return, Chat!NoCall
    <2>2. ChatTypes'
      BY <1>1, <2>1 DEF ChatTypes
    <2>3. \A h \in Callers : callerpc'[h] = "broadcast" <=> callerpc[h] = "broadcast"
      BY <1>1, <2>1 DEF ChatTypes
    <2>4. QED BY <1>1, <2>1, <2>2, <2>3, BroadcastsApart
  <1>4. QED BY <1>2, <1>3

\* A writer is started, or has written and counts itself out; the last one has
\* left the WaitGroup at zero (websocket.go:134-162).
LEMMA WritersKeep ==
  ASSUME ChatInv, NEW g \in Callers,
         Chat!Spawn(g) \/ \E c \in Contexts : Chat!Writer(g, c)
  PROVE  ChatInv'
  <1>1. ChatTypes /\ UNCHANGED <<clients, callerpc, arg, doubled>>
    BY DEF ChatInv, Chat!Spawn, Chat!Writer
  <1>2. copy[g] \in SUBSET Contexts /\ writing[g] \in SUBSET Contexts /\ wg[g] \in Int
    BY <1>1 DEF ChatTypes
  <1>3. ASSUME NEW c \in copy[g], callerpc[g] = "broadcast", UNCHANGED <<wg, crashed>>,
               copy' = [copy EXCEPT ![g] = @ \ {c}], writing' = [writing EXCEPT ![g] = @ \cup {c}]
        PROVE  ChatInv'
    <2>1. /\ \A h \in Callers \ {g} : copy'[h] = copy[h] /\ writing'[h] = writing[h]
          /\ copy'[g] = copy[g] \ {c} /\ writing'[g] = writing[g] \cup {c} /\ c \in Contexts
      BY <1>1, <1>2, <1>3 DEF ChatTypes
    <2>2. ChatTypes'
      BY <1>1, <1>2, <1>3 DEF ChatTypes
    <2>3. ASSUME Counts(g) PROVE Counts(g)'
      <3>1. c \notin writing[g]
        BY <1>3, <2>3 DEF Counts
      <3>2. /\ Cardinality(copy'[g]) = Cardinality(copy[g]) - 1
            /\ Cardinality(writing'[g]) = Cardinality(writing[g]) + 1
        BY <1>2, <2>1, <3>1, Connected
      <3>3. Cardinality(copy[g]) \in Nat /\ Cardinality(writing[g]) \in Nat
        BY <1>2, Connected
      <3>4. copy'[g] \cap writing'[g] = {}
        BY <1>3, <2>1, <2>3 DEF Counts
      <3>5. QED BY <1>1, <1>3, <2>3, <3>2, <3>3, <3>4 DEF Counts
    <2>4. ASSUME NEW h \in Callers, h # g, Counts(h) PROVE Counts(h)'
      BY <1>1, <1>3, <2>1, <2>4 DEF Counts
    <2>5. QED BY <1>1, <1>3, <2>2, <2>3, <2>4 DEF ChatInv
  <1>4. ASSUME NEW c \in writing[g], Chat!Done(g, c), copy' = copy
        PROVE  ChatInv'
    <2>1. /\ writing' = [writing EXCEPT ![g] = @ \ {c}] /\ wg' = [wg EXCEPT ![g] = @ - 1]
          /\ crashed' = (wg[g] = 0)
      BY <1>4 DEF Chat!Done
    <2>2. /\ \A h \in Callers \ {g} : wg'[h] = wg[h] /\ writing'[h] = writing[h]
          /\ wg'[g] = wg[g] - 1 /\ writing'[g] = writing[g] \ {c}
      BY <1>1, <2>1 DEF ChatTypes
    <2>3. ChatTypes'
      BY <1>1, <1>2, <1>4, <2>1 DEF ChatTypes
    <2>4. ASSUME Counts(g) PROVE ~crashed' /\ Counts(g)'
      <3>1. callerpc[g] = "broadcast"
        BY <1>4, <2>4 DEF Counts
      <3>2. Cardinality(writing'[g]) = Cardinality(writing[g]) - 1
        BY <1>2, <2>2, Connected
      <3>3. Cardinality(copy[g]) \in Nat /\ Cardinality(writing[g]) \in Nat /\ Cardinality(writing[g]) # 0
        BY <1>2, <1>4, Connected
      <3>4. wg[g] = Cardinality(copy[g]) + Cardinality(writing[g]) /\ copy[g] \cap writing'[g] = {}
        BY <2>2, <2>4, <3>1 DEF Counts
      <3>5. ~crashed'
        <4>1. wg[g] # 0
          BY <3>3, <3>4
        <4>2. QED BY <2>1, <4>1, Zenon
      <3>6. QED BY <1>1, <1>4, <2>2, <3>1, <3>2, <3>3, <3>4, <3>5 DEF Counts
    <2>5. ASSUME NEW h \in Callers, h # g, Counts(h) PROVE Counts(h)'
      BY <1>1, <1>4, <2>2, <2>5 DEF Counts
    <2>6. QED BY <1>1, <2>3, <2>4, <2>5 DEF ChatInv
  <1>5. QED BY <1>3, <1>4 DEF Chat!Spawn, Chat!Writer

\* Wait returns when no writer is left (websocket.go:161).
LEMMA WaitKeeps ==
  ASSUME ChatInv, NEW g \in Callers, Chat!Wait(g)
  PROVE  ChatInv'
  <1>1. /\ ChatTypes /\ UNCHANGED <<clients, copy, writing, wg, crashed, doubled>>
        /\ callerpc[g] = "broadcast" /\ copy[g] = {} /\ wg[g] = 0
        /\ callerpc' = [callerpc EXCEPT ![g] = "idle"]
        /\ arg' = [arg EXCEPT ![g] = [op |-> "none", clients |-> {}]]
    BY DEF ChatInv, Chat!Wait, Chat!Return, Chat!NoCall
  <1>2. ChatTypes'
    BY <1>1 DEF ChatTypes
  <1>3. ASSUME Counts(g) PROVE Counts(g)'
    <2>1. writing[g] \in SUBSET Contexts /\ Cardinality({}) = 0
      BY <1>1, FS_EmptySet DEF ChatTypes
    <2>2. Cardinality(writing[g]) = 0
      BY <1>1, <1>3, <2>1, Connected DEF Counts
    <2>3. writing[g] = {}
      BY <2>1, <2>2, Connected
    <2>4. callerpc'[g] = "idle"
      BY <1>1 DEF ChatTypes
    <2>5. QED BY <1>1, <2>3, <2>4 DEF Counts
  <1>4. ASSUME NEW h \in Callers, h # g, Counts(h) PROVE Counts(h)'
    BY <1>1, <1>4 DEF Counts, ChatTypes
  <1>5. QED BY <1>1, <1>2, <1>3, <1>4 DEF ChatInv

\* A broadcast returns only when every connection it met was written to, and its
\* WaitGroup never goes below zero, for any callers, connections, users and size of
\* the queue, as long as no user has two connections (websocket.go:124-163).
THEOREM BroadcastsAlwaysWait == Chat!Spec => []Chat!BroadcastWaits
  <1>1. ChatInv /\ [Chat!Next]_(Chat!vars) => ChatInv'
    <2> SUFFICES ASSUME ChatInv, [Chat!Next]_(Chat!vars) PROVE ChatInv'
      OBVIOUS
    <2>1. ASSUME UNCHANGED <<callerpc, arg, copy, writing, wg, crashed, doubled>>, clients' \in SUBSET Contexts
          PROVE  ChatInv'
      BY <2>1 DEF ChatInv, ChatTypes, Counts
    <2>2. clients \in SUBSET Contexts
      BY DEF ChatInv, ChatTypes
    <2>3. CASE UNCHANGED Chat!vars
      BY <2>1, <2>2, <2>3 DEF Chat!vars
    <2>4. ASSUME NEW c \in Contexts, Chat!Fail(c) \/ Chat!Stall(c) \/ Chat!Ask(c) \/ Chat!Removal(c)
          PROVE  ChatInv'
      BY <2>1, <2>2, <2>4 DEF Chat!Fail, Chat!Stall, Chat!Ask, Chat!Removal
    <2>5. ASSUME NEW g \in Callers,
                 (\E call \in Chat!Calls : Chat!Start(g, call)) \/ Chat!Step(g) \/ \E c \in Contexts : Chat!Writer(g, c)
          PROVE  ChatInv'
      BY <2>5, CallKeepsChat, BroadcastKeeps, WritersKeep, WaitKeeps DEF Chat!Step
    <2>6. QED BY <2>3, <2>4, <2>5 DEF Chat!Next
  <1>2. ChatInv => Chat!BroadcastWaits
    BY DEF ChatInv, Counts, Chat!BroadcastWaits
  <1>3. QED BY <1>1, <1>2, ChatBegins, PTL DEF Chat!Spec

-----------------------------------------------------------------------------
(* The template cache.  TemplatesExpire is inductive together with the     *)
(* types of the variables, because every action that takes an entry out of *)
(* the map stops its timer in the same critical section.                   *)

TemplateTypes ==
    /\ cached \in Viewers \cup {Templates!NoEntry}
    /\ timer \in [Viewers -> {"none", "armed", "fired", "stopped"}]
    /\ deleting \in [Viewers -> Nat]
    /\ view \in [Viewers -> {"look", "parse", "store", "done"}]

TemplatesInv == TemplateTypes /\ TemplatesExpire

\* A cache begins empty, without timers (view.go:17-20).
LEMMA TemplatesBegin == Templates!Init => TemplatesInv
  BY DEF Templates!Init, TemplatesInv, TemplateTypes, TemplatesExpire, Templates!TemplatesExpire

\* A lookup arms the timer of the entry in the map and of no other
\* (view.go:152-161).
LEMMA LookKeeps ==
  ASSUME NEW r \in Viewers, TemplatesInv, Templates!Look(r) PROVE TemplatesInv'
  <1> USE DEF TemplatesInv, TemplateTypes, TemplatesExpire, Templates!TemplatesExpire
  <1>1. CASE cached # Templates!NoEntry
    <2>1. timer' = [timer EXCEPT ![cached] = "armed"] /\ view' = [view EXCEPT ![r] = "done"]
      BY <1>1 DEF Templates!Look, Templates!Go
    <2>2. cached' = cached /\ deleting' = deleting /\ cached \in Viewers
      BY <1>1 DEF Templates!Look
    <2>3. QED BY <2>1, <2>2
  <1>2. CASE cached = Templates!NoEntry
    <2>1. view' = [view EXCEPT ![r] = "parse"]
      BY <1>2 DEF Templates!Look, Templates!Go
    <2>2. cached' = cached /\ deleting' = deleting /\ timer' = timer
      BY <1>2 DEF Templates!Look
    <2>3. QED BY <2>1, <2>2
  <1>3. QED BY <1>1, <1>2

\* Parsing touches neither the map nor a timer (view.go:98-114).
LEMMA ParseKeeps ==
  ASSUME NEW r \in Viewers, TemplatesInv, Templates!Parse(r) PROVE TemplatesInv'
  BY DEF TemplatesInv, TemplateTypes, TemplatesExpire, Templates!TemplatesExpire, Templates!Parse, Templates!Go

\* A store stops the timer of the entry it replaces (view.go:163-173).
LEMMA StoreKeeps ==
  ASSUME NEW r \in Viewers, TemplatesInv, Templates!Store(r) PROVE TemplatesInv'
  <1> USE DEF TemplatesInv, TemplateTypes, TemplatesExpire, Templates!TemplatesExpire
  <1>1. cached' = r /\ deleting' = deleting /\ view' = [view EXCEPT ![r] = "done"]
    BY DEF Templates!Store, Templates!Go
  <1>2. \A e \in Viewers : timer'[e] = IF e = r THEN "armed" ELSE IF e = cached THEN "stopped" ELSE timer[e]
    BY DEF Templates!Store
  <1>3. timer' \in [Viewers -> {"none", "armed", "fired", "stopped"}]
    <2>1. timer' = [e \in Viewers |-> timer'[e]]
      BY DEF Templates!Store
    <2>2. \A e \in Viewers : timer'[e] \in {"none", "armed", "fired", "stopped"}
      BY <1>2
    <2>3. QED BY <2>1, <2>2
  <1>4. \A e \in Viewers : timer'[e] = "armed" => e = cached'
    BY <1>1, <1>2
  <1>5. QED BY <1>1, <1>2, <1>3, <1>4

\* A timer that runs down was that of the entry in the map, and starts the
\* deletion that will take it (view.go:171).
LEMMA FireKeeps ==
  ASSUME NEW e \in Viewers, TemplatesInv, Templates!Fire(e) PROVE TemplatesInv'
  <1> USE DEF TemplatesInv, TemplateTypes, TemplatesExpire, Templates!TemplatesExpire
  <1>1. e = cached /\ cached' = cached /\ view' = view
    BY DEF Templates!Fire
  <1>2. timer' = [timer EXCEPT ![e] = "fired"] /\ deleting' = [deleting EXCEPT ![e] = @ + 1]
    BY DEF Templates!Fire
  <1>3. deleting' \in [Viewers -> Nat] /\ deleting'[e] > 0
    BY <1>2
  <1>4. QED BY <1>1, <1>2, <1>3

\* A deletion stops the timer of the entry it takes (view.go:175-183).
LEMMA DeleteKeeps ==
  ASSUME NEW e \in Viewers, TemplatesInv, Templates!Delete(e) PROVE TemplatesInv'
  <1> USE DEF TemplatesInv, TemplateTypes, TemplatesExpire, Templates!TemplatesExpire
  <1>1. cached' = Templates!NoEntry /\ view' = view
    BY DEF Templates!Delete
  <1>2. deleting' \in [Viewers -> Nat]
    BY DEF Templates!Delete
  <1>3. timer' = [c \in Viewers |-> IF c = cached THEN "stopped" ELSE timer[c]]
    BY DEF Templates!Delete
  <1>4. \A c \in Viewers : timer'[c] # "armed"
    BY <1>3
  <1>5. timer' \in [Viewers -> {"none", "armed", "fired", "stopped"}]
    BY <1>3
  <1>6. QED BY <1>1, <1>2, <1>4, <1>5

\* Whatever requests, timers and deletions meet, the entry in the map is on its
\* way out and no timer outlives its entry (view.go:96-183).
THEOREM TemplatesAlwaysExpire == Templates!Spec => []TemplatesExpire
  <1>1. TemplatesInv /\ [Templates!Next]_(Templates!vars) => TemplatesInv'
    <2> SUFFICES ASSUME TemplatesInv, [Templates!Next]_(Templates!vars) PROVE TemplatesInv'
      OBVIOUS
    <2>1. CASE UNCHANGED Templates!vars
      BY <2>1 DEF Templates!vars, TemplatesInv, TemplateTypes, TemplatesExpire, Templates!TemplatesExpire
    <2>2. ASSUME NEW r \in Viewers, Templates!GetTmpl(r) \/ Templates!Fire(r) \/ Templates!Delete(r) PROVE TemplatesInv'
      BY <2>2, LookKeeps, ParseKeeps, StoreKeeps, FireKeeps, DeleteKeeps DEF Templates!GetTmpl
    <2>3. QED BY <2>1, <2>2 DEF Templates!Next
  <1>2. TemplatesInv => TemplatesExpire
    BY DEF TemplatesInv
  <1>3. QED BY <1>1, <1>2, TemplatesBegin, PTL DEF Templates!Spec

-----------------------------------------------------------------------------
(* Tokens.  First the arithmetic of periods and of a counter that wraps.   *)

\* Factors keep the order of their products.
LEMMA ProductOrder ==
  ASSUME NEW x \in Int, NEW y \in Int, NEW d \in Nat \ {0}
  PROVE  x * d < y * d => x < y
  <1>1. SUFFICES ASSUME x >= y PROVE x * d >= y * d
    BY Z3
  <1>2. PICK k \in Nat : x = y + k
    BY <1>1
  <1>3. k * d \in Nat
    OBVIOUS
  <1>4. x * d = y * d + k * d
    BY <1>2
  <1>5. QED BY <1>3, <1>4

\* A period begins at or before the time and ends after it.
LEMMA PeriodOf ==
  ASSUME NEW t \in Nat, NEW d \in Nat \ {0}
  PROVE  /\ t \div d \in Nat
         /\ (t \div d) * d <= t
         /\ t < (t \div d + 1) * d
  OBVIOUS

\* Times less than k + 1 periods apart are at most k + 1 periods apart.
LEMMA PeriodsAhead ==
  ASSUME NEW s \in Nat, NEW t \in Nat, NEW d \in Nat \ {0}, NEW k \in Int
  PROVE  /\ s <= t + k * d => s \div d <= t \div d + k
         /\ s >= t + k * d => s \div d >= t \div d + k
  <1> DEFINE a == s \div d
             b == t \div d
  <1>1. a \in Nat /\ a * d <= s /\ s < (a + 1) * d
    BY PeriodOf
  <1>2. b \in Nat /\ b * d <= t /\ t < (b + 1) * d
    BY PeriodOf
  <1>3. (b + 1) * d + k * d = (b + k + 1) * d /\ b * d + k * d = (b + k) * d
    BY <1>2
  <1>4. k * d \in Int /\ a * d \in Int /\ b * d \in Int /\ (a + 1) * d \in Int /\ (b + 1) * d \in Int
    BY <1>1, <1>2
  <1> HIDE DEF a, b
  <1>5. ASSUME s <= t + k * d PROVE a <= b + k
    <2>1. a * d < (b + k + 1) * d
      BY <1>1, <1>2, <1>3, <1>4, <1>5
    <2>2. a < b + k + 1
      BY <1>1, <1>2, <2>1, ProductOrder
    <2>3. QED BY <1>1, <1>2, <2>2
  <1>6. ASSUME s >= t + k * d PROVE a >= b + k
    <2>1. (b + k) * d < (a + 1) * d
      BY <1>1, <1>2, <1>3, <1>4, <1>6
    <2>2. b + k < a + 1
      BY <1>1, <1>2, <2>1, ProductOrder
    <2>3. QED BY <1>1, <1>2, <2>2
  <1>7. QED BY <1>5, <1>6 DEF a, b

\* One turn beyond the counter's values, on either side, is taken off.
LEMMA OneTurn ==
  ASSUME NEW m \in Nat \ {0}, NEW x \in Int, -m <= x, x < 2 * m
  PROVE  x % m = IF x < 0 THEN x + m ELSE IF x < m THEN x ELSE x - m
  <1>1. CASE x < 0
    BY <1>1
  <1>2. CASE 0 <= x /\ x < m
    BY <1>2
  <1>3. CASE m <= x
    BY <1>3
  <1>4. QED BY <1>1, <1>2, <1>3

\* What the uint64 addition of the code gives (otp.go:160-173).
LEMMA PlusIs ==
  ASSUME NEW c \in 0..MaxUint, NEW n \in 0..MaxUint
  PROVE  Token!Plus(c, n) = IF c + n <= MaxUint THEN c + n ELSE c + n - MaxUint - 1
  <1> DEFINE m == MaxUint + 1
             x == c + n
  <1>1. m \in Nat \ {0} /\ x \in Int /\ -m <= x /\ x < 2 * m /\ x >= 0
    BY TokensAssumption
  <1>2. Token!Plus(c, n) = x % m
    BY DEF Token!Plus
  <1>3. x % m = IF x < 0 THEN x + m ELSE IF x < m THEN x ELSE x - m
    <2> HIDE DEF m, x
    <2>1. QED BY <1>1, OneTurn
  <1>4. MaxUint \in Nat
    BY TokensAssumption
  <1>5. QED BY <1>1, <1>2, <1>3, <1>4

\* Counters within a turn of each other differ.
LEMMA PlusDiffers ==
  ASSUME NEW c \in 0..MaxUint, NEW m \in 0..MaxUint, NEW n \in 0..MaxUint,
         Token!Plus(c, m) = Token!Plus(c, n)
  PROVE  m = n
  BY PlusIs, TokensAssumption

\* Steps forward add up, as long as they stay within a turn.
LEMMA PlusAdds ==
  ASSUME NEW c \in 0..MaxUint, NEW m \in Nat, NEW n \in Nat, m + n <= MaxUint
  PROVE  /\ Token!Plus(c, m) \in 0..MaxUint
         /\ Token!Plus(Token!Plus(c, m), n) = Token!Plus(c, m + n)
  <1>1. m \in 0..MaxUint /\ n \in 0..MaxUint /\ m + n \in 0..MaxUint
    BY TokensAssumption
  <1>2. Token!Plus(c, m) \in 0..MaxUint
    BY <1>1, PlusIs, TokensAssumption
  <1>3. QED BY <1>1, <1>2, PlusIs, TokensAssumption

\* verifyOTP returns the way to the password, or -1 when it is not within the
\* window (otp.go:175-200).
LEMMA VerifyFinds ==
  ASSUME NEW password, NEW c \in 0..MaxUint, NEW window \in 0..MaxUint
  PROVE  LET count == Token!VerifyOTP(password, c, window)
         IN  \/ count \in 0..window /\ Token!Plus(c, count) = password
             \/ count = -1 /\ \A i \in 0..window : Token!Plus(c, i) # password
  <1> DEFINE ahead == {i \in 0..window : Token!Plus(c, i) = password}
  <1>1. CASE ahead = {}
    BY <1>1 DEF Token!VerifyOTP
  <1>2. CASE ahead # {}
    <2>1. PICK i \in ahead : TRUE
      BY <1>2
    <2>2. \A j \in ahead : j = i
      BY <2>1, PlusDiffers, TokensAssumption
    <2>3. \A j \in ahead : i <= j
      BY <2>1, <2>2
    <2>4. (CHOOSE k \in ahead : \A j \in ahead : k <= j) \in ahead
      BY <2>1, <2>3
    <2>5. Token!VerifyOTP(password, c, window) \in ahead
      BY <1>2, <2>4 DEF Token!VerifyOTP
    <2>6. QED BY <2>5
  <1>3. QED BY <1>1, <1>2

-----------------------------------------------------------------------------
(* The invariant of the tokens.                                            *)

\* A token in a form was made at a time that has been, in that time's period.
FormsInv ==
    /\ now \in 0..MaxTime
    /\ \A token \in tokens : token.created \in 0..now /\ token.rolling = token.created \div Tokenlife

\* The device has shown passwords without a gap from some counter on; the next
\* counter is at most one after the last of them, and those accepted come before it.
CountersInv ==
    \E first \in 0..MaxUint, last \in 0..(MaxShown - 1) : \E next \in 0..(last + 1) :
        /\ shown = {Token!Plus(first, i) : i \in 0..last}
        /\ IsFiniteSet(shown) /\ Cardinality(shown) = last + 1
        /\ counter = Token!Plus(first, next)
        /\ used \subseteq {Token!Plus(first, i) : i \in 0..(next - 1)}

TokensInv == FormsInv /\ CountersInv /\ TokensAccepted

\* The device has shown the password of the first counter, and no token is out.
LEMMA TokensBegin == Token!Init => TokensInv
  <1> SUFFICES ASSUME Token!Init PROVE TokensInv
    OBVIOUS
  <1>1. FormsInv
    BY TokensAssumption DEF FormsInv, Token!Init
  <1>2. CountersInv
    <2>1. counter \in 0..MaxUint /\ shown = {counter} /\ used = {}
      BY TokensAssumption DEF Token!Init
    <2>2. Token!Plus(counter, 0) = counter
      BY <2>1, PlusIs, TokensAssumption
    <2>3. shown = {Token!Plus(counter, i) : i \in 0..0}
      BY <2>1, <2>2
    <2>4. IsFiniteSet(shown) /\ Cardinality(shown) = 1
      BY <2>1, FS_Singleton
    <2>5. 0 \in 0..(MaxShown - 1) /\ 0 \in 0..(0 + 1)
      BY TokensAssumption
    <2>6. QED BY <2>1, <2>2, <2>3, <2>4, <2>5 DEF CountersInv
  <1>3. TokensAccepted
    BY DEF Token!Init, Token!NoVerdict, TokensAccepted, Token!TokensAccepted, Token!TokensLiveTheirLife,
           Token!PasswordsCountOnce, Token!ClocksMayDiffer
  <1>4. QED BY <1>1, <1>2, <1>3 DEF TokensInv

\* A step that verifies nothing accepts nothing.
LEMMA NoVerdictYet ==
  ASSUME verdict' = Token!NoVerdict PROVE TokensAccepted'
  BY DEF Token!NoVerdict, TokensAccepted, Token!TokensAccepted, Token!TokensLiveTheirLife,
         Token!PasswordsCountOnce, Token!ClocksMayDiffer

\* Nothing but a password or its verification touches the counters.
LEMMA CountersStay ==
  ASSUME CountersInv, UNCHANGED <<shown, counter, used>> PROVE CountersInv'
  BY DEF CountersInv

\* Time passes for forms and for clocks alike.
LEMMA TickKeeps ==
  ASSUME TokensInv, Token!Tick PROVE TokensInv'
  <1>1. FormsInv'
    BY TokensAssumption DEF Token!Tick, TokensInv, FormsInv
  <1>2. QED BY <1>1, NoVerdictYet, CountersStay DEF Token!Tick, TokensInv

\* A form's token is made in the period that runs (sec.go:84-139).
LEMMA CSRFTokenKeeps ==
  ASSUME TokensInv, Token!CSRFToken PROVE TokensInv'
  <1>1. FormsInv'
    <2>1. PICK rand : tokens' = tokens \cup {[created |-> now, rand |-> rand, rolling |-> now \div Tokenlife]}
      BY DEF Token!CSRFToken, Token!CurrentToken
    <2>2. now' = now
      BY DEF Token!CSRFToken
    <2>3. QED BY <2>1, <2>2 DEF TokensInv, FormsInv
  <1>2. QED BY <1>1, NoVerdictYet, CountersStay DEF Token!CSRFToken, TokensInv

\* A browser without its cookie keeps the forms it was given.
LEMMA LoseCookieKeeps ==
  ASSUME TokensInv, Token!LoseCookie PROVE TokensInv'
  BY NoVerdictYet, CountersStay DEF Token!LoseCookie, TokensInv, FormsInv

\* A token that has not expired is of this period or the one before
\* (sec.go:208-243).
LEMMA SubmitFormKeeps ==
  ASSUME TokensInv, Token!SubmitForm PROVE TokensInv'
  <1>1. PICK token \in tokens :
          verdict' = [of |-> "form", valid |-> Token!VerifyCSRFToken(token), token |-> token]
    BY DEF Token!SubmitForm
  <1>2. UNCHANGED <<now, cookie, tokens, counter, shown, used>>
    BY DEF Token!SubmitForm
  <1>3. FormsInv'
    BY <1>2 DEF TokensInv, FormsInv
  <1>4. token.created \in 0..now /\ token.rolling = token.created \div Tokenlife /\ now \in Nat /\ Tokenlife \in Nat \ {0}
    BY TokensAssumption DEF TokensInv, FormsInv
  <1>5. Token!VerifyCSRFToken(token) <=> now - token.created <= Tokenlife /\ cookie = token.rand
    <2>1. ASSUME now <= token.created + Tokenlife
          PROVE  token.created \div Tokenlife \in {now \div Tokenlife, now \div Tokenlife - 1}
      <3>1. now <= token.created + 1 * Tokenlife /\ now >= token.created + 0 * Tokenlife
        BY <1>4, <2>1
      <3>2. /\ now \div Tokenlife <= token.created \div Tokenlife + 1
            /\ now \div Tokenlife >= token.created \div Tokenlife + 0
        BY <1>4, <3>1, PeriodsAhead
      <3>3. now \div Tokenlife \in Nat /\ token.created \div Tokenlife \in Nat
        BY <1>4, PeriodOf
      <3>4. QED BY <3>2, <3>3
    <2>2. QED BY <1>4, <2>1 DEF Token!VerifyCSRFToken, Token!Expired, Token!CurrentToken, Token!PrevToken
  <1>6. TokensAccepted'
    <2>1. verdict'.of = "form" /\ verdict'.token = token /\ verdict'.valid = Token!VerifyCSRFToken(token)
      BY <1>1
    <2>2. Token!TokensLiveTheirLife'
      BY <1>2, <1>5, <2>1 DEF Token!TokensLiveTheirLife
    <2>3. Token!PasswordsCountOnce' /\ Token!ClocksMayDiffer'
      BY <2>1 DEF Token!PasswordsCountOnce, Token!ClocksMayDiffer
    <2>4. QED BY <2>2, <2>3 DEF TokensAccepted, Token!TokensAccepted
  <1>7. QED BY <1>2, <1>3, <1>6, CountersStay DEF TokensInv

\* The next password follows the last one shown.
LEMMA NextPasswordKeeps ==
  ASSUME TokensInv, Token!NextPassword PROVE TokensInv'
  <1>1. PICK first \in 0..MaxUint, last \in 0..(MaxShown - 1) : \E next \in 0..(last + 1) :
          /\ shown = {Token!Plus(first, i) : i \in 0..last}
          /\ IsFiniteSet(shown) /\ Cardinality(shown) = last + 1
          /\ counter = Token!Plus(first, next)
          /\ used \subseteq {Token!Plus(first, i) : i \in 0..(next - 1)}
    BY DEF TokensInv, CountersInv
  <1>2. PICK next \in 0..(last + 1) :
          /\ shown = {Token!Plus(first, i) : i \in 0..last}
          /\ IsFiniteSet(shown) /\ Cardinality(shown) = last + 1
          /\ counter = Token!Plus(first, next)
          /\ used \subseteq {Token!Plus(first, i) : i \in 0..(next - 1)}
    BY <1>1
  <1>3. PICK c \in shown : Token!Plus(c, 1) \notin shown /\ shown' = shown \cup {Token!Plus(c, 1)}
    BY DEF Token!NextPassword
  <1>4. MaxShown \in Nat /\ MaxUint \in Nat /\ MaxShown <= MaxUint
    BY TokensAssumption
  <1>5. last + 1 < MaxShown
    <2>1. Cardinality(shown) < MaxShown
      <3>1. Token!Cardinality(shown) = Cardinality(shown)
        BY Zenon DEF Token!Cardinality, Cardinality
      <3>2. QED BY <3>1 DEF Token!NextPassword
    <2>2. Cardinality(shown) = last + 1
      BY <1>2
    <2>3. QED BY <2>1, <2>2
  <1>6. PICK i \in 0..last : c = Token!Plus(first, i)
    BY <1>2, <1>3
  <1>7. Token!Plus(c, 1) = Token!Plus(first, i + 1)
    BY <1>4, <1>5, <1>6, PlusAdds
  <1>8. i = last
    BY <1>2, <1>3, <1>6, <1>7
  <1>9. shown' = {Token!Plus(first, k) : k \in 0..(last + 1)}
    BY <1>2, <1>3, <1>7, <1>8
  <1>10. IsFiniteSet(shown') /\ Cardinality(shown') = last + 2
    <2>1. IsFiniteSet(shown) /\ Cardinality(shown) = last + 1 /\ last \in Int
      BY <1>2
    <2>2. IsFiniteSet(shown') /\ Cardinality(shown') = Cardinality(shown) + 1
      BY <1>3, <2>1, FS_AddElement
    <2>3. QED BY <2>1, <2>2
  <1>11. UNCHANGED <<now, cookie, tokens, counter, used>> /\ verdict' = Token!NoVerdict
    BY DEF Token!NextPassword
  <1>12. CountersInv'
    <2>1. last + 1 \in 0..(MaxShown - 1) /\ next \in 0..((last + 1) + 1) /\ (last + 1) + 1 = last + 2
      BY <1>4, <1>5
    <2>2. QED BY <1>2, <1>9, <1>10, <1>11, <2>1 DEF CountersInv
  <1>13. FormsInv'
    BY <1>11 DEF TokensInv, FormsInv
  <1>14. QED BY <1>11, <1>12, <1>13, NoVerdictYet DEF TokensInv

\* A password that is found lies at or after the counter, and everything accepted
\* before it lies before the counter (otp.go:167-173).
LEMMA SendPasswordKeeps ==
  ASSUME TokensInv, Token!SendPassword PROVE TokensInv'
  <1>1. PICK password \in shown : Token!Verify(password)
    BY DEF Token!SendPassword
  <1>2. UNCHANGED <<now, cookie, tokens, shown>>
    BY DEF Token!SendPassword
  <1>3. FormsInv'
    BY <1>2 DEF TokensInv, FormsInv
  <1>4. PICK first \in 0..MaxUint, last \in 0..(MaxShown - 1) : \E next \in 0..(last + 1) :
          /\ shown = {Token!Plus(first, i) : i \in 0..last}
          /\ IsFiniteSet(shown) /\ Cardinality(shown) = last + 1
          /\ counter = Token!Plus(first, next)
          /\ used \subseteq {Token!Plus(first, i) : i \in 0..(next - 1)}
    BY DEF TokensInv, CountersInv
  <1>5. PICK next \in 0..(last + 1) :
          /\ shown = {Token!Plus(first, i) : i \in 0..last}
          /\ IsFiniteSet(shown) /\ Cardinality(shown) = last + 1
          /\ counter = Token!Plus(first, next)
          /\ used \subseteq {Token!Plus(first, i) : i \in 0..(next - 1)}
    BY <1>4
  <1>6. MaxShown \in Nat /\ MaxUint \in Nat /\ Window \in Nat /\ MaxShown + Window <= MaxUint
    BY TokensAssumption
  <1>7. counter \in 0..MaxUint
    BY <1>5, <1>6, PlusAdds
  <1> DEFINE count == Token!VerifyOTP(password, counter, Window)
  <1>8. CASE count = -1
    <2>1. UNCHANGED <<counter, used>> /\ verdict' = [of |-> "hotp", valid |-> FALSE, again |-> FALSE]
      BY <1>1, <1>8 DEF Token!Verify
    <2>2. TokensAccepted'
      BY <2>1 DEF TokensAccepted, Token!TokensAccepted, Token!TokensLiveTheirLife,
                  Token!PasswordsCountOnce, Token!ClocksMayDiffer
    <2>3. QED BY <1>2, <1>3, <2>1, <2>2, CountersStay DEF TokensInv
  <1>9. CASE count # -1
    <2>1. /\ counter' = Token!Plus(counter, count + 1)
          /\ used' = used \cup {password}
          /\ verdict' = [of |-> "hotp", valid |-> TRUE, again |-> password \in used]
      BY <1>1, <1>9 DEF Token!Verify
    <2>2. count \in 0..Window /\ Token!Plus(counter, count) = password
      BY <1>6, <1>7, <1>9, VerifyFinds
    <2> HIDE DEF count
    <2>3. PICK i \in 0..last : password = Token!Plus(first, i)
      BY <1>5
    <2>4. password = Token!Plus(first, next + count) /\ next + count \in 0..MaxUint
      BY <1>5, <1>6, <2>2, PlusAdds
    <2>5. i = next + count
      <3>1. i \in 0..MaxUint /\ Token!Plus(first, i) = Token!Plus(first, next + count)
        BY <1>6, <2>3, <2>4
      <3>2. QED BY <2>4, <3>1, PlusDiffers
    <2>6. counter' = Token!Plus(first, i + 1) /\ i + 1 \in 0..(last + 1)
      BY <1>5, <1>6, <2>1, <2>2, <2>5, PlusAdds
    <2>7. used' \subseteq {Token!Plus(first, k) : k \in 0..((i + 1) - 1)}
      BY <1>5, <2>1, <2>2, <2>3, <2>5
    <2>8. password \notin used
      <3>1. ASSUME NEW k \in 0..(next - 1), password = Token!Plus(first, k) PROVE FALSE
        BY <1>6, <2>2, <2>4, <3>1, PlusDiffers
      <3>2. QED BY <1>5, <3>1
    <2>9. CountersInv'
      BY <1>2, <1>5, <2>6, <2>7 DEF CountersInv
    <2>10. TokensAccepted'
      BY <2>1, <2>8 DEF TokensAccepted, Token!TokensAccepted, Token!TokensLiveTheirLife,
                        Token!PasswordsCountOnce, Token!ClocksMayDiffer
    <2>11. QED BY <1>3, <2>9, <2>10 DEF TokensInv
  <1>10. QED BY <1>8, <1>9

\* Verifying at a counter finds that counter's password; the uint64 below zero
\* is far from any the clock gives (otp.go:163-165, 275-291).
LEMMA VerifyAt ==
  ASSUME NEW password \in 0..(MaxTime \div Interval), NEW c \in Int,
         -Window <= c, c <= MaxTime \div Interval + Window
  PROVE  Token!VerifyOTP(password, c, 0) # -1 <=> c = password
  <1>1. Token!Plus(c, 0) = c % (MaxUint + 1)
    BY DEF Token!Plus
  <1>2. MaxTime \div Interval \in Nat /\ MaxUint \in Nat /\ Window \in Nat /\ MaxTime \div Interval + Window <= MaxUint
    BY TokensAssumption, PeriodOf
  <1>3. c % (MaxUint + 1) = IF c < 0 THEN c + MaxUint + 1 ELSE c
    <2> DEFINE m == MaxUint + 1
    <2>1. m \in Nat \ {0} /\ -m <= c /\ c < m /\ c < 2 * m
      BY <1>2
    <2>2. c % m = IF c < 0 THEN c + m ELSE IF c < m THEN c ELSE c - m
      <3> HIDE DEF m
      <3>1. QED BY <2>1, OneTurn
    <2>3. QED BY <1>2, <2>1, <2>2
  <1>4. Token!Plus(c, 0) = password <=> c = password
    BY <1>1, <1>2, <1>3
  <1>5. CASE Token!Plus(c, 0) = password
    <2>1. {i \in 0..0 : Token!Plus(c, i) = password} = {0}
      BY <1>5
    <2>2. Token!VerifyOTP(password, c, 0) = CHOOSE i \in {0} : \A j \in {0} : i <= j
      BY <2>1 DEF Token!VerifyOTP
    <2>3. Token!VerifyOTP(password, c, 0) = 0
      BY <2>2
    <2>4. QED BY <1>4, <1>5, <2>3
  <1>6. CASE Token!Plus(c, 0) # password
    <2>1. {i \in 0..0 : Token!Plus(c, i) = password} = {}
      BY <1>6
    <2>2. Token!VerifyOTP(password, c, 0) = -1
      BY <2>1 DEF Token!VerifyOTP
    <2>3. QED BY <1>4, <1>6, <2>2
  <1>7. QED BY <1>5, <1>6

\* TOTP looks Window counters in each direction (otp.go:275-291).
LEMMA VerifyTimeIs ==
  ASSUME now \in 0..MaxTime, NEW password \in 0..(MaxTime \div Interval)
  PROVE  Token!VerifyTime(password) <=>
             /\ password <= now \div Interval + Window
             /\ now \div Interval <= password + Window
  <1> DEFINE c == now \div Interval
             top == MaxTime \div Interval
  <1>1. now <= MaxTime + 0 * Interval /\ now \in Nat /\ MaxTime \in Nat /\ Interval \in Nat \ {0} /\ Window \in Nat
    BY TokensAssumption
  <1>2. c \in Nat /\ top \in Nat /\ c <= top + 0
    BY <1>1, PeriodOf, PeriodsAhead
  <1>3. Token!VerifyTime(password) <=>
          \/ Token!VerifyOTP(password, c, 0) # -1
          \/ \E i \in 0..(Window - 1) : Token!VerifyOTP(password, c + i + 1, 0) # -1 \/ Token!VerifyOTP(password, c - i - 1, 0) # -1
    BY DEF Token!VerifyTime
  <1> HIDE DEF c
  <1>4. Token!VerifyOTP(password, c, 0) # -1 <=> c = password
    BY <1>1, <1>2, VerifyAt
  <1>5. ASSUME NEW i \in 0..(Window - 1)
        PROVE  /\ Token!VerifyOTP(password, c + i + 1, 0) # -1 <=> c + i + 1 = password
               /\ Token!VerifyOTP(password, c - i - 1, 0) # -1 <=> c - i - 1 = password
    BY <1>1, <1>2, VerifyAt
  <1>6. Token!VerifyTime(password) <=>
          c = password \/ \E i \in 0..(Window - 1) : c + i + 1 = password \/ c - i - 1 = password
    BY <1>3, <1>4, <1>5
  <1>7. Token!VerifyTime(password) => password <= c + Window /\ c <= password + Window
    BY <1>1, <1>2, <1>6
  <1>8. ASSUME password <= c + Window, c <= password + Window
        PROVE  Token!VerifyTime(password)
    <2>1. CASE c = password
      BY <1>6, <2>1
    <2>2. CASE c < password
      <3>1. password - c - 1 \in 0..(Window - 1) /\ c + (password - c - 1) + 1 = password
        BY <1>1, <1>2, <1>8, <2>2
      <3>2. QED BY <1>6, <3>1
    <2>3. CASE c > password
      <3>1. c - password - 1 \in 0..(Window - 1) /\ c - (c - password - 1) - 1 = password
        BY <1>1, <1>2, <1>8, <2>3
      <3>2. QED BY <1>6, <3>1
    <2>4. QED BY <1>2, <2>1, <2>2, <2>3
  <1>9. QED BY <1>7, <1>8 DEF c

\* What VerifyTimeIs says of intervals, said of the time between the clocks.
LEMMA SendTimePasswordKeeps ==
  ASSUME TokensInv, Token!SendTimePassword PROVE TokensInv'
  <1>1. PICK time \in 0..MaxTime :
          verdict' = [of |-> "totp", valid |-> Token!VerifyTime(time \div Interval), time |-> time]
    BY DEF Token!SendTimePassword
  <1>2. UNCHANGED <<now, cookie, tokens, counter, shown, used>>
    BY DEF Token!SendTimePassword
  <1>3. FormsInv'
    BY <1>2 DEF TokensInv, FormsInv
  <1>4. now \in 0..MaxTime /\ now \in Nat /\ time \in Nat /\ MaxTime \in Nat /\ Interval \in Nat \ {0} /\ Window \in Nat
    BY TokensAssumption DEF TokensInv, FormsInv
  <1>5. now \div Interval \in Nat /\ time \div Interval \in Nat /\ MaxTime \div Interval \in Nat
    BY <1>4, PeriodOf
  <1>6. time \div Interval \in 0..(MaxTime \div Interval)
    <2>1. time <= MaxTime + 0 * Interval
      BY <1>4
    <2>2. time \div Interval <= MaxTime \div Interval + 0
      BY <1>4, <2>1, PeriodsAhead
    <2>3. QED BY <1>5, <2>2
  <1>7. Token!VerifyTime(time \div Interval) <=>
             /\ time \div Interval <= now \div Interval + Window
             /\ now \div Interval <= time \div Interval + Window
    BY <1>4, <1>6, VerifyTimeIs
  <1> DEFINE off == IF time < now THEN now - time ELSE time - now
  <1>8. ASSUME off <= Window * Interval PROVE Token!VerifyTime(time \div Interval)
    <2>1. time <= now + Window * Interval /\ now <= time + Window * Interval
      BY <1>4, <1>8
    <2>2. QED BY <1>4, <1>7, <2>1, PeriodsAhead
  <1>9. ASSUME off >= (Window + 1) * Interval PROVE ~Token!VerifyTime(time \div Interval)
    <2>1. time >= now + (Window + 1) * Interval \/ now >= time + (Window + 1) * Interval
      BY <1>4, <1>9
    <2>2. \/ time \div Interval >= now \div Interval + (Window + 1)
          \/ now \div Interval >= time \div Interval + (Window + 1)
      <3>1. Window + 1 \in Int
        BY <1>4
      <3>2. time >= now + (Window + 1) * Interval => time \div Interval >= now \div Interval + (Window + 1)
        BY <1>4, <3>1, PeriodsAhead
      <3>3. now >= time + (Window + 1) * Interval => now \div Interval >= time \div Interval + (Window + 1)
        BY <1>4, <3>1, PeriodsAhead
      <3>4. QED BY <2>1, <3>2, <3>3
    <2>3. QED BY <1>4, <1>5, <1>7, <2>2
  <1>10. TokensAccepted'
    <2>1. verdict'.of = "totp" /\ verdict'.time = time /\ verdict'.valid = Token!VerifyTime(time \div Interval)
      BY <1>1
    <2>2. Token!ClocksMayDiffer'
      BY <1>2, <1>8, <1>9, <2>1 DEF Token!ClocksMayDiffer
    <2>3. Token!PasswordsCountOnce' /\ Token!TokensLiveTheirLife'
      BY <2>1 DEF Token!PasswordsCountOnce, Token!TokensLiveTheirLife
    <2>4. QED BY <2>2, <2>3 DEF TokensAccepted, Token!TokensAccepted
  <1>11. QED BY <1>2, <1>3, <1>10, CountersStay DEF TokensInv

\* For any life of a token, interval, window and width of the counter, forms,
\* counted passwords and timed passwords are accepted exactly as long as they
\* should be (sec.go:84-243, otp.go:163-291).
THEOREM TokensAlwaysAccepted == Token!Spec => []TokensAccepted
  <1>1. TokensInv /\ [Token!Next]_(Token!vars) => TokensInv'
    <2> SUFFICES ASSUME TokensInv, [Token!Next]_(Token!vars) PROVE TokensInv'
      OBVIOUS
    <2>1. CASE UNCHANGED Token!vars
      <3>1. UNCHANGED <<now, cookie, tokens, counter, shown, used, verdict>>
        BY <2>1 DEF Token!vars
      <3>2. FormsInv'
        BY <3>1 DEF TokensInv, FormsInv
      <3>3. TokensAccepted'
        BY <3>1 DEF TokensInv, TokensAccepted, Token!TokensAccepted, Token!TokensLiveTheirLife,
                    Token!PasswordsCountOnce, Token!ClocksMayDiffer
      <3>4. QED BY <3>1, <3>2, <3>3, CountersStay DEF TokensInv
    <2>2. CASE Token!Gate
      BY <2>2, TickKeeps, CSRFTokenKeeps, LoseCookieKeeps, SubmitFormKeeps DEF Token!Gate
    <2>3. CASE Token!Passwords
      BY <2>3, TickKeeps, NextPasswordKeeps, SendPasswordKeeps, SendTimePasswordKeeps DEF Token!Passwords
    <2>4. QED BY <2>1, <2>2, <2>3 DEF Token!Next
  <1>2. TokensInv => TokensAccepted
    BY DEF TokensInv
  <1>3. QED BY <1>1, <1>2, TokensBegin, PTL DEF Token!Spec

-----------------------------------------------------------------------------
(* The migration.                                                          *)

Newest == Len(Chain)

\* Schemes of which the database holds a block.
Held == {i \in 1..Newest : \E b \in Schemes!Blocks : applied[b][1] = i}

MigrateTypes ==
    /\ step \in {"idle", "compare", "return", "begin", "exec", "finish"}
    /\ at \in 0..Newest
    /\ step # "idle" => at # 0
    /\ done \in Nat
    /\ tx \in Seq((1..Newest) \X (Nat \ {0}))
    /\ applied \in Seq((1..Newest) \X (Nat \ {0}))
    /\ version \in Nat /\ from \in Nat
    /\ failed \in BOOLEAN

\* The transaction holds the statements that were executed, and all of them
\* when nothing failed.
TransactionInv ==
    /\ step \in {"exec", "finish"} =>
          /\ done <= Len(Schemes!Steps(at)) /\ Len(tx) = done
          /\ \A n \in 1..done : tx[n] = <<at, n>>
    /\ step = "finish" /\ ~failed => done = Len(Schemes!Steps(at))

\* The version is that of a scheme the database holds, or the one before the
\* first of them: schemes that do not record their own may lie above it.
VersionInv ==
    \/ Held = {}
    \/ \E i \in Held : version = Chain[i]
    \/ \E i \in Held : /\ \A j \in Held : i <= j
                       /\ \/ i = 1 /\ version < Chain[1]
                          \/ i > 1 /\ version = Chain[i - 1]

\* A scheme is run when the database is at the one before it, or holds it, or
\* the one before it, already.
TurnInv ==
    /\ step = "compare" => from = version
    /\ step = "return" /\ ~failed => version <= Chain[at] /\ (version = Chain[at] \/ at \in Held)
    /\ step \in {"begin", "exec", "finish"} =>
          /\ version < Chain[at]
          /\ Held = {} => at = 1 \/ version = Chain[at - 1]
          /\ Held # {} => at \in Held \/ at - 1 \in Held

SchemesInv == MigrateTypes /\ TransactionInv /\ VersionInv /\ TurnInv /\ SchemesAreWhole

\* A scheme's statements are numbered from one on.
LEMMA StepsOf ==
  ASSUME NEW i
  PROVE  /\ Len(Schemes!Steps(i)) = (IF i \in Recorded THEN Stmts + 2 ELSE Stmts + 1)
         /\ Len(Schemes!Steps(i)) \in Nat \ {0}
         /\ DOMAIN Schemes!Steps(i) = 1..Len(Schemes!Steps(i))
         /\ \A n \in 1..Len(Schemes!Steps(i)) : Schemes!Steps(i)[n] = <<i, n>>
  <1> DEFINE length == IF i \in Recorded THEN Stmts + 2 ELSE Stmts + 1
  <1>1. length \in Nat \ {0}
    BY SchemesAssumption
  <1>2. Schemes!Steps(i) = [n \in 1..length |-> <<i, n>>]
    BY SchemesAssumption DEF Schemes!Steps, Schemes!Record, Schemes!Admin
  <1> HIDE DEF length
  <1>3. Len(Schemes!Steps(i)) = length
    BY <1>1, <1>2
  <1>4. QED BY <1>1, <1>2, <1>3 DEF length

\* Versions rise along the chain.
LEMMA VersionsRise ==
  ASSUME NEW i \in 1..Newest, NEW j \in 1..Newest
  PROVE  /\ Chain[i] \in Nat \ {0}
         /\ i < j <=> Chain[i] < Chain[j]
         /\ i = j <=> Chain[i] = Chain[j]
  <1>1. Newest \in Nat /\ \A k \in 1..Newest : Chain[k] \in Nat \ {0}
    BY SchemesAssumption DEF Newest
  <1>2. \A k, m \in 1..Newest : k < m => Chain[k] < Chain[m]
    BY SchemesAssumption DEF Newest
  <1>3. CASE i < j
    BY <1>1, <1>2, <1>3
  <1>4. CASE j < i
    BY <1>1, <1>2, <1>4
  <1>5. CASE i = j
    BY <1>1, <1>5
  <1>6. QED BY <1>3, <1>4, <1>5

\* What the database holds changes with its statements only.
LEMMA HeldStays == ASSUME applied' = applied PROVE Held' = Held /\ Schemes!Blocks' = Schemes!Blocks
  BY DEF Held, Schemes!Blocks

\* A step that leaves the database alone leaves what is said of it alone.
LEMMA DatabaseStays ==
  ASSUME SchemesInv, UNCHANGED <<applied, version>>
  PROVE  VersionInv' /\ SchemesAreWhole'
  BY HeldStays DEF SchemesInv, VersionInv, SchemesAreWhole, Schemes!SchemesAreWhole, Schemes!Blocks

\* A database begins without schemes, at any version.
LEMMA SchemesBegin == Schemes!Init => SchemesInv
  <1> SUFFICES ASSUME Schemes!Init PROVE SchemesInv
    OBVIOUS
  <1>1. /\ step = "idle" /\ at = 0 /\ done = 0 /\ tx = <<>> /\ applied = <<>> /\ from = 0 /\ failed = FALSE
        /\ version \in {0} \cup {Chain[i] : i \in 1..Newest} \cup {Chain[i] + 1 : i \in 1..Newest}
    BY DEF Schemes!Init, Schemes!Schemes, Newest
  <1>2. version \in Nat
    BY <1>1, VersionsRise
  <1>3. Newest \in Nat
    BY SchemesAssumption DEF Newest
  <1>4. MigrateTypes
    <2>1. tx \in Seq((1..Newest) \X (Nat \ {0})) /\ applied \in Seq((1..Newest) \X (Nat \ {0}))
      BY <1>1
    <2>2. at \in 0..Newest
      BY <1>1, <1>3
    <2>3. QED BY <1>1, <1>2, <2>1, <2>2 DEF MigrateTypes
  <1>5. Schemes!Blocks = {} /\ Held = {}
    BY <1>1 DEF Schemes!Blocks, Held
  <1>6. SchemesAreWhole
    BY <1>1, <1>5 DEF SchemesAreWhole, Schemes!SchemesAreWhole
  <1>7. QED BY <1>1, <1>4, <1>5, <1>6 DEF SchemesInv, TransactionInv, VersionInv, TurnInv

\* A call reads the version the database has.
LEMMA CallKeeps ==
  ASSUME SchemesInv, Schemes!Call PROVE SchemesInv'
  <1>1. /\ step' = "compare" /\ from' = version /\ at' = Newest /\ failed' = FALSE
        /\ UNCHANGED <<done, tx, applied, version>>
    BY DEF Schemes!Call, Schemes!Newest, Newest
  <1>2. Newest \in Nat \ {0}
    BY SchemesAssumption DEF Newest
  <1>3. MigrateTypes'
    <2>1. at' \in 0..Newest /\ at' # 0
      BY <1>1, <1>2
    <2>2. QED BY <1>1, <2>1 DEF SchemesInv, MigrateTypes
  <1>4. TransactionInv' /\ TurnInv'
    BY <1>1 DEF TransactionInv, TurnInv
  <1>5. QED BY <1>1, <1>3, <1>4, DatabaseStays DEF SchemesInv

\* The first scheme above the version is run first; a version below every
\* scheme's means the whole chain (sql.go:20-31).
LEMMA CompareKeeps ==
  ASSUME SchemesInv, Schemes!Compare PROVE SchemesInv'
  <1>1. step = "compare" /\ from = version /\ at \in 1..Newest /\ Newest \in Nat
    BY SchemesAssumption DEF Schemes!Compare, SchemesInv, MigrateTypes, TurnInv, Newest
  <1>2. UNCHANGED <<done, tx, applied, version, from>>
    BY DEF Schemes!Compare
  <1>3. Chain[at] \in Nat /\ version \in Nat
    BY <1>1, VersionsRise DEF SchemesInv, MigrateTypes
  <1>4. CASE Chain[at] <= from
    <2>1. step' = "return" /\ failed' = (Chain[at] < from) /\ at' = at
      BY <1>4 DEF Schemes!Compare
    <2>2. MigrateTypes'
      BY <1>1, <1>2, <2>1 DEF SchemesInv, MigrateTypes
    <2>3. TransactionInv' /\ TurnInv'
      <3>1. ~failed' => ~(Chain[at] < from)
        BY <2>1
      <3>2. ~failed' => version' = Chain[at']
        BY <1>1, <1>2, <1>3, <1>4, <2>1, <3>1
      <3>3. version' <= version'
        BY <1>2, <1>3
      <3>4. QED BY <2>1, <3>2, <3>3 DEF TransactionInv, TurnInv
    <2>4. QED BY <1>2, <2>2, <2>3, DatabaseStays DEF SchemesInv
  <1>5. CASE ~(Chain[at] <= from) /\ at > 1
    <2>1. at' = at - 1 /\ step' = step /\ failed' = failed
      BY <1>5 DEF Schemes!Compare
    <2>2. MigrateTypes'
      BY <1>1, <1>2, <1>5, <2>1 DEF SchemesInv, MigrateTypes
    <2>3. TransactionInv' /\ TurnInv'
      BY <1>1, <1>2, <2>1 DEF TransactionInv, TurnInv
    <2>4. QED BY <1>2, <2>2, <2>3, DatabaseStays DEF SchemesInv
  <1>6. CASE ~(Chain[at] <= from) /\ ~(at > 1)
    <2>1. step' = "begin" /\ at' = at /\ failed' = failed /\ at = 1 /\ version < Chain[1]
      BY <1>1, <1>3, <1>6 DEF Schemes!Compare
    <2>2. MigrateTypes'
      BY <1>1, <1>2, <2>1 DEF SchemesInv, MigrateTypes
    <2>3. Held # {} => 1 \in Held
      <3>1. ASSUME NEW i \in Held, version = Chain[i] \/ (i > 1 /\ version = Chain[i - 1]) PROVE FALSE
        <4>1. i \in 1..Newest
          BY DEF Held
        <4>2. PICK j \in 1..Newest : version = Chain[j]
          BY <1>1, <3>1, <4>1
        <4>3. Chain[j] < Chain[1] /\ 1 \in 1..Newest
          BY <1>1, <2>1, <4>2
        <4>4. j < 1
          BY <4>2, <4>3, VersionsRise
        <4>5. QED BY <4>2, <4>4
      <3>2. QED BY <3>1 DEF SchemesInv, VersionInv
    <2>4. TransactionInv' /\ TurnInv'
      BY <1>1, <1>2, <2>1, <2>3, HeldStays DEF TransactionInv, TurnInv
    <2>5. QED BY <1>2, <2>2, <2>4, DatabaseStays DEF SchemesInv
  <1>7. QED BY <1>4, <1>5, <1>6

\* The next scheme is run after the one the database is at, or holds
\* (sql.go:27-31).
LEMMA ReturnKeeps ==
  ASSUME SchemesInv, Schemes!Return PROVE SchemesInv'
  <1>1. step = "return" /\ at \in 1..Newest /\ Newest \in Nat
    BY SchemesAssumption DEF Schemes!Return, SchemesInv, MigrateTypes, Newest
  <1>2. UNCHANGED <<done, tx, applied, version, from, failed>>
    BY DEF Schemes!Return
  <1>3. CASE failed \/ at = Newest
    <2>1. step' = "idle" /\ at' = 0
      BY <1>3 DEF Schemes!Return, Schemes!Newest, Newest
    <2>2. MigrateTypes'
      BY <1>1, <1>2, <2>1 DEF SchemesInv, MigrateTypes
    <2>3. TransactionInv' /\ TurnInv'
      BY <2>1 DEF TransactionInv, TurnInv
    <2>4. QED BY <1>2, <2>2, <2>3, DatabaseStays DEF SchemesInv
  <1>4. CASE ~(failed \/ at = Newest)
    <2>1. step' = "begin" /\ at' = at + 1 /\ ~failed
      BY <1>4 DEF Schemes!Return, Schemes!Newest, Newest
    <2>2. at + 1 \in 1..Newest
      BY <1>1, <1>4
    <2>3. MigrateTypes'
      BY <1>2, <2>1, <2>2 DEF SchemesInv, MigrateTypes
    <2>4. version <= Chain[at] /\ (version = Chain[at] \/ at \in Held)
      BY <1>1, <2>1 DEF SchemesInv, TurnInv
    <2>5. version < Chain[at + 1]
      <3>1. at < at + 1 /\ version \in Nat
        BY <1>1 DEF SchemesInv, MigrateTypes
      <3>2. Chain[at] < Chain[at + 1] /\ Chain[at] \in Nat /\ Chain[at + 1] \in Nat
        BY <1>1, <2>2, <3>1, VersionsRise
      <3>3. QED BY <2>4, <3>1, <3>2
    <2>6. Held # {} => at + 1 \in Held \/ at \in Held
      <3>1. ASSUME NEW i \in Held, version = Chain[i], version = Chain[at] PROVE at \in Held
        <4>1. i = at
          BY <1>1, <3>1, VersionsRise DEF Held
        <4>2. QED BY <4>1
      <3>2. ASSUME NEW i \in Held, i > 1, version = Chain[i - 1], version = Chain[at] PROVE at + 1 \in Held
        <4>1. i \in 1..Newest /\ i - 1 \in 1..Newest
          BY <1>1, <3>2 DEF Held
        <4>2. i - 1 = at
          BY <1>1, <3>2, <4>1, VersionsRise
        <4>3. at + 1 = i
          BY <1>1, <4>1, <4>2
        <4>4. QED BY <4>3
      <3>3. ASSUME version < Chain[1], version = Chain[at] PROVE FALSE
        <4>1. 1 \in 1..Newest /\ Chain[at] < Chain[1]
          BY <1>1, <3>3
        <4>2. at < 1
          BY <1>1, <4>1, VersionsRise
        <4>3. QED BY <1>1, <4>2
      <3>4. QED BY <2>4, <3>1, <3>2, <3>3 DEF SchemesInv, VersionInv
    <2>7. (at + 1) - 1 = at
      BY <1>1
    <2>8. TransactionInv'
      BY <2>1 DEF TransactionInv
    <2>9. TurnInv'
      BY <1>2, <2>1, <2>4, <2>5, <2>6, <2>7, HeldStays DEF TurnInv
    <2>10. QED BY <1>2, <2>3, <2>8, <2>9, DatabaseStays DEF SchemesInv
  <1>5. QED BY <1>3, <1>4

\* A transaction begins empty (sql.go:33-38).
LEMMA BeginKeeps ==
  ASSUME SchemesInv, Schemes!Begin PROVE SchemesInv'
  <1>1. /\ step = "begin" /\ done' = 0 /\ tx' = <<>>
        /\ \/ step' = "exec" /\ failed' = failed
           \/ step' = "return" /\ failed' = TRUE
        /\ UNCHANGED <<at, applied, version, from>>
    BY DEF Schemes!Begin
  <1>2. MigrateTypes'
    <2>1. tx' \in Seq((1..Newest) \X (Nat \ {0}))
      BY <1>1
    <2>2. QED BY <1>1, <2>1 DEF SchemesInv, MigrateTypes
  <1>3. Len(Schemes!Steps(at)) \in Nat
    BY StepsOf
  <1>4. TransactionInv'
    <2>1. Schemes!Steps(at)' = Schemes!Steps(at)
      BY <1>1 DEF Schemes!Steps
    <2>2. done' <= Len(Schemes!Steps(at)) /\ Len(tx') = done' /\ 1..done' = {}
      BY <1>1, <1>3
    <2>3. QED BY <1>1, <2>1, <2>2 DEF TransactionInv
  <1>5. TurnInv'
    BY <1>1, HeldStays DEF SchemesInv, TurnInv
  <1>6. QED BY <1>1, <1>2, <1>4, <1>5, DatabaseStays DEF SchemesInv

\* Statements are executed in their order, each at most once (sql.go:55-59).
LEMMA ExecKeeps ==
  ASSUME SchemesInv, Schemes!Exec PROVE SchemesInv'
  <1>1. /\ step = "exec" /\ done < Len(Schemes!Steps(at))
        /\ UNCHANGED <<at, applied, version, from>>
    BY DEF Schemes!Exec
  <1>2. /\ done \in Nat /\ tx \in Seq((1..Newest) \X (Nat \ {0})) /\ Len(tx) = done
        /\ at \in 1..Newest /\ \A n \in 1..done : tx[n] = <<at, n>>
    BY <1>1, SchemesAssumption DEF SchemesInv, MigrateTypes, TransactionInv, Newest
  <1>4. /\ Len(Schemes!Steps(at)) \in Nat
        /\ \A n \in 1..Len(Schemes!Steps(at)) : Schemes!Steps(at)[n] = <<at, n>>
        /\ Schemes!Steps(at)' = Schemes!Steps(at)
    BY <1>1, StepsOf DEF Schemes!Steps
  <1>5. CASE done' = done + 1 /\ tx' = Append(tx, Schemes!Steps(at)[done + 1]) /\ UNCHANGED <<step, failed>>
    <2>1. Schemes!Steps(at)[done + 1] = <<at, done + 1>> /\ done + 1 \in Nat \ {0}
      BY <1>1, <1>2, <1>4
    <2>2. tx' = Append(tx, <<at, done + 1>>) /\ <<at, done + 1>> \in (1..Newest) \X (Nat \ {0})
      BY <1>2, <1>5, <2>1
    <2>3. tx' \in Seq((1..Newest) \X (Nat \ {0})) /\ Len(tx') = done + 1
      BY <1>2, <2>2
    <2>4. \A n \in 1..(done + 1) : tx'[n] = <<at, n>>
      BY <1>2, <2>2
    <2>5. MigrateTypes'
      BY <1>1, <1>5, <2>1, <2>3 DEF SchemesInv, MigrateTypes
    <2>6. TransactionInv'
      BY <1>1, <1>2, <1>4, <1>5, <2>3, <2>4 DEF TransactionInv
    <2>7. TurnInv'
      BY <1>1, <1>5, HeldStays DEF SchemesInv, TurnInv
    <2>8. QED BY <1>1, <2>5, <2>6, <2>7, DatabaseStays DEF SchemesInv
  <1>6. CASE failed' = TRUE /\ step' = "finish" /\ UNCHANGED <<done, tx>>
    <2>1. MigrateTypes'
      BY <1>1, <1>6 DEF SchemesInv, MigrateTypes
    <2>2. TransactionInv'
      BY <1>1, <1>2, <1>4, <1>6 DEF TransactionInv
    <2>3. TurnInv'
      BY <1>1, <1>6, HeldStays DEF SchemesInv, TurnInv
    <2>4. QED BY <1>1, <2>1, <2>2, <2>3, DatabaseStays DEF SchemesInv
  <1>7. QED BY <1>5, <1>6 DEF Schemes!Exec

\* After the last statement the deferred function runs with nothing failed.
LEMMA ExecutedKeeps ==
  ASSUME SchemesInv, Schemes!Executed PROVE SchemesInv'
  <1>1. /\ step = "exec" /\ done = Len(Schemes!Steps(at)) /\ step' = "finish"
        /\ UNCHANGED <<at, done, tx, applied, version, from, failed>>
    BY DEF Schemes!Executed
  <1>2. MigrateTypes'
    BY <1>1 DEF SchemesInv, MigrateTypes
  <1>3. Schemes!Steps(at)' = Schemes!Steps(at)
    BY <1>1 DEF Schemes!Steps
  <1>4. TransactionInv'
    BY <1>1, <1>3 DEF SchemesInv, TransactionInv
  <1>5. TurnInv'
    BY <1>1, HeldStays DEF SchemesInv, TurnInv
  <1>6. QED BY <1>1, <1>2, <1>4, <1>5, DatabaseStays DEF SchemesInv

\* The database after a commit: what it held, and the statements of a scheme
\* (sql.go:39-51).
LEMMA CommitAppends ==
  ASSUME SchemesInv, step = "finish", ~failed, Schemes!Committed
  PROVE  LET n == Len(applied)
             l == Len(Schemes!Steps(at))
         IN  /\ Len(applied') = n + l
             /\ \A k \in 1..n : applied'[k] = applied[k]
             /\ \A k \in 1..l : applied'[n + k] = <<at, k>>
             /\ Schemes!Blocks' = Schemes!Blocks \cup {n + 1}
             /\ version' = IF at \in Recorded THEN Chain[at] ELSE version
             /\ applied' \in Seq((1..Newest) \X (Nat \ {0}))
  <1> DEFINE n == Len(applied)
             l == Len(Schemes!Steps(at))
  <1>1. applied' = applied \o tx
    BY DEF Schemes!Committed
  <1>2. /\ applied \in Seq((1..Newest) \X (Nat \ {0})) /\ tx \in Seq((1..Newest) \X (Nat \ {0}))
        /\ Len(tx) = l /\ \A k \in 1..l : tx[k] = <<at, k>>
    BY DEF SchemesInv, MigrateTypes, TransactionInv
  <1>3. l = (IF at \in Recorded THEN Stmts + 2 ELSE Stmts + 1) /\ l \in Nat \ {0} /\ Stmts \in Nat /\ n \in Nat
    BY <1>2, StepsOf, SchemesAssumption
  <1> HIDE DEF l
  <1>4. /\ Len(applied') = n + l /\ applied' \in Seq((1..Newest) \X (Nat \ {0}))
        /\ \A k \in 1..(n + l) : applied'[k] = IF k <= n THEN applied[k] ELSE tx[k - n]
    BY <1>1, <1>2, ConcatProperties
  <1>5. \A k \in 1..n : applied'[k] = applied[k]
    <2>1. ASSUME NEW k \in 1..n PROVE applied'[k] = applied[k]
      <3>1. k \in 1..(n + l) /\ k <= n
        BY <1>3
      <3>2. QED BY <1>4, <3>1
    <2>2. QED BY <2>1
  <1>6. \A k \in 1..l : applied'[n + k] = <<at, k>>
    <2>1. ASSUME NEW k \in 1..l PROVE applied'[n + k] = <<at, k>>
      <3>1. n + k \in 1..(n + l) /\ ~(n + k <= n) /\ (n + k) - n = k
        BY <1>3
      <3>2. QED BY <1>2, <1>4, <3>1
    <2>2. QED BY <2>1
  <1>7. DOMAIN applied = 1..n /\ DOMAIN applied' = 1..(n + l)
    BY <1>2, <1>4
  <1>8. Schemes!Blocks' = Schemes!Blocks \cup {n + 1}
    <2>1. \A k \in 1..n : k \in Schemes!Blocks' <=> k \in Schemes!Blocks
      BY <1>3, <1>5, <1>7 DEF Schemes!Blocks
    <2>2. \A k \in 1..l : n + k \in Schemes!Blocks' <=> k = 1
      <3>1. ASSUME NEW k \in 1..l PROVE n + k \in Schemes!Blocks' <=> k = 1
        <4>1. n + k \in DOMAIN applied' /\ applied'[n + k] = <<at, k>>
          BY <1>3, <1>6, <1>7
        <4>2. QED BY <4>1 DEF Schemes!Blocks
      <3>2. QED BY <3>1
    <2>3. \A k \in 1..(n + l) : k \in 1..n \/ (k - n \in 1..l /\ k = n + (k - n))
      BY <1>3
    <2>4. Schemes!Blocks \subseteq 1..n /\ Schemes!Blocks' \subseteq 1..(n + l)
      BY <1>7 DEF Schemes!Blocks
    <2>5. n + 1 \in Schemes!Blocks'
      BY <1>3, <2>2
    <2>6. ASSUME NEW k \in Schemes!Blocks' PROVE k \in Schemes!Blocks \cup {n + 1}
      BY <1>3, <2>1, <2>2, <2>3, <2>4
    <2>7. QED BY <2>1, <2>4, <2>5, <2>6
  <1>9. version' = IF at \in Recorded THEN Chain[at] ELSE version
    <2>1. <<at, Schemes!Record>> \in Schemes!ToSet(tx) <=> at \in Recorded
      <3>1. Schemes!ToSet(tx) = {tx[k] : k \in 1..l}
        BY <1>2 DEF Schemes!ToSet
      <3>2. Schemes!ToSet(tx) = {<<at, k>> : k \in 1..l}
        BY <1>2, <3>1
      <3>3. Schemes!Record = Stmts + 2
        BY DEF Schemes!Record
      <3>4. QED BY <1>3, <3>2, <3>3
    <2>2. QED BY <2>1 DEF Schemes!Committed
  <1>10. QED BY <1>4, <1>5, <1>6, <1>8, <1>9 DEF l

\* What is committed is a whole scheme that comes after every recorded one, next
\* to the ones the database holds or among them.
LEMMA CommitKeepsWhole ==
  ASSUME SchemesInv, step = "finish", ~failed, Schemes!Committed
  PROVE  /\ SchemesAreWhole' /\ VersionInv'
         /\ version' <= Chain[at] /\ at \in Held'
         /\ version' \in Nat /\ applied' \in Seq((1..Newest) \X (Nat \ {0}))
  <1> DEFINE n == Len(applied)
             l == Len(Schemes!Steps(at))
             B == Schemes!Blocks
  <1>1. /\ Len(applied') = n + l
        /\ \A k \in 1..n : applied'[k] = applied[k]
        /\ \A k \in 1..l : applied'[n + k] = <<at, k>>
        /\ Schemes!Blocks' = B \cup {n + 1}
        /\ version' = IF at \in Recorded THEN Chain[at] ELSE version
        /\ applied' \in Seq((1..Newest) \X (Nat \ {0}))
    BY CommitAppends
  <1>2. /\ l \in Nat \ {0} /\ n \in Nat /\ Newest \in Nat /\ at \in 1..Newest /\ version \in Nat
        /\ DOMAIN applied = 1..n /\ DOMAIN applied' = 1..(n + l)
    <2>1. l \in Nat \ {0} /\ Newest \in Nat
      BY StepsOf, SchemesAssumption DEF Newest
    <2>2. applied \in Seq((1..Newest) \X (Nat \ {0})) /\ at \in 1..Newest /\ version \in Nat
      BY <2>1 DEF SchemesInv, MigrateTypes
    <2> HIDE DEF l
    <2>3. n \in Nat /\ DOMAIN applied = 1..n /\ DOMAIN applied' = 1..(n + l)
      BY <1>1, <2>2
    <2>4. QED BY <2>1, <2>2, <2>3
  <1>3. /\ B \subseteq 1..n
        /\ \A b \in B : applied[b][1] \in 1..Newest /\ applied'[b] = applied[b]
        /\ n + 1 \notin B /\ applied'[n + 1] = <<at, 1>> /\ applied'[n + 1][1] = at
    <2>1. B \subseteq 1..n
      BY <1>2 DEF Schemes!Blocks
    <2>2. \A k \in 1..n : applied[k][1] \in 1..Newest
      BY <1>2 DEF SchemesInv, MigrateTypes
    <2>3. 1 \in 1..l /\ n + 1 \notin 1..n
      BY <1>2
    <2>4. QED BY <1>1, <2>1, <2>2, <2>3
  <1>4. /\ \A b \in B : \A m \in DOMAIN Schemes!Steps(applied[b][1]) :
              b + m - 1 <= n /\ applied[b + m - 1] = Schemes!Steps(applied[b][1])[m]
        /\ \A k \in DOMAIN applied : \E b \in B : b <= k /\ k < b + Len(Schemes!Steps(applied[b][1]))
        /\ \A b, c \in B : b < c /\ applied[b][1] \in Recorded => applied[b][1] < applied[c][1]
        /\ \A b, c \in B : \A i \in applied[b][1]..applied[c][1] : \E d \in B : applied[d][1] = i
        /\ \A b \in B : applied[b][1] \in Recorded => Chain[applied[b][1]] <= version
    BY DEF SchemesInv, SchemesAreWhole, Schemes!SchemesAreWhole
  <1>5. /\ version < Chain[at] /\ Chain[at] \in Nat
        /\ Held = {} => at = 1 \/ version = Chain[at - 1]
        /\ Held # {} => at \in Held \/ at - 1 \in Held
    BY <1>2, VersionsRise DEF SchemesInv, TurnInv
  <1>6. \A i : Schemes!Steps(i)' = Schemes!Steps(i)
    BY DEF Schemes!Steps
  <1>7. Held' = Held \cup {at}
    BY <1>1, <1>2, <1>3 DEF Held
  <1> HIDE DEF n, l, B
  <1>8. ASSUME NEW b \in Schemes!Blocks', NEW m \in DOMAIN Schemes!Steps(applied'[b][1])
        PROVE  b + m - 1 <= Len(applied') /\ applied'[b + m - 1] = Schemes!Steps(applied'[b][1])[m]
    <2>1. CASE b \in B
      <3>1. applied'[b][1] = applied[b][1] /\ m \in Nat \ {0} /\ b \in 1..n
        <4>1. b \in 1..n /\ applied'[b] = applied[b] /\ applied[b][1] \in 1..Newest
          BY <1>3, <2>1
        <4>2. DOMAIN Schemes!Steps(applied'[b][1]) \subseteq Nat \ {0}
          BY <4>1, StepsOf
        <4>3. QED BY <1>8, <4>1, <4>2
      <3>2. b + m - 1 <= n /\ applied[b + m - 1] = Schemes!Steps(applied[b][1])[m]
        BY <1>4, <1>8, <2>1, <3>1
      <3>3. b + m - 1 \in 1..n /\ b + m - 1 <= n + l
        BY <1>2, <3>1, <3>2
      <3>4. applied'[b + m - 1] = applied[b + m - 1]
        BY <1>1, <3>3
      <3>5. QED BY <1>1, <3>1, <3>2, <3>3, <3>4
    <2>2. CASE b = n + 1
      <3>1. m \in 1..l /\ Schemes!Steps(at)[m] = <<at, m>>
        BY <1>3, <1>8, <2>2, StepsOf DEF l
      <3>2. b + m - 1 = n + m /\ n + m <= n + l
        BY <1>2, <2>2, <3>1
      <3>3. applied'[n + m] = <<at, m>> /\ applied'[b][1] = at
        BY <1>1, <1>3, <2>2, <3>1
      <3>4. QED BY <1>1, <3>1, <3>2, <3>3
    <2>3. QED BY <1>1, <2>1, <2>2
  <1>9. ASSUME NEW k \in DOMAIN applied'
        PROVE  \E b \in Schemes!Blocks' : b <= k /\ k < b + Len(Schemes!Steps(applied'[b][1]))
    <2>1. CASE k \in 1..n
      <3>1. PICK b \in B : b <= k /\ k < b + Len(Schemes!Steps(applied[b][1]))
        BY <1>2, <1>4, <2>1
      <3>2. QED BY <1>1, <1>3, <3>1
    <2>2. CASE k \notin 1..n
      <3>1. n + 1 <= k /\ k < (n + 1) + l
        BY <1>2, <2>2
      <3>2. QED BY <1>1, <1>3, <3>1 DEF l
    <2>3. QED BY <2>1, <2>2
  <1>10. ASSUME NEW b \in Schemes!Blocks', NEW c \in Schemes!Blocks', b < c, applied'[b][1] \in Recorded
         PROVE  applied'[b][1] < applied'[c][1]
    <2>1. b \in B
      BY <1>1, <1>2, <1>3, <1>10
    <2>2. CASE c \in B
      BY <1>3, <1>4, <1>10, <2>1, <2>2
    <2>3. CASE c = n + 1
      <3>1. applied[b][1] \in 1..Newest /\ Chain[applied[b][1]] <= version
        BY <1>3, <1>4, <1>10, <2>1
      <3>2. Chain[applied[b][1]] \in Nat
        BY <3>1, VersionsRise
      <3>3. Chain[applied[b][1]] < Chain[at]
        BY <1>2, <1>5, <3>1, <3>2
      <3>4. applied[b][1] < at
        BY <1>2, <3>1, <3>3, VersionsRise
      <3>5. QED BY <1>3, <2>1, <2>3, <3>4
    <2>4. QED BY <1>1, <2>2, <2>3
  <1>11. ASSUME NEW i \in Held', NEW j \in Held', NEW k \in i..j PROVE k \in Held'
    <2>1. \A p, q \in Held : p..q \subseteq Held
      <3>1. SUFFICES ASSUME NEW p \in Held, NEW q \in Held, NEW m \in p..q PROVE m \in Held
        OBVIOUS
      <3>2. p \in 1..Newest /\ q \in 1..Newest
        BY DEF Held
      <3>3. PICK b \in B, c \in B : applied[b][1] = p /\ applied[c][1] = q
        BY DEF Held, B
      <3>4. \E d \in B : applied[d][1] = m
        BY <1>4, <3>3
      <3>5. m \in 1..Newest
        BY <1>2, <3>2
      <3>6. QED BY <3>4, <3>5 DEF Held, B
    <2>2. Held \subseteq 1..Newest
      BY DEF Held
    <2>3. CASE i \in Held /\ j \in Held
      BY <1>7, <2>1, <2>3
    <2>4. CASE i = at /\ j = at
      BY <1>2, <1>7, <2>4
    <2>5. CASE i = at /\ j \in Held
      <3>1. PICK p \in Held : p = at \/ p = at - 1
        BY <1>5, <2>5
      <3>2. k \in p..j
        BY <1>2, <2>2, <2>5, <3>1
      <3>3. QED BY <1>7, <2>1, <2>5, <3>1, <3>2
    <2>6. CASE i \in Held /\ j = at
      <3>1. PICK p \in Held : p = at \/ p = at - 1
        BY <1>5, <2>6
      <3>2. k = at \/ k \in i..p
        BY <1>2, <2>2, <2>6, <3>1
      <3>3. QED BY <1>7, <2>1, <2>6, <3>1, <3>2
    <2>7. QED BY <1>7, <2>3, <2>4, <2>5, <2>6
  <1>12. ASSUME NEW b \in Schemes!Blocks', NEW c \in Schemes!Blocks', NEW i \in applied'[b][1]..applied'[c][1]
         PROVE  \E d \in Schemes!Blocks' : applied'[d][1] = i
    <2>1. \A d \in Schemes!Blocks' : applied'[d][1] \in 1..Newest
      BY <1>1, <1>2, <1>3
    <2>2. applied'[b][1] \in Held' /\ applied'[c][1] \in Held'
      BY <2>1 DEF Held
    <2>3. i \in Held'
      BY <1>11, <2>2
    <2>4. QED BY <2>3 DEF Held
  <1>13. ASSUME NEW b \in Schemes!Blocks', applied'[b][1] \in Recorded
         PROVE  Chain[applied'[b][1]] <= version'
    <2>1. CASE b \in B
      <3>1. applied[b][1] \in 1..Newest /\ applied'[b][1] = applied[b][1] /\ Chain[applied[b][1]] <= version
        BY <1>3, <1>4, <1>13, <2>1
      <3>2. Chain[applied[b][1]] \in Nat
        BY <3>1, VersionsRise
      <3>3. version <= version'
        BY <1>1, <1>2, <1>5
      <3>4. version' \in Nat
        BY <1>1, <1>2, <1>5
      <3>5. QED BY <1>2, <3>1, <3>2, <3>3, <3>4
    <2>2. CASE b = n + 1
      BY <1>1, <1>3, <1>5, <1>13, <2>2
    <2>3. QED BY <1>1, <2>1, <2>2
  <1>14. SchemesAreWhole'
    BY <1>6, <1>8, <1>9, <1>10, <1>12, <1>13 DEF SchemesAreWhole, Schemes!SchemesAreWhole
  <1>15. VersionInv'
    <2>1. CASE at \in Recorded
      BY <1>1, <1>7, <2>1 DEF VersionInv
    <2>2. CASE at \notin Recorded /\ Held = {}
      <3>1. version' = version /\ Held' = {at} /\ at <= at
        BY <1>1, <1>2, <1>7, <2>2
      <3>2. (at = 1 /\ version < Chain[1]) \/ (at > 1 /\ version = Chain[at - 1])
        <4>1. CASE at = 1
          BY <1>5, <4>1
        <4>2. CASE at # 1
          <5>1. at > 1
            BY <1>2, <4>2
          <5>2. QED BY <1>5, <2>2, <4>2, <5>1
        <4>3. QED BY <4>1, <4>2
      <3>3. QED BY <3>1, <3>2 DEF VersionInv
    <2>3. CASE at \notin Recorded /\ Held # {}
      <3>1. version' = version
        BY <1>1, <2>3
      <3>2. ASSUME NEW i \in Held, \A j \in Held : i <= j PROVE \A j \in Held' : i <= j
        <4>1. i <= at
          BY <1>2, <1>5, <2>3, <3>2 DEF Held
        <4>2. QED BY <1>7, <3>2, <4>1
      <3>3. QED BY <1>7, <2>3, <3>1, <3>2 DEF SchemesInv, VersionInv
    <2>4. QED BY <2>1, <2>2, <2>3
  <1>16. version' <= Chain[at] /\ at \in Held' /\ version' \in Nat
    BY <1>1, <1>2, <1>5, <1>7
  <1>17. QED BY <1>1, <1>14, <1>15, <1>16

\* The deferred function commits a whole scheme or nothing, whatever it returns
\* (sql.go:39-51).
LEMMA FinishKeeps ==
  ASSUME SchemesInv, Schemes!Finish PROVE SchemesInv'
  <1>1. step = "finish" /\ tx' = <<>> /\ step' = "return" /\ UNCHANGED <<at, done, from>>
    BY DEF Schemes!Finish
  <1>2. tx' \in Seq((1..Newest) \X (Nat \ {0}))
    BY <1>1
  <1>3. TransactionInv'
    BY <1>1 DEF TransactionInv
  <1>4. ASSUME UNCHANGED <<applied, version>>, failed' = TRUE PROVE SchemesInv'
    <2>1. MigrateTypes'
      BY <1>1, <1>2, <1>4 DEF SchemesInv, MigrateTypes
    <2>2. TurnInv'
      BY <1>1, <1>4 DEF TurnInv
    <2>3. QED BY <1>3, <1>4, <2>1, <2>2, DatabaseStays DEF SchemesInv
  <1>5. ASSUME ~failed, Schemes!Committed, failed' \in BOOLEAN PROVE SchemesInv'
    <2>1. /\ SchemesAreWhole' /\ VersionInv'
          /\ version' <= Chain[at] /\ at \in Held'
          /\ version' \in Nat /\ applied' \in Seq((1..Newest) \X (Nat \ {0}))
      BY <1>1, <1>5, CommitKeepsWhole
    <2>2. MigrateTypes'
      BY <1>1, <1>2, <1>5, <2>1 DEF SchemesInv, MigrateTypes
    <2>3. TurnInv'
      BY <1>1, <2>1 DEF TurnInv
    <2>4. QED BY <1>3, <2>1, <2>2, <2>3 DEF SchemesInv
  <1>6. CASE failed /\ UNCHANGED <<applied, version, failed, failures>>
    <2>1. failed' = TRUE
      BY <1>6 DEF SchemesInv, MigrateTypes
    <2>2. QED BY <1>4, <1>6, <2>1
  <1>7. CASE ~failed /\ Schemes!Committed /\ UNCHANGED <<failed, failures>>
    <2>1. failed' \in BOOLEAN
      BY <1>7 DEF SchemesInv, MigrateTypes
    <2>2. QED BY <1>5, <1>7, <2>1
  <1>8. CASE ~failed /\ failed' = TRUE /\ (Schemes!Committed \/ UNCHANGED <<applied, version>>)
    BY <1>4, <1>5, <1>8
  <1>9. QED BY <1>6, <1>7, <1>8 DEF Schemes!Finish

\* A process that dies leaves the database as it was.
LEMMA DeathKeeps ==
  ASSUME SchemesInv, Schemes!Crash PROVE SchemesInv'
  <1>1. /\ step' = "idle" /\ at' = 0 /\ done' = 0 /\ tx' = <<>> /\ failed' = TRUE
        /\ UNCHANGED <<applied, version, from>>
    BY DEF Schemes!Crash
  <1>2. MigrateTypes'
    <2>1. tx' \in Seq((1..Newest) \X (Nat \ {0}))
      BY <1>1
    <2>2. 0 \in 0..Newest
      BY SchemesAssumption DEF Newest
    <2>3. QED BY <1>1, <2>1, <2>2 DEF SchemesInv, MigrateTypes
  <1>3. TransactionInv' /\ TurnInv'
    BY <1>1 DEF TransactionInv, TurnInv
  <1>4. QED BY <1>1, <1>2, <1>3, DatabaseStays DEF SchemesInv

\* For any chain of schemes, any of which may leave its version unrecorded, and
\* any number of failures, the database holds whole schemes in order
\* (sql.go:19-74).
THEOREM SchemesAlwaysWhole == Schemes!Spec => []SchemesAreWhole
  <1>1. SchemesInv /\ [Schemes!Next]_(Schemes!vars) => SchemesInv'
    <2> SUFFICES ASSUME SchemesInv, [Schemes!Next]_(Schemes!vars) PROVE SchemesInv'
      OBVIOUS
    <2>1. CASE UNCHANGED Schemes!vars
      <3>1. UNCHANGED <<step, at, done, tx, applied, version, from, failed>>
        BY <2>1 DEF Schemes!vars
      <3>2. Schemes!Steps(at)' = Schemes!Steps(at)
        BY <3>1 DEF Schemes!Steps
      <3>3. MigrateTypes' /\ TransactionInv'
        BY <3>1, <3>2 DEF SchemesInv, MigrateTypes, TransactionInv
      <3>4. TurnInv'
        BY <3>1, HeldStays DEF SchemesInv, TurnInv
      <3>5. QED BY <3>1, <3>3, <3>4, DatabaseStays DEF SchemesInv
    <2>2. CASE Schemes!Call \/ Schemes!Crash
      BY <2>2, CallKeeps, DeathKeeps
    <2>3. CASE Schemes!Migrating
      BY <2>3, CompareKeeps, ReturnKeeps, BeginKeeps, ExecKeeps, ExecutedKeeps, FinishKeeps DEF Schemes!Migrating
    <2>4. QED BY <2>1, <2>2, <2>3 DEF Schemes!Next
  <1>2. SchemesInv => SchemesAreWhole
    BY DEF SchemesInv
  <1>3. QED BY <1>1, <1>2, SchemesBegin, PTL DEF Schemes!Spec

-----------------------------------------------------------------------------
(* The services side by side: a behaviour of all of them is one of each.   *)

\* Every step of the services is a step of one of them, or none, and of no other.
LEMMA EachServiceRuns ==
  ServicesSpec => Spec /\ Chat!Spec /\ Templates!Spec /\ Token!Spec /\ Schemes!Spec
  <1>1. ServicesInit => Init /\ Chat!Init /\ Templates!Init /\ Token!Init /\ Schemes!Init
    BY DEF ServicesInit
  <1>2. [ServicesNext]_allVars =>
            /\ [Next]_vars
            /\ [Chat!Next]_(Chat!vars)
            /\ [Templates!Next]_(Templates!vars)
            /\ [Token!Next]_(Token!vars)
            /\ [Schemes!Next]_(Schemes!vars)
    <2> SUFFICES ASSUME [ServicesNext]_allVars
                 PROVE  /\ Next \/ UNCHANGED vars
                        /\ Chat!Next \/ UNCHANGED Chat!vars
                        /\ Templates!Next \/ UNCHANGED Templates!vars
                        /\ Token!Next \/ UNCHANGED Token!vars
                        /\ Schemes!Next \/ UNCHANGED Schemes!vars
      OBVIOUS
    <2>1. UNCHANGED templates <=> UNCHANGED Templates!vars
      BY DEF templates, Templates!vars
    <2>2. UNCHANGED kept <=> UNCHANGED Token!vars
      BY DEF kept, Token!vars
    <2>3. UNCHANGED schemes <=> UNCHANGED Schemes!vars
      BY DEF schemes, Schemes!vars
    <2>4. UNCHANGED allVars => UNCHANGED <<vars, chat, templates, schemes, kept>>
      BY DEF allVars
    <2>5. UNCHANGED chat <=> UNCHANGED Chat!vars
      BY DEF chat, Chat!vars
    <2>6. QED BY <2>1, <2>2, <2>3, <2>4, <2>5 DEF ServicesNext, Token!Next
  <1>3. QED BY <1>1, <1>2, PTL DEF ServicesSpec, Spec, Chat!Spec, Templates!Spec, Token!Spec, Schemes!Spec

\* What each service promises holds of them side by side (mvc/view.go, sec/sec.go,
\* mvc/controller/websocket.go, auth/otp, store/sql.go, handler/static.go).
THEOREM ServicesKeepTheirPromises ==
  ServicesSpec => [](CopiesAreSound /\ Chat!BroadcastWaits /\ TemplatesExpire /\ TokensAccepted /\ SchemesAreWhole)
  BY EachServiceRuns, CopiesAlwaysSound, BroadcastsAlwaysWait, TemplatesAlwaysExpire, TokensAlwaysAccepted,
     SchemesAlwaysWhole, PTL
=============================================================================
