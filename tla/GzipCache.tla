------------------------------ MODULE GzipCache ------------------------------
(***************************************************************************)
(* The compressed copies StaticFileHandler keeps beside a static file      *)
(* (handler/static.go, web/resp/gzip.go): a request that compresses the    *)
(* file also writes path.gz.tmp, which becomes path.gz if the whole file   *)
(* went through; a later request is served from path.gz if it is not older *)
(* than the file.  Requests run side by side, clients go away, the disk    *)
(* fills up, the file is replaced by newer versions and the process dies.  *)
(*                                                                         *)
(* A file's time is the newest version of the original when it was written *)
(* last: times are compared by the tick, and equal counts as not older.    *)
(***************************************************************************)
EXTENDS Integers, Sequences, FiniteSets

CONSTANTS
    Requests,   \* requests of a client that takes gzip, with no condition
    Sizes,      \* Sizes[v]: blocks of version v of the file
    Crashes     \* bound: how often the process dies

VARIABLES
    file,       \* the version that has the file's name
    gz, tmp,    \* which request wrote the file of that name, or Nobody
    data,       \* what each request wrote to the copy it made
    pc, clen, modtime, open, raw,   \* of each request: where it is, the size and
                \* the time it found, the version it reads, the bytes that went through
    answer,     \* what the client got
    left        \* crashes left

vars == <<file, gz, tmp, data, pc, clen, modtime, open, raw, answer, left>>

Nobody == "nobody"
Versions == 1..Len(Sizes)

\* There is a file to begin with, and its versions have sizes.
ASSUME CacheAssumption ==
    /\ Nobody \notin Requests
    /\ Sizes \in Seq(Nat) /\ Len(Sizes) # 0
    /\ Crashes \in Nat

NoData == [version |-> 0, blocks |-> 0, footer |-> "due", time |-> 0]
NoAnswer == [from |-> "none", version |-> 0]

Init ==
    /\ file = 1 /\ gz = Nobody /\ tmp = Nobody
    /\ data = [r \in Requests |-> NoData]
    /\ pc = [r \in Requests |-> "start"]
    /\ clen = [r \in Requests |-> 0] /\ modtime = [r \in Requests |-> 0]
    /\ open = [r \in Requests |-> 0] /\ raw = [r \in Requests |-> 0]
    /\ answer = [r \in Requests |-> NoAnswer]
    /\ left = Crashes

Go(r, label) == pc' = [pc EXCEPT ![r] = label]

\* The program's owner replaces the file.
Replace ==
    /\ file < Len(Sizes)
    /\ file' = file + 1
    /\ UNCHANGED <<gz, tmp, data, pc, clen, modtime, open, raw, answer, left>>

Stat(r) ==
    /\ pc[r] = "start"
    /\ clen' = [clen EXCEPT ![r] = Sizes[file]]
    /\ modtime' = [modtime EXCEPT ![r] = file]
    /\ Go(r, "statgz")
    /\ UNCHANGED <<file, gz, tmp, data, open, raw, answer, left>>

\* A mutant: the times are not compared.
StatAnyCopy(r) ==
    /\ pc[r] = "statgz"
    /\ Go(r, IF gz # Nobody THEN "opengz" ELSE "open")
    /\ UNCHANGED <<file, gz, tmp, data, clen, modtime, open, raw, answer, left>>

StatCopy(r) ==
    /\ pc[r] = "statgz"
    /\ Go(r, IF gz # Nobody /\ data[gz].time >= modtime[r] THEN "opengz" ELSE "open")
    /\ UNCHANGED <<file, gz, tmp, data, clen, modtime, open, raw, answer, left>>

\* The copy may have been removed since, or be another one.
ServeCopy(r) ==
    /\ pc[r] = "opengz"
    /\ answer' = [answer EXCEPT ![r] = IF gz = Nobody THEN [from |-> "notfound", version |-> 0]
                                       ELSE [from |-> "copy", version |-> data[gz].version]]
    /\ Go(r, "done")
    /\ UNCHANGED <<file, gz, tmp, data, clen, modtime, open, raw, left>>

Open(r) ==
    /\ pc[r] = "open"
    /\ open' = [open EXCEPT ![r] = file]
    /\ Go(r, "create")
    /\ UNCHANGED <<file, gz, tmp, data, clen, modtime, raw, answer, left>>

\* O_EXCL: one request at a time writes a copy, the others only answer.  A request
\* with a condition or without a body makes none.
Create(r) ==
    /\ pc[r] = "create"
    /\ \/ tmp = Nobody /\ tmp' = r /\ data' = [data EXCEPT ![r] = [NoData EXCEPT !.version = open[r], !.time = file]]
       \/ UNCHANGED <<tmp, data>>
    /\ Go(r, "write")
    /\ UNCHANGED <<file, gz, clen, modtime, open, raw, answer, left>>

Writes(r) == data[r].version # 0

\* A mutant: nobody closes the writer.
WriteLeftOpen(r) ==
    /\ pc[r] = "write"
    /\ \/ /\ raw[r] < Sizes[open[r]]
          /\ raw' = [raw EXCEPT ![r] = @ + 1]
          /\ data' = IF Writes(r) THEN [data EXCEPT ![r].blocks = @ + 1, ![r].time = file] ELSE data
          /\ UNCHANGED <<pc, answer>>
       \/ /\ answer' = [answer EXCEPT ![r] = [from |-> IF raw[r] = Sizes[open[r]] THEN "file" ELSE "cut",
                                              version |-> open[r]]]
          /\ Go(r, IF Writes(r) THEN "settle" ELSE "done") /\ UNCHANGED <<raw, data>>
    /\ UNCHANGED <<file, gz, tmp, clen, modtime, open, left>>

\* A block goes to the client and then to the copy; raw counts it if both took it.
\* The answer ends with the file, or with the client, or with the disk.
Write(r) ==
    /\ pc[r] = "write"
    /\ \/ /\ raw[r] < Sizes[open[r]]
          /\ raw' = [raw EXCEPT ![r] = @ + 1]
          /\ data' = IF Writes(r) THEN [data EXCEPT ![r].blocks = @ + 1, ![r].time = file] ELSE data
          /\ UNCHANGED <<pc, answer>>
       \/ /\ raw[r] = Sizes[open[r]]
          /\ answer' = [answer EXCEPT ![r] = [from |-> "file", version |-> open[r]]]
          /\ Go(r, "close") /\ UNCHANGED <<raw, data>>
       \/ /\ answer' = [answer EXCEPT ![r] = [from |-> "cut", version |-> open[r]]]
          /\ Go(r, "close") /\ UNCHANGED <<raw, data>>
    /\ UNCHANGED <<file, gz, tmp, clen, modtime, open, left>>

\* The footer goes to the client and then to the copy.  Whether both took it is
\* not looked at: a copy without it is settled like any other.
CloseWriter(r) ==
    /\ pc[r] = "close"
    /\ IF Writes(r)
       THEN /\ \E f \in {"written", "failed"} :
                 data' = [data EXCEPT ![r].footer = f, ![r].time = IF f = "written" THEN file ELSE @]
            /\ Go(r, "settle")
       ELSE Go(r, "done") /\ UNCHANGED data
    /\ UNCHANGED <<file, gz, tmp, clen, modtime, open, raw, answer, left>>

\* A mutant: any copy with something in it is kept.
SettleAny(r) ==
    /\ pc[r] = "settle"
    /\ IF raw[r] > 0
       THEN gz' = Nobody /\ Go(r, "rename") /\ UNCHANGED tmp
       ELSE tmp' = Nobody /\ Go(r, "done") /\ UNCHANGED gz
    /\ UNCHANGED <<file, data, clen, modtime, open, raw, answer, left>>

\* A copy through which as much went as the file had is kept: the old one is removed.
Settle(r) ==
    /\ pc[r] = "settle"
    /\ IF raw[r] > 0 /\ raw[r] = clen[r]
       THEN gz' = Nobody /\ Go(r, "rename") /\ UNCHANGED tmp
       ELSE tmp' = Nobody /\ Go(r, "done") /\ UNCHANGED gz
    /\ UNCHANGED <<file, data, clen, modtime, open, raw, answer, left>>

\* A rename that fails removes the copy.
Rename(r) ==
    /\ pc[r] = "rename"
    /\ gz' = tmp \/ UNCHANGED gz
    /\ tmp' = Nobody /\ Go(r, "done")
    /\ UNCHANGED <<file, data, clen, modtime, open, raw, answer, left>>

\* The process dies with all its requests; the files stay.
Crash ==
    /\ left > 0 /\ left' = left - 1
    /\ \E r \in Requests : pc[r] \notin {"start", "done"}
    /\ pc' = [r \in Requests |-> IF pc[r] = "start" THEN "start" ELSE "done"]
    /\ UNCHANGED <<file, gz, tmp, data, clen, modtime, open, raw, answer>>

ServeHTTP(r) ==
    \/ Stat(r) \/ StatCopy(r) \/ ServeCopy(r) \/ Open(r) \/ Create(r)
    \/ Write(r) \/ CloseWriter(r) \/ Settle(r) \/ Rename(r)

Next == Replace \/ Crash \/ \E r \in Requests : ServeHTTP(r)

Spec == Init /\ [][Next]_vars

-----------------------------------------------------------------------------
(* What path.gz holds is a whole version of the file and its footer,       *)
(* whatever clients, disks and crashes do, with two exceptions: a request  *)
(* may compress another version than the one whose size it found           *)
(* (static.go:86, 144), and the write of the footer may fail, which the    *)
(* code does not look at, so that the copy is cut short and served from    *)
(* then on (static.go:168-175, 187).                                       *)
CopyIsWhole ==
    gz # Nobody =>
        /\ data[gz].blocks = Sizes[data[gz].version] \/ modtime[gz] # data[gz].version
        /\ data[gz].footer \in {"written", "failed"}

(* A client is served from a copy older than the file it asked for only if *)
(* the file was replaced while that copy was being written: then the copy  *)
(* counts as not older (static.go:113).                                    *)
CopyIsCurrent ==
    \A r \in Requests : answer[r].from = "copy" /\ answer[r].version < modtime[r] =>
        \E w \in Requests : data[w].version = answer[r].version /\ data[w].time > data[w].version

(* path.gz.tmp is there only while a request is at it, unless the process  *)
(* died: a failure does not keep later requests from making a copy         *)
(* (static.go:167-186).                                                    *)
TemporaryIsOwned ==
    tmp # Nobody /\ left = Crashes => pc[tmp] \in {"write", "close", "settle", "rename"}

(* The copies are whole but for a footer that could not be written and for *)
(* a race, current but for a race, and made again.                         *)
CopiesAreSound == CopyIsWhole /\ CopyIsCurrent /\ TemporaryIsOwned
=============================================================================
