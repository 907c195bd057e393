--------------------------- MODULE BufferedLogfile ---------------------------
(***************************************************************************)
(* CBufferedLogfile (src/common-include/include/BufferedLogfile.h), a file *)
(* that is written by way of a buffer, and CMmLogfile (mmlogfile.h), which *)
(* opens one on first use and writes each log line to it in pieces.  A     *)
(* write of fsapi may do all it is told, a part, nothing, or fail: `disk'  *)
(* says how the writes of the present call fare.  Some builds have the     *)
(* assertions of BufferedLogfile.h and some have not: `checks'.  A crash   *)
(* may come between any two calls; one within a call leaves a file that a  *)
(* crash after FlushBuffer() leaves, too.                                  *)
(***************************************************************************)
EXTENDS Integers, Sequences, SequencesExt

CONSTANTS
  Msg,      \* what clients append
  Line,     \* the pieces mm_printf_ct() makes of what clients log
  BufMax,   \* buffer sizes clients ask for
  Disk,     \* how the writes of a call may fare (see Write)
  MaxFile   \* bound on the bytes in file and buffer

ASSUME LogAssumption ==
  /\ Msg \subseteq Seq(Nat) /\ Line \subseteq Seq(Msg) /\ BufMax \subseteq Int
  /\ Disk \subseteq Seq(Int)

VARIABLES
  log,    \* the members of CBufferedLogfile, and the file
  blg,    \* CMmLogfile: m_blg exists
  user    \* who owns the log file: a client of its own, or a CMmLogfile

logVars == <<log, blg, user>>

\* A new object for a file that has these bytes.  m_hfile is "Open" or one of two
\* kinds of error code, only one of which is bad_filehandle.  `went' is how the
\* last write did, and `lost' that one of this call fell short and m_fserr is 0.
Fresh(bytes, checks) ==
  [hfile |-> "Bad", wrbuf |-> FALSE, max |-> 0, buf |-> <<>>, err |-> FALSE, ret |-> TRUE,
   file |-> bytes, checks |-> checks, fault |-> "None", disk |-> <<>>, went |-> "All",
   lost |-> FALSE]

IsStarted(L) == L.hfile # "Bad"
Returns(L, r) == [L EXCEPT !.ret = r]

Cleanup(L) == [L EXCEPT !.wrbuf = FALSE, !.hfile = IF @ = "Open" THEN "Bad" ELSE @]

\* Start(), when file_open() gives `handle' and file_setsize() works or not.
Start(L, isAppend, bufmax, handle, sets) ==
  LET b == [L EXCEPT !.buf = <<>>, !.max = IF bufmax <= 0 THEN 1 ELSE bufmax,
                     !.wrbuf = TRUE, !.hfile = handle]
  IN  IF handle # "Open" \/ (~isAppend /\ ~sets)
      THEN Returns(Cleanup(b), FALSE)
      ELSE [b EXCEPT !.file = IF isAppend THEN @ ELSE <<>>, !.ret = TRUE]

\* An assertion fails, or memory is used that is not there: the process ends.
Fails(L, fault) == [L EXCEPT !.fault = fault, !.ret = FALSE]

\* file_write(): at most as many bytes as the next number of `disk' says, of which
\* a negative one is an error; all of them when it says no more.
Write(L, bytes) ==
  LET most == IF L.hfile # "Open" THEN -1 ELSE IF L.disk = <<>> THEN Len(bytes) ELSE Head(L.disk)
      done == IF most < Len(bytes) THEN most ELSE Len(bytes)
  IN  [L EXCEPT !.file = @ \o SubSeq(bytes, 1, done),
                !.disk = IF @ = <<>> THEN @ ELSE Tail(@),
                !.went = CASE done < 0 -> "Error" [] done = 0 -> "Nothing"
                           [] 0 < done /\ done < Len(bytes) -> "Part" [] OTHER -> "All"]

\* FlushBuffer(): the error sticks, and so does what is in the buffer.  A write of
\* nothing is no success and leaves an error code of 0; of one that is cut short
\* the rest is dropped, unless the assertion finds it.
FlushBuffer(L) ==
  LET W == Write(L, L.buf)
  IN  CASE ~IsStarted(L) \/ L.err -> Returns(L, FALSE)
        [] IsStarted(L) /\ ~L.err /\ L.buf = <<>> -> Returns(L, TRUE)
        [] OTHER ->
             CASE W.went = "Error" -> [W EXCEPT !.err = TRUE, !.ret = FALSE]
               [] W.went = "Nothing" -> [W EXCEPT !.lost = TRUE, !.ret = FALSE]
               [] W.went = "Part" /\ W.checks -> Fails(W, "Written")
               [] W.went = "Part" /\ ~W.checks ->
                    [W EXCEPT !.buf = <<>>, !.lost = TRUE, !.ret = TRUE]
               [] W.went = "All" -> [W EXCEPT !.buf = <<>>, !.ret = TRUE]

\* Without the buffer.  A failed write returns a negative code, which as a DWORD
\* counts as a success of another length, as does one that is cut short.
Direct(L, m) ==
  LET W == Write(L, m)
  IN  CASE W.went = "All" -> Returns(W, TRUE)
        [] W.went = "Nothing" -> [W EXCEPT !.lost = TRUE, !.ret = FALSE]
        [] W.went \in {"Part", "Error"} ->
             IF W.checks THEN Fails(W, "Written") ELSE [W EXCEPT !.lost = TRUE, !.ret = TRUE]

\* Flush what is in the buffer, and write m past it.  A failed flush has set
\* m_fserr, says the assertion.
FlushAndWrite(L, m) ==
  LET F == IF L.buf = <<>> THEN Returns(L, TRUE) ELSE FlushBuffer(L)
  IN  CASE F.ret -> Direct(F, m)
        [] ~F.ret /\ F.checks /\ F.went = "Nothing" -> Fails(F, "Full")
        [] OTHER -> F

\* Mutant: What fitted into the buffer stays in front of the rest.
FillAndFlushTwice(L, m) ==
  LET room == L.max - Len(L.buf)
      n == IF Len(m) < room THEN Len(m) ELSE room
      F == FlushBuffer([L EXCEPT !.buf = @ \o SubSeq(m, 1, n)])
  IN  IF F.ret THEN [F EXCEPT !.buf = SubSeq(m, n, Len(m))] ELSE F

\* Fill the buffer, flush it, and put the rest of m into it.
FillAndFlush(L, m) ==
  LET room == L.max - Len(L.buf)
      n == IF Len(m) < room THEN Len(m) ELSE room
      F == FlushBuffer([L EXCEPT !.buf = @ \o SubSeq(m, 1, n)])
  IN  IF F.ret THEN [F EXCEPT !.buf = SubSeq(m, n + 1, Len(m))] ELSE F

\* Mutant: A buffer that is just full is left for the next call.
AppendBytesLate(L, m) ==
  LET total == Len(L.buf) + Len(m)
  IN  CASE total >= 2 * L.max \/ (L.buf = <<>> /\ total > L.max) -> FlushAndWrite(L, m)
        [] total > L.max /\ total < 2 * L.max /\ L.buf # <<>> -> FillAndFlush(L, m)
        [] total <= L.max /\ L.wrbuf -> [L EXCEPT !.buf = @ \o m, !.ret = TRUE]
        [] total <= L.max /\ ~L.wrbuf -> Fails(L, "Buffer")

\* The three ways to write.  An object whose Start() failed may count as started,
\* without a buffer or a file.
AppendBytes(L, m) ==
  LET total == Len(L.buf) + Len(m)
  IN  CASE total >= 2 * L.max \/ (L.buf = <<>> /\ total >= L.max) -> FlushAndWrite(L, m)
        [] total >= L.max /\ total < 2 * L.max /\ L.buf # <<>> -> FillAndFlush(L, m)
        [] total < L.max /\ L.wrbuf -> [L EXCEPT !.buf = @ \o m, !.ret = TRUE]
        [] total < L.max /\ ~L.wrbuf -> Fails(L, "Buffer")

AppendTo(L, m) ==
  CASE ~IsStarted(L) \/ L.err -> Returns(L, FALSE)
    [] IsStarted(L) /\ ~L.err /\ m = <<>> -> Returns(L, TRUE)
    [] OTHER -> IF L.checks /\ Len(L.buf) >= L.max THEN Fails(L, "Full") ELSE AppendBytes(L, m)

End(L) ==
  IF IsStarted(L)
  THEN LET F == FlushBuffer(L)
       IN  IF F.fault = "None" THEN Returns(Cleanup(F), F.ret) ELSE F
  ELSE Returns(L, FALSE)

\* What a log line returns is what its last piece returned, empty pieces apart.
Pieces(L, line) ==
  LET after[i \in 0 .. Len(line)] ==
        IF i = 0 THEN Returns(L, TRUE)
        ELSE IF line[i] = <<>> \/ after[i - 1].fault # "None" THEN after[i - 1]
        ELSE AppendTo(after[i - 1], line[i])
  IN  after[Len(line)]

-----------------------------------------------------------------------------
Handles == {"Open", "Bad", "Err"}
May == log.fault = "None"

\* The call begins with what the disk will do, and keeps the bound.
WithDisk(disk) == [log EXCEPT !.disk = disk, !.lost = FALSE]
Does(L) ==
  /\ log' = [L EXCEPT !.disk = <<>>]
  /\ Len(L.file) + Len(L.buf) <= MaxFile

DoStart(isAppend, bufmax) ==
  /\ May /\ user = "Client" /\ log.hfile # "Open"
  /\ \E handle \in Handles, sets \in BOOLEAN :
       Does(Start(WithDisk(<<>>), isAppend, bufmax, handle, sets))
  /\ UNCHANGED <<blg, user>>

DoAppend(m) ==
  /\ May /\ user = "Client"
  /\ \E disk \in Disk : Does(AppendTo(WithDisk(disk), m))
  /\ UNCHANGED <<blg, user>>

DoFlush ==
  /\ May /\ user = "Client"
  /\ \E disk \in Disk : Does(FlushBuffer(WithDisk(disk)))
  /\ UNCHANGED <<blg, user>>

DoEnd ==
  /\ May /\ user = "Client"
  /\ \E disk \in Disk : Does(End(WithDisk(disk)))
  /\ UNCHANGED <<blg, user>>

\* CMmLogfile::mmlog(): the object it creates on first use stays, even when it
\* could not be started.
Mmlog(line, isAppend, bufmax) ==
  /\ May /\ user = "Mm"
  /\ blg' = TRUE
  /\ IF blg
     THEN \E disk \in Disk : Does(Pieces(WithDisk(disk), line))
     ELSE \E handle \in Handles, sets \in BOOLEAN, disk \in Disk :
            LET S == Start(WithDisk(disk), isAppend, bufmax, handle, sets)
            IN  Does(IF S.ret THEN Pieces(S, line) ELSE S)
  /\ UNCHANGED user

\* The destructor, of either class, and a new object for the same file.
Renewed(E) ==
  IF E.fault # "None" THEN [E EXCEPT !.disk = <<>>]
  ELSE [Fresh(E.file, E.checks) EXCEPT !.lost = E.lost, !.ret = E.ret]
Renew ==
  /\ May /\ IsStarted(log)
  /\ \E disk \in Disk : log' = Renewed(End(WithDisk(disk)))
  /\ blg' = FALSE /\ user' \in {"Client", "Mm"}

Crash ==
  /\ log' = Fresh(log.file, log.checks)
  /\ blg' = FALSE /\ user' \in {"Client", "Mm"}

LogInit == log \in {Fresh(<<>>, checks) : checks \in BOOLEAN} /\ blg = FALSE /\ user \in {"Client", "Mm"}

LogNext ==
  \/ \E isAppend \in BOOLEAN, bufmax \in BufMax : DoStart(isAppend, bufmax)
  \/ \E m \in Msg : DoAppend(m)
  \/ DoFlush \/ DoEnd
  \/ \E line \in Line, isAppend \in BOOLEAN, bufmax \in BufMax : Mmlog(line, isAppend, bufmax)
  \/ Renew \/ Crash

LogSpec == LogInit /\ [][LogNext]_logVars

-----------------------------------------------------------------------------
(* Properties.                                                              *)

\* What the assertions of BufferedLogfile.h guard against has one cause each, and
\* is not met without it: a write that is cut short, one past the buffer that
\* fails, a write of nothing, a file that could not be opened.  Builds that have
\* them miss no write that is cut short.  And a crash loses less than the buffer
\* size the client chose, with a buffer of one byte nothing at all: no call returns
\* with a full buffer, but when the disk has just taken nothing.
LossBounded ==
  /\ log.fault = "Written" => log.checks /\ log.went \in {"Part", "Error"}
  /\ log.fault = "Full" => log.checks /\ log.went = "Nothing"
  /\ log.fault = "Buffer" => log.hfile = "Err"
  /\ log.checks /\ log.fault = "None" => log.went # "Part"
  /\ log.hfile = "Open" => log.wrbuf /\ Len(log.buf) <= log.max
  /\ (log.hfile = "Open" /\ ~log.err /\ log.fault = "None" /\ log.went # "Nothing")
       => Len(log.buf) < log.max

\* To its clients the buffered file is a log that keeps what it accepted, in
\* order and, but for calls in which a write fell short unnoticed, complete,
\* through every mix of the three ways to write: buffered, filled up and flushed,
\* and direct.
AllText == Msg \cup {FlattenSeq(line) : line \in Line}
Accepts(L) == L.hfile = "Open" /\ ~L.err /\ L.fault = "None"
InStream(L) == IF Accepts(L) THEN L.buf ELSE <<>>
Abstract ==
  INSTANCE AppendLog WITH Text <- AllText, stream <- log.file \o InStream(log),
    stored <- Len(log.file), open <- log.hfile = "Open" /\ log.fault = "None",
    told <- log.ret, short <- log.lost
ImplementsAppendLog == Abstract!Spec

=============================================================================
