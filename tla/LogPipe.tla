------------------------------ MODULE LogPipe ------------------------------
(***************************************************************************)
(* native/src/core/logging.rs: the threads of the daemon and the processes *)
(* zygisk lives in write their messages into one named pipe, and a thread  *)
(* of the daemon writes them to the log, into memory until /data is there. *)
(*                                                                         *)
(* A message and its header are one write of at most PIPE_BUF bytes, so    *)
(* the pipe holds whole records.  A pipe nobody has open is empty.         *)
(***************************************************************************)
EXTENDS Naturals, Sequences, FiniteSets

CONSTANTS
    LogThreads,  \* threads of the daemon
    Zygotes,     \* processes with zygisk
    PipeRecords, \* bound: records the pipe holds
    MaxSent      \* bound: messages a thread or process writes

ASSUME LogAssumption == MaxSent \in Nat

VARIABLES
    lgFd,        \* MAGISK_LOGD_FD is set
    lgPipe,      \* the records in the pipe
    lgReader,    \* logfile_writer_thread: "none", "reads", "stopped"
    lgFile,      \* LogFile: [kind, data]
    lgDisk,      \* LOGFILE and LOGFILE.bak: sequences of messages, the last boot's at first
    lgHas,       \* what a thread is about to write with its copy of the fd, or NoRecord
    lgOpen,      \* ZYGISK_LOGD of a process
    lgSent       \* messages written so far, by writer

logVars == <<lgFd, lgPipe, lgReader, lgFile, lgDisk, lgHas, lgOpen, lgSent>>

NoRecord == <<>>
Setup == <<"setup", 0>>      \* the header with priority -1
Writers == LogThreads \cup Zygotes
LogMessage == {<<w, n>> : w \in Writers, n \in 1..MaxSent}
LastBoot == <<"last_boot", 0>>

Buffer(d) == [kind |-> "Buffer", data |-> d]
Actual == [kind |-> "Actual", data |-> <<>>]

\* With no reader and no writer left, what is in the pipe is gone.
InPipe(pipe, reader, fd, has, open) ==
    IF reader = "reads" \/ fd \/ (\E t \in LogThreads : has[t] # NoRecord) \/ TRUE \in {open[z] : z \in Zygotes}
    THEN pipe ELSE <<>>

-----------------------------------------------------------------------------
(* The daemon's side *)

\* ok: the pipe could be made and opened both ways.
start_log_daemon(ok) ==
    /\ lgReader = "none"
    /\ lgReader' = IF ok THEN "reads" ELSE "stopped"
    /\ lgFd' = ok
    /\ UNCHANGED <<lgPipe, lgFile, lgDisk, lgHas, lgOpen, lgSent>>

\* with_logd_fd: the fd is copied under the lock and used after it.
TakeFd(t, record) ==
    /\ lgReader # "none" /\ lgFd /\ lgHas[t] = NoRecord
    /\ lgHas' = [lgHas EXCEPT ![t] = record]
    /\ UNCHANGED <<lgFd, lgPipe, lgReader, lgFile, lgDisk, lgOpen, lgSent>>

setup_logfile(t) == TakeFd(t, Setup)

magisk_log_to_pipe(t) == lgSent[t] < MaxSent /\ TakeFd(t, <<t, lgSent[t] + 1>>)

HasReader == lgReader = "reads" \/ \E z \in Zygotes : lgOpen[z]

\* write_log_to_pipe: a full pipe makes it wait; without a reader it fails, and the fd is
\* given up.
WriteRecord(t) ==
    /\ lgHas[t] # NoRecord
    /\ lgHas' = [lgHas EXCEPT ![t] = NoRecord]
    /\ lgSent' = IF lgHas[t] = Setup THEN lgSent ELSE [lgSent EXCEPT ![t] = @ + 1]
    /\ \/ /\ HasReader /\ Len(lgPipe) < PipeRecords
          /\ lgPipe' = InPipe(Append(lgPipe, lgHas[t]), lgReader, lgFd, lgHas', lgOpen)
          /\ UNCHANGED lgFd
       \/ /\ ~HasReader
          /\ lgFd' = FALSE
          /\ lgPipe' = InPipe(lgPipe, lgReader, FALSE, lgHas', lgOpen)
    /\ UNCHANGED <<lgReader, lgFile, lgDisk, lgOpen>>

-----------------------------------------------------------------------------
(* zygisk's side: opened for reading and writing, so it never finds the pipe closed *)

\* zygisk_get_logd; without the daemon's files the open fails.
zygisk_get_logd(z) ==
    /\ lgReader # "none" /\ ~lgOpen[z]
    /\ lgOpen' = [lgOpen EXCEPT ![z] = TRUE]
    /\ UNCHANGED <<lgFd, lgPipe, lgReader, lgFile, lgDisk, lgHas, lgSent>>

zygisk_log_to_pipe(z) ==
    /\ lgOpen[z] /\ lgSent[z] < MaxSent /\ Len(lgPipe) < PipeRecords
    /\ lgPipe' = Append(lgPipe, <<z, lgSent[z] + 1>>)
    /\ lgSent' = [lgSent EXCEPT ![z] = @ + 1]
    /\ UNCHANGED <<lgFd, lgReader, lgFile, lgDisk, lgHas, lgOpen>>

\* Before the zygote forks, and when the process goes away.
zygisk_close_logd(z) ==
    /\ lgOpen[z]
    /\ lgOpen' = [lgOpen EXCEPT ![z] = FALSE]
    /\ lgPipe' = InPipe(lgPipe, lgReader, lgFd, lgHas, lgOpen')
    /\ UNCHANGED <<lgFd, lgReader, lgFile, lgDisk, lgHas, lgSent>>

-----------------------------------------------------------------------------
(* logfile_write_loop *)

\* Any failure ends the loop; the thread gives the fd up and its end is closed.
StopLog(pipe) ==
    /\ lgReader' = "stopped" /\ lgFd' = FALSE
    /\ lgPipe' = InPipe(pipe, "stopped", FALSE, lgHas, lgOpen)

\* Mutant: every call of setup_logfile starts a new log.
ReadSetupAgain ==
    /\ lgReader = "reads" /\ lgPipe # <<>> /\ Head(lgPipe) = Setup
    /\ lgPipe' = Tail(lgPipe)
    /\ lgDisk' = [file |-> IF lgFile.kind = "Buffer" THEN lgFile.data ELSE <<>>, bak |-> lgDisk.file]
    /\ lgFile' = Actual
    /\ UNCHANGED <<lgFd, lgReader, lgHas, lgOpen, lgSent>>

ReadSetup ==
    /\ lgReader = "reads" /\ lgPipe # <<>> /\ Head(lgPipe) = Setup
    /\ IF lgFile.kind = "Actual"
       THEN lgPipe' = Tail(lgPipe) /\ UNCHANGED <<lgFd, lgReader, lgFile, lgDisk>>
       ELSE /\ lgFile' = Actual
            /\ \/ /\ lgPipe' = Tail(lgPipe)
                  /\ lgDisk' = [file |-> lgFile.data, bak |-> lgDisk.file]
                  /\ UNCHANGED <<lgFd, lgReader>>
               \/ /\ StopLog(Tail(lgPipe))     \* the file cannot be created, or not written to the end
                  /\ \E n \in 0..Len(lgFile.data) :
                        lgDisk' = [file |-> SubSeq(lgFile.data, 1, n), bak |-> lgDisk.file]
    /\ UNCHANGED <<lgHas, lgOpen, lgSent>>

ReadMessage ==
    /\ lgReader = "reads" /\ lgPipe # <<>> /\ Head(lgPipe) # Setup
    /\ \/ /\ lgPipe' = Tail(lgPipe)
          /\ IF lgFile.kind = "Buffer"
             THEN lgFile' = Buffer(Append(lgFile.data, Head(lgPipe))) /\ UNCHANGED lgDisk
             ELSE lgDisk' = [lgDisk EXCEPT !.file = Append(@, Head(lgPipe))] /\ UNCHANGED lgFile
          /\ UNCHANGED <<lgFd, lgReader>>
       \/ /\ lgFile.kind = "Actual"
          /\ StopLog(Tail(lgPipe))
          /\ UNCHANGED <<lgFile, lgDisk>>
    /\ UNCHANGED <<lgHas, lgOpen, lgSent>>

-----------------------------------------------------------------------------

InitLog ==
    /\ lgFd = FALSE /\ lgPipe = <<>> /\ lgReader = "none"
    /\ lgFile = Buffer(<<>>)
    /\ lgDisk = [file |-> <<LastBoot>>, bak |-> <<>>]
    /\ lgHas = [t \in LogThreads |-> NoRecord]
    /\ lgOpen = [z \in Zygotes |-> FALSE]
    /\ lgSent = [w \in Writers |-> 0]

NextLog ==
    \/ \E ok \in BOOLEAN : start_log_daemon(ok)
    \/ \E t \in LogThreads : setup_logfile(t) \/ magisk_log_to_pipe(t) \/ WriteRecord(t)
    \/ \E z \in Zygotes : zygisk_get_logd(z) \/ zygisk_log_to_pipe(z) \/ zygisk_close_logd(z)
    \/ ReadSetup \/ ReadMessage

SpecLog == InitLog /\ [][NextLog]_logVars

-----------------------------------------------------------------------------
(* Properties *)

\* Of the first i records of s those that are messages, in their order, for every i.
MessagesTo(s) ==
    LET kept[i \in 0..Len(s)] == IF i = 0 THEN <<>>
                                 ELSE IF s[i] = Setup THEN kept[i - 1]
                                 ELSE Append(kept[i - 1], s[i])
    IN kept

Messages(s) == MessagesTo(s)[Len(s)]

\* This boot's log as a reader will find it, in memory or on the disk.
Log == IF lgFile.kind = "Buffer" THEN lgFile.data ELSE lgDisk.file

A == INSTANCE LogSpec WITH
        Message <- LogMessage,
        queue <- IF lgReader = "stopped" THEN <<>> ELSE Messages(lgPipe),
        log <- Log,
        ended <- lgReader = "stopped"

\* The pipe, the buffer and the file behave as one queue that is written to one log: the
\* change from memory to /data loses, repeats and reorders nothing, however often and
\* whenever it is asked for, and whoever writes meanwhile (logfile_write_loop).
LogImplementsSpec == A!Spec
=============================================================================
