----------------------------- MODULE Bandwidth -----------------------------
(***************************************************************************)
(* luci-bwc (modules/luci-mod-status/src/luci-bwc.c), which keeps the      *)
(* samples behind the realtime graphs.  Every invocation is a reader: it   *)
(* makes sure that a daemon runs, then prints a database, a file of        *)
(* Slots entries that both map into memory without a lock.  The daemon     *)
(* shifts the entries and appends one a second, until no reader has        *)
(* signalled it for a while.                                               *)
(*                                                                         *)
(* One database stands for those of interfaces, radios, connections and    *)
(* load, which the same code handles; an entry is its time, 0 in an unused *)
(* slot.  The process a reader forks goes by the name of the reader.       *)
(***************************************************************************)
EXTENDS Integers, Sequences

CONSTANTS
    Readers,    \* invocations of luci-bwc
    Slots,      \* STEP_COUNT
    Patience,   \* TIMEOUT, in steps
    MaxTime     \* bound: times are 1..MaxTime

BandwidthAssumption ==
    /\ Slots \in Nat \ {0} /\ Patience \in Nat /\ MaxTime \in Nat \ {0}
    /\ Readers \cap {"none", "truncated"} = {}

VARIABLES
    pidfile,   \* the process it names, "none" or "truncated"
    file,      \* "missing", "created" (and still of size 0) or "full"
    db,        \* the entries
    cli,       \* per reader: where it is, the pid it has read, the next slot
    printed,   \* per reader: what it has printed
    daemon,    \* per reader: the daemon it has forked, if any
    twoLived   \* TRUE once two daemons have lived at the same time

vars == <<pidfile, file, db, cli, printed, daemon, twoLived>>
daemonVars == <<pidfile, file, db, daemon>>

Time == 0..MaxTime
Alive(p) == p \in Readers /\ daemon[p].pc \notin {"none", "ended"}

Ascending(s) == \A i, j \in 1..Len(s) : i < j => s[i] <= s[j]

Init ==
    /\ pidfile = "none"
    /\ \/ file = "missing" /\ db = [i \in 1..Slots |-> 0]
       \/ file = "full" /\ db \in {d \in [1..Slots -> Time] : Ascending(d)}
    /\ cli = [r \in Readers |-> [pc |-> "start", pid |-> "none", slot |-> 1]]
    /\ printed = [r \in Readers |-> <<>>]
    /\ daemon = [r \in Readers |-> [pc |-> "none", slot |-> 0, time |-> 0, countdown |-> 0]]
    /\ twoLived = FALSE

-----------------------------------------------------------------------------
(* The reader.                                                             *)

Goto(r, pc) == cli' = [cli EXCEPT ![r].pc = pc]

ReadPid(r) ==
    /\ cli[r].pc = "start"
    /\ cli' = [cli EXCEPT ![r].pc = "check", ![r].pid = pidfile]
    /\ UNCHANGED <<printed, twoLived, daemonVars>>

(* kill(pid, 0) fails, or there was no pid in the file: fork a daemon.     *)
Fork(r) ==
    /\ cli[r].pc = "check" /\ ~Alive(cli[r].pid)
    /\ daemon' = [daemon EXCEPT ![r].pc = "forked"]
    /\ twoLived' = (twoLived \/ \E p \in Readers : Alive(p))
    /\ Goto(r, "map")
    /\ UNCHANGED <<pidfile, file, db, printed>>

Ping(r) ==
    /\ cli[r].pc = "check" /\ Alive(cli[r].pid)
    /\ Goto(r, "signal")
    /\ UNCHANGED <<printed, twoLived, daemonVars>>

(* SIGUSR1 makes the daemon start its countdown again.                     *)
Signal(r) ==
    /\ cli[r].pc = "signal" /\ Alive(cli[r].pid)
    /\ daemon' = [daemon EXCEPT ![cli[r].pid].countdown = Patience]
    /\ Goto(r, "map")
    /\ UNCHANGED <<pidfile, file, db, printed, twoLived>>

(* The reader gives up: the daemon is gone before the signal, there is no  *)
(* file, or its pages lie beyond its end (SIGBUS).                         *)
GiveUp(r) ==
    /\ \/ cli[r].pc = "signal" /\ ~Alive(cli[r].pid)
       \/ cli[r].pc = "map" /\ file = "missing"
       \/ cli[r].pc = "dump" /\ file = "created"
    /\ Goto(r, "done")
    /\ UNCHANGED <<printed, twoLived, daemonVars>>

Map(r) ==
    /\ cli[r].pc = "map" /\ file # "missing"
    /\ Goto(r, "dump")
    /\ UNCHANGED <<printed, twoLived, daemonVars>>

(* Mutant of Dump: the entries are printed from the last to the first.     *)
DumpBackward(r) ==
    /\ cli[r].pc = "dump" /\ file = "full"
    /\ LET e == db[Slots + 1 - cli[r].slot]
       IN  printed' = [printed EXCEPT ![r] = IF e = 0 THEN @ ELSE <<e>> \o @]
    /\ cli' = [cli EXCEPT ![r].slot = @ + 1,
                          ![r].pc = IF cli[r].slot = Slots THEN "done" ELSE "dump"]
    /\ UNCHANGED <<twoLived, daemonVars>>

(* One entry of the loop of run_dump_*().                                  *)
Dump(r) ==
    /\ cli[r].pc = "dump" /\ file = "full"
    /\ LET e == db[cli[r].slot]
       IN  printed' = [printed EXCEPT ![r] = IF e = 0 THEN @ ELSE Append(@, e)]
    /\ cli' = [cli EXCEPT ![r].slot = @ + 1,
                          ![r].pc = IF cli[r].slot = Slots THEN "done" ELSE "dump"]
    /\ UNCHANGED <<twoLived, daemonVars>>

-----------------------------------------------------------------------------
(* The daemon.                                                             *)

readerVars == <<cli, printed, twoLived>>
At(d, pc) == daemon[d].pc = pc
Move(d, pc) == daemon' = [daemon EXCEPT ![d].pc = pc]

(* writepid(), once the signal handler is set up: open() truncates.        *)
TruncatePid(d) ==
    /\ At(d, "forked")
    /\ pidfile' = "truncated"
    /\ Move(d, "writepid")
    /\ UNCHANGED <<file, db, readerVars>>

WritePid(d) ==
    /\ At(d, "writepid")
    /\ pidfile' = d
    /\ daemon' = [daemon EXCEPT ![d].pc = "stat", ![d].countdown = Patience]
    /\ UNCHANGED <<file, db, readerVars>>

(* init_file() is called when stat() finds no file; it creates the file,   *)
(* or opens that of another daemon, and fills it with empty entries.       *)
Stat(d) ==
    /\ At(d, "stat")
    /\ Move(d, IF file = "missing" THEN "create" ELSE "sample")
    /\ UNCHANGED <<pidfile, file, db, readerVars>>

Create(d) ==
    /\ At(d, "create")
    /\ file' = IF file = "missing" THEN "created" ELSE file
    /\ Move(d, "fill")
    /\ UNCHANGED <<pidfile, db, readerVars>>

Fill(d) ==
    /\ At(d, "fill")
    /\ file' = "full"
    /\ db' = [i \in 1..Slots |-> 0]
    /\ Move(d, "sample")
    /\ UNCHANGED <<pidfile, readerVars>>

(* time() is any: the clock goes on, or is set by the user or by NTP.      *)
Sample(d) ==
    /\ At(d, "sample")
    /\ \E t \in 1..MaxTime : daemon' = [daemon EXCEPT ![d].pc = "compare", ![d].time = t]
    /\ UNCHANGED <<pidfile, file, db, readerVars>>

(* update_file(): only a sample younger than the last one is appended.     *)
Compare(d) ==
    /\ At(d, "compare") /\ file = "full"
    /\ daemon' = IF daemon[d].time > db[Slots]
                 THEN [daemon EXCEPT ![d].pc = "shift", ![d].slot = 1]
                 ELSE [daemon EXCEPT ![d].pc = "sleep", ![d].time = 0]
    /\ UNCHANGED <<pidfile, file, db, readerVars>>

(* A daemon that touches the file while the other has only created it      *)
(* gets SIGBUS, and leaves the pid file.                                   *)
BusError(d) ==
    /\ At(d, "compare") /\ file = "created"
    /\ Move(d, "ended")
    /\ UNCHANGED <<pidfile, file, db, readerVars>>

(* memmove() copies upwards, as the target lies below the source.          *)
Shift(d) ==
    /\ At(d, "shift") /\ daemon[d].slot < Slots
    /\ db' = [db EXCEPT ![daemon[d].slot] = db[daemon[d].slot + 1]]
    /\ daemon' = [daemon EXCEPT ![d].slot = @ + 1]
    /\ UNCHANGED <<pidfile, file, readerVars>>

(* memcpy() of the sample into the last slot.                              *)
Store(d) ==
    /\ At(d, "shift") /\ daemon[d].slot = Slots
    /\ db' = [db EXCEPT ![Slots] = daemon[d].time]
    /\ daemon' = [daemon EXCEPT ![d].pc = "sleep", ![d].slot = 0, ![d].time = 0]
    /\ UNCHANGED <<pidfile, file, readerVars>>

(* Mutant of Sleep: the countdown runs below zero.                         *)
SleepBelowZero(d) ==
    /\ At(d, "sleep")
    /\ daemon' = [daemon EXCEPT
           ![d].pc = IF daemon[d].countdown >= 0 THEN "stat" ELSE "unlink",
           ![d].countdown = @ - 1]
    /\ UNCHANGED <<pidfile, file, db, readerVars>>

(* sleep(), countdown--, and the test of the loop.                         *)
Sleep(d) ==
    /\ At(d, "sleep")
    /\ daemon' = [daemon EXCEPT
           ![d].pc = IF daemon[d].countdown > 0 THEN "stat" ELSE "unlink",
           ![d].countdown = IF daemon[d].countdown > 0 THEN @ - 1 ELSE 0]
    /\ UNCHANGED <<pidfile, file, db, readerVars>>

Unlink(d) ==
    /\ At(d, "unlink")
    /\ pidfile' = "none"
    /\ Move(d, "ended")
    /\ UNCHANGED <<file, db, readerVars>>

-----------------------------------------------------------------------------
Reader(r) == ReadPid(r) \/ Fork(r) \/ Ping(r) \/ Signal(r) \/ GiveUp(r) \/ Map(r) \/ Dump(r)

Daemon(d) ==
    \/ TruncatePid(d) \/ WritePid(d) \/ Stat(d) \/ Create(d) \/ Fill(d)
    \/ Sample(d) \/ Compare(d) \/ BusError(d) \/ Shift(d) \/ Store(d)
    \/ Sleep(d) \/ Unlink(d)

Next == \E r \in Readers : Reader(r) \/ Daemon(r)

Spec == Init /\ [][Next]_vars

-----------------------------------------------------------------------------
Places == {"none", "ended", "forked", "writepid", "stat", "create", "fill", "sample",
           "compare", "shift", "sleep", "unlink"}

TypeOK ==
    /\ pidfile \in Readers \cup {"none", "truncated"}
    /\ file \in {"missing", "created", "full"}
    /\ db \in [1..Slots -> Time]
    /\ cli \in [Readers -> [pc : {"start", "check", "signal", "map", "dump", "done"},
                            pid : Readers \cup {"none", "truncated"}, slot : 1..Slots + 1]]
    /\ printed \in [Readers -> Seq(Time)]
    /\ daemon \in [Readers -> [pc : Places, slot : 0..Slots, time : Time,
                               countdown : 0..Patience]]
    /\ twoLived \in BOOLEAN

(* Without a lock, and while the daemon shifts the entries under it, a     *)
(* reader prints samples in the order of their times: it may skip one or   *)
(* see one twice, but never an older one after a younger one.  Two daemons *)
(* at once can break this.                                                 *)
ReadersSeeOrder == ~twoLived => \A r \in Readers : Ascending(printed[r])

(* The database itself is in order at every moment, whatever the clock     *)
(* does, as long as one daemon writes it.                                  *)
DatabaseOrdered == ~twoLived => Ascending(db)
=============================================================================
