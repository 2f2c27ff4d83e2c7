----------------------------- MODULE SensorApps -----------------------------
(***************************************************************************)
(* The programs that read /dev/sensor_sample, composed with the driver of  *)
(* SensorRead: sensor_reader (blocking read, Ctrl-C by a flag),            *)
(* sensor_poll_reader (poll, then a non-blocking read) and sensor_sigio    *)
(* (signals blocked, drain, sigsuspend).  Every step of a program that     *)
(* enters or leaves the kernel is joined with the step of SensorRead.      *)
(***************************************************************************)
EXTENDS SensorRead

VARIABLES
    sigs,       \* the readers that run sensor_sigio
    upc,        \* upc[r]: where r is in main
    revents,    \* revents[r]: what poll has returned for the device
    sigint,     \* programs with a SIGINT pending
    stopped,    \* running = 0 of sensor_reader, stop = 1 of sensor_sigio
    seen        \* sigio_seen of sensor_sigio

appVars == <<sigs, upc, revents, sigint, stopped, seen>>
allVars == <<vars, appVars>>

(* Who opens the device without O_NONBLOCK runs sensor_reader, the others  *)
(* one of the two programs that poll and that wait for signals.            *)
Plain   == Readers \ Nonblocking
Pollers == Nonblocking \ sigs

AppTypeOK ==
    /\ sigs \subseteq Nonblocking
    /\ upc \in [Readers -> {"setup", "loop", "read", "check", "suspend", "suspended", "resumed",
                            "poll", "exit"}]
    /\ revents \in [Readers -> SUBSET {"IN", "HUP"}]
    /\ sigint \subseteq Plain \cup sigs /\ stopped \subseteq Plain \cup sigs
    /\ seen \subseteq {r \in sigs : upc[r] \in {"resumed", "exit"}}

AppInit ==
    /\ Init
    /\ sigs \in SUBSET Nonblocking
    /\ upc = [r \in Readers |-> IF r \in sigs THEN "setup"
                                ELSE IF r \in Pollers THEN "poll" ELSE "loop"]
    /\ revents = [r \in Readers |-> {}]
    /\ sigint = {} /\ stopped = {} /\ seen = {}

UGoto(r, from, to) == upc[r] = from /\ upc' = [upc EXCEPT ![r] = to]

(* A step of r's program alone, and one that is also a step in the kernel. *)
UStep(r, from, to) ==
    /\ pc[r] = "user" /\ UGoto(r, from, to)
    /\ UNCHANGED <<vars, sigs, revents, sigint, stopped, seen>>

KStep(r, from, to) == UGoto(r, from, to) /\ UNCHANGED <<sigs, revents, sigint, stopped, seen>>

(* Inside a call nothing of the program moves. *)
InKernel(r) ==
    /\ \/ TryTake(r) \/ TryEmpty(r) \/ WaitEvent(r) \/ FastTest(r) \/ FastDying(r)
       \/ Prepare(r) \/ Test(r) \/ TestDying(r) \/ Woken(r)
       \/ r \in Nonblocking
          /\ (PollWait(r) \/ PollMaskIn(r) \/ PollSleep(r) \/ PollWoken(r))
    /\ UNCHANGED appVars

(***************************************************************************)
(* Ctrl-C.  Without a handler in the way it is served before the program's *)
(* next instruction; sensor_sigio keeps it, and SIGIO, blocked.            *)
(***************************************************************************)
CtrlC(r) ==
    /\ upc[r] # "exit" /\ r \notin stopped \cup sigint
    /\ IF pc[r] = "user" /\ r \in Plain
       THEN stopped' = stopped \cup {r} /\ UNCHANGED sigint
       ELSE sigint' = sigint \cup {r} /\ UNCHANGED stopped
    /\ UNCHANGED <<vars, sigs, upc, revents, seen>>

(* The handler runs when the call of sensor_reader returns. *)
ServeInt(r) ==
    /\ stopped' = stopped \cup (sigint \cap {r})
    /\ sigint' = sigint \ {r}

(***************************************************************************)
(* sensor_reader.                                                          *)
(***************************************************************************)
AfterTest(r) == IF r \in stopped THEN "exit" ELSE "read"

PlainTest(r) == UStep(r, "loop", AfterTest(r))

PlainRead(r) == upc[r] = "read" /\ ReadCall(r) /\ UNCHANGED appVars

(* The call returns a sample: go round; EINTR or ENODEV: leave the loop. *)
PlainReturn(r) ==
    /\ \/ Copy(r) /\ UGoto(r, "read", "loop")
       \/ ReturnEnodev(r) /\ UGoto(r, "read", "exit")
       \/ r \in sigint /\ Signalled(r) /\ UGoto(r, "read", "exit")
    /\ ServeInt(r)
    /\ UNCHANGED <<sigs, revents, seen>>

PlainRuns(r) == PlainTest(r) \/ PlainRead(r) \/ PlainReturn(r)

(***************************************************************************)
(* sensor_poll_reader.                                                     *)
(***************************************************************************)
Poll(r) == upc[r] = "poll" /\ PollCall(r) /\ UNCHANGED appVars

AfterPoll_NoHup(mask) == IF "IN" \in mask THEN "read" ELSE "poll"    \* mutant

(* POLLIN first, POLLHUP after it. *)
AfterPoll(mask) == IF "IN" \in mask THEN "read" ELSE "exit"

Polled(r) ==
    /\ PollReturn(r)
    /\ revents' = [revents EXCEPT ![r] = PollMask(r)]
    /\ UGoto(r, "poll", AfterPoll(PollMask(r)))
    /\ UNCHANGED <<sigs, sigint, stopped, seen>>

(* 3 seconds without data, or 'q' on stdin. *)
PollGivesUp(r) == PollTimeout(r) /\ \E to \in {"poll", "exit"} : KStep(r, "poll", to)

AfterRead(r) == IF "HUP" \in revents[r] THEN "exit" ELSE "poll"

PollerRead(r) == upc[r] = "read" /\ ReadCall(r) /\ UNCHANGED appVars

PollerReturn(r) ==
    \/ (Copy(r) \/ ReturnEagain(r)) /\ KStep(r, "read", AfterRead(r))
    \/ ReturnEnodev(r) /\ KStep(r, "read", "exit")

PollerRuns(r) == Poll(r) \/ Polled(r) \/ PollerRead(r) \/ PollerReturn(r)

(***************************************************************************)
(* sensor_sigio.                                                           *)
(***************************************************************************)
SetAsync(r) ==
    /\ Fasync(r) /\ r \in async'
    /\ KStep(r, "setup", "loop")

SigioTest(r) == UStep(r, "loop", AfterTest(r))

SigioRead(r) == upc[r] = "read" /\ ReadCall(r) /\ UNCHANGED appVars

AfterSample_Loop == "check"    \* mutant: one read per signal
AfterSample == "read"

SigioReturn(r) ==
    \/ Copy(r) /\ KStep(r, "read", AfterSample)
    \/ ReturnEagain(r) /\ KStep(r, "read", "check")
    \/ ReturnEnodev(r) /\ KStep(r, "read", "exit")

SigioCheck(r) ==
    UStep(r, "check", IF r \in seen \cup stopped THEN "resumed" ELSE "suspend")

SigioSuspend(r) == UStep(r, "suspend", "suspended")

Blocked_Never(r) == FALSE    \* mutant: sigprocmask is forgotten
Blocked(r) == upc[r] # "suspended"

(* A handler runs; if the program was in sigsuspend, that returns. *)
Handler(r) ==
    /\ ~Blocked(r)
    /\ \/ SigioDelivered(r) /\ seen' = seen \cup {r} /\ UNCHANGED <<sigint, stopped>>
       \/ r \in sigint /\ pc[r] = "user" /\ ServeInt(r) /\ UNCHANGED <<vars, seen>>
    /\ upc' = [upc EXCEPT ![r] = IF @ = "suspended" THEN "resumed" ELSE @]
    /\ UNCHANGED <<sigs, revents>>

SigioResumed(r) ==
    /\ UGoto(r, "resumed", IF r \in stopped THEN "exit" ELSE "loop")
    /\ seen' = IF r \in stopped THEN seen ELSE seen \ {r}
    /\ UNCHANGED <<vars, sigs, revents, sigint, stopped>>

SigioRuns(r) ==
    SetAsync(r) \/ SigioTest(r) \/ SigioRead(r) \/ SigioReturn(r) \/ SigioCheck(r)
        \/ SigioSuspend(r) \/ Handler(r) \/ SigioResumed(r)

(* close(fd) takes the file off async_queue. *)
Close(r) ==
    /\ upc[r] = "exit" /\ r \in async
    /\ Fasync(r) /\ r \notin async'
    /\ UNCHANGED appVars

Driver ==
    (WorkStart \/ WorkRuns \/ RemoveMark \/ RemoveRuns) /\ UNCHANGED appVars

AppNext ==
    \/ Driver
    \/ \E r \in Readers : InKernel(r)
    \/ \E r \in Plain : PlainRuns(r)
    \/ \E r \in Pollers : PollerRuns(r) \/ PollGivesUp(r)
    \/ \E r \in sigs : SigioRuns(r) \/ Close(r)
    \/ \E r \in Plain \cup sigs : CtrlC(r)

AppSpec == AppInit /\ [][AppNext]_allVars

(* Programs that can run do; nobody has to type Ctrl-C or take a sample.   *)
AppFairSpec ==
    /\ AppSpec
    /\ WF_allVars(WorkRuns /\ UNCHANGED appVars) /\ WF_allVars(RemoveRuns /\ UNCHANGED appVars)
    /\ \A r \in Readers : WF_allVars(InKernel(r))
    /\ \A r \in Plain : WF_allVars(PlainRuns(r))
    /\ \A r \in Nonblocking : /\ WF_allVars(r \in Pollers /\ PollerRuns(r))
                              /\ WF_allVars(r \in sigs /\ SigioRuns(r))

(***************************************************************************)
(* Properties.                                                             *)
(***************************************************************************)

(* sensor_sigio never sleeps in sigsuspend on a kfifo with a sample without*)
(* a SIGIO on its way: what arrives between the last EAGAIN and sigsuspend *)
(* is not missed.                                                          *)
SignalDue(r) == HasData => r \in sigio \/ wpc \in {"wake", "fasync"}

SigioNotMissed == \A r \in sigs : upc[r] = "suspended" => SignalDue(r)

(* What makes it so: from the kfifo it has found empty to sigsuspend the   *)
(* program is on async_queue and no handler can take the signal away.      *)
SigioWaits ==
    \A r \in sigs :
        /\ pc[r] # "user" => upc[r] = "read"
        /\ upc[r] \notin {"setup", "exit"} => r \in async
        /\ pc[r] = "empty" \/ upc[r] \in {"check", "suspend"} => SignalDue(r)

(* ... in states of the programs' types: sigio_seen, for one, is set only  *)
(* once sigsuspend has let a signal in.                                    *)
AppInv == AppTypeOK /\ SigioNotMissed /\ SigioWaits

(* sensor_reader, blocked in read on a kfifo with a sample, is woken.      *)
WakeupArrives == \A r \in Plain : (pc[r] = "sleep" /\ HasData) ~> pc[r] # "sleep"

(* sensor_sigio ends after Ctrl-C, wherever in its loop the signal finds it. *)
CtrlCStopsSigio ==
    \A r \in Nonblocking : r \in sigint \cup stopped ~> upc[r] = "exit"

(* When the device is removed every program ends, whatever it waits for.   *)
RemovalEndsPrograms == \A r \in Readers : rpc = "done" ~> upc[r] = "exit"
=============================================================================
