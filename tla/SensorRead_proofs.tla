-------------------------- MODULE SensorRead_proofs --------------------------
(***************************************************************************)
(* Proofs about the data plane of the sensor driver, for any number of     *)
(* readers, any kfifo size and any number of samples, and about the        *)
(* programs on top of it.                                                  *)
(***************************************************************************)
EXTENDS SensorApps, TLAPS

USE DEF workVars, counters, waitVars, readVars, remVars

(* No step leaves the types. *)
LEMMA TypeStep == TypeOK /\ Numbered /\ Counted /\ [Next]_vars => TypeOK'
<1> SUFFICES ASSUME TypeOK /\ Numbered /\ Counted, [Next]_vars PROVE TypeOK'
  OBVIOUS
<1> USE ReaderAssumption, SizeAssumption, IoctlAssumption DEF TypeOK, Numbered, Counted,
   Seqs, ReadPoints, PollPoints
<1>1. CASE WorkStart
  BY <1>1 DEF WorkStart, WGoto
<1>2. CASE WorkFetch
  BY <1>2 DEF WorkFetch, WGoto, NextSeq
<1>3. CASE WorkCount
  BY <1>3 DEF WorkCount, WGoto
<1>4. CASE WorkPut
  <2>1. CASE FifoHasRoom
    <3>1. data \in Seqs /\ fifo' = Append(fifo, data)
      BY <1>4, <2>1 DEF WorkPut, WGoto, FifoIn
    <3>2. fifo' \in Seq(Seqs) /\ Len(fifo') = Len(fifo) + 1
      BY <3>1
    <3>3. Len(fifo') <= FifoSize
      BY <3>2, <2>1 DEF FifoHasRoom
    <3>4. QED
      BY <1>4, <2>1, <3>2, <3>3 DEF WorkPut, WGoto, FifoIn
  <2>2. CASE ~FifoHasRoom
    BY <1>4, <2>2 DEF WorkPut, WGoto, FifoIn
  <2>3. QED
    BY <2>1, <2>2
<1>5. CASE WorkDrop
  BY <1>5 DEF WorkDrop, WGoto
<1>6. CASE WorkWake
  BY <1>6 DEF WorkWake, WGoto, WakeUp
<1>7. CASE WorkFasync
  BY <1>7 DEF WorkFasync, WGoto, KillFasync
<1>8. CASE IoctlCall
  BY <1>8 DEF IoctlCall, CGoto
<1>9. CASE Flush
  BY <1>9 DEF Flush, CGoto
<1>10. CASE ResetSamples
  BY <1>10 DEF ResetSamples, CGoto
<1>11. CASE ResetDrops
  BY <1>11 DEF ResetDrops, CGoto, Cleared
<1>12. CASE RemoveMark
  BY <1>12 DEF RemoveMark, RGoto
<1>13. CASE RemoveCancelled
  BY <1>13 DEF RemoveCancelled, RGoto
<1>14. CASE RemoveWake
  BY <1>14 DEF RemoveWake, RGoto, WakeUp
<1>15. CASE RemoveHup
  BY <1>15 DEF RemoveHup, RGoto, KillFasync
<1>16. ASSUME NEW r \in Readers, ReadCall(r) PROVE TypeOK'
  BY <1>16 DEF ReadCall, Step, QStep, Goto
<1>17. ASSUME NEW r \in Readers, TryTake(r) PROVE TypeOK'
  BY <1>17 DEF TryTake, Goto, Rest
<1>18. ASSUME NEW r \in Readers, TryEmpty(r) PROVE TypeOK'
  BY <1>18 DEF TryEmpty, Step, QStep, Goto
<1>19. ASSUME NEW r \in Readers, ReturnEnodev(r) PROVE TypeOK'
  BY <1>19 DEF ReturnEnodev, Step, QStep, Goto
<1>20. ASSUME NEW r \in Readers, ReturnEagain(r) PROVE TypeOK'
  BY <1>20 DEF ReturnEagain, Step, QStep, Goto
<1>21. ASSUME NEW r \in Readers, WaitEvent(r) PROVE TypeOK'
  BY <1>21 DEF WaitEvent, Step, QStep, Goto
<1>22. ASSUME NEW r \in Readers, FastTest(r) PROVE TypeOK'
  BY <1>22 DEF FastTest, Step, QStep, Goto
<1>23. ASSUME NEW r \in Readers, FastDying(r) PROVE TypeOK'
  BY <1>23 DEF FastDying, Step, QStep, Goto, StopWaiting
<1>24. ASSUME NEW r \in Readers, Prepare(r) PROVE TypeOK'
  BY <1>24 DEF Prepare, QStep, Goto
<1>25. ASSUME NEW r \in Readers, Test(r) PROVE TypeOK'
  BY <1>25 DEF Test, Step, QStep, Goto
<1>26. ASSUME NEW r \in Readers, TestDying(r) PROVE TypeOK'
  BY <1>26 DEF TestDying, Step, QStep, Goto, StopWaiting
<1>27. ASSUME NEW r \in Readers, Woken(r) PROVE TypeOK'
  BY <1>27 DEF Woken, Step, QStep, Goto
<1>28. ASSUME NEW r \in Readers, Signalled(r) PROVE TypeOK'
  BY <1>28 DEF Signalled, QStep, Goto
<1>29. ASSUME NEW r \in Readers, Copy(r) PROVE TypeOK'
  BY <1>29 DEF Copy, Goto
<1>30. ASSUME NEW r \in Readers, PollCall(r) PROVE TypeOK'
  BY <1>30 DEF PollCall, Step, QStep, Goto
<1>31. ASSUME NEW r \in Readers, PollWait(r) PROVE TypeOK'
  BY <1>31 DEF PollWait, QStep, Goto
<1>32. ASSUME NEW r \in Readers, PollMaskIn(r) PROVE TypeOK'
  BY <1>32 DEF PollMaskIn, Step, QStep, Goto
<1>33. ASSUME NEW r \in Readers, PollReturn(r) PROVE TypeOK'
  BY <1>33 DEF PollReturn, QStep, Goto, PollMask, Hangup
<1>34. ASSUME NEW r \in Readers, PollSleep(r) PROVE TypeOK'
  BY <1>34 DEF PollSleep, Step, QStep, Goto, PollMask, Hangup
<1>35. ASSUME NEW r \in Readers, PollWoken(r) PROVE TypeOK'
  BY <1>35 DEF PollWoken, QStep, Goto
<1>36. ASSUME NEW r \in Readers, PollTimeout(r) PROVE TypeOK'
  BY <1>36 DEF PollTimeout, QStep, Goto
<1>37. ASSUME NEW r \in Readers, Fasync(r) PROVE TypeOK'
  BY <1>37 DEF Fasync
<1>38. ASSUME NEW r \in Readers, SigioDelivered(r) PROVE TypeOK'
  BY <1>38 DEF SigioDelivered
<1>39. CASE UNCHANGED vars
  BY <1>39 DEF vars
<1> QED
  BY <1>1, <1>2, <1>3, <1>4, <1>5, <1>6, <1>7, <1>8, <1>9, <1>10, <1>11, <1>12, <1>13,
     <1>14, <1>15, <1>16, <1>17, <1>18, <1>19, <1>20, <1>21, <1>22, <1>23, <1>24,
     <1>25, <1>26, <1>27, <1>28, <1>29, <1>30, <1>31, <1>32, <1>33, <1>34, <1>35,
     <1>36, <1>37, <1>38, <1>39, ReaderAssumption DEF Next, WorkRuns, ReadRuns,
     PollRuns, IoctlRuns, RemoveRuns

(* The number of the sample in the work is the last one used. *)
LEMMA NumberStep == TypeOK /\ Numbered /\ [Next]_vars => Numbered'
<1> SUFFICES ASSUME TypeOK /\ Numbered, [Next]_vars PROVE Numbered'
  OBVIOUS
<1> USE SizeAssumption DEF TypeOK, Numbered, Seqs
<1>1. CASE WorkStart
  BY <1>1 DEF WorkStart, WGoto
<1>2. CASE WorkFetch
  BY <1>2 DEF WorkFetch, WGoto, NextSeq
<1>3. CASE WorkCount
  BY <1>3 DEF WorkCount, WGoto
<1>4. CASE WorkPut
  BY <1>4 DEF WorkPut, WGoto, FifoHasRoom, FifoIn
<1>5. CASE WorkDrop
  BY <1>5 DEF WorkDrop, WGoto
<1>6. CASE WorkWake
  BY <1>6 DEF WorkWake, WGoto, WakeUp
<1>7. CASE WorkFasync
  BY <1>7 DEF WorkFasync, WGoto, KillFasync
<1>8. CASE IoctlCall
  BY <1>8 DEF IoctlCall, CGoto
<1>9. CASE Flush
  BY <1>9 DEF Flush, CGoto
<1>10. CASE ResetSamples
  BY <1>10 DEF ResetSamples, CGoto
<1>11. CASE ResetDrops
  BY <1>11 DEF ResetDrops, CGoto, Cleared
<1>12. CASE RemoveMark
  BY <1>12 DEF RemoveMark, RGoto
<1>13. CASE RemoveCancelled
  BY <1>13 DEF RemoveCancelled, RGoto
<1>14. CASE RemoveWake
  BY <1>14 DEF RemoveWake, RGoto, WakeUp
<1>15. CASE RemoveHup
  BY <1>15 DEF RemoveHup, RGoto, KillFasync
<1>16. ASSUME NEW r \in Readers, ReadCall(r) PROVE Numbered'
  BY <1>16 DEF ReadCall, Step, QStep, Goto
<1>17. ASSUME NEW r \in Readers, TryTake(r) PROVE Numbered'
  BY <1>17 DEF TryTake, Goto, Rest
<1>18. ASSUME NEW r \in Readers, TryEmpty(r) PROVE Numbered'
  BY <1>18 DEF TryEmpty, Step, QStep, Goto
<1>19. ASSUME NEW r \in Readers, ReturnEnodev(r) PROVE Numbered'
  BY <1>19 DEF ReturnEnodev, Step, QStep, Goto
<1>20. ASSUME NEW r \in Readers, ReturnEagain(r) PROVE Numbered'
  BY <1>20 DEF ReturnEagain, Step, QStep, Goto
<1>21. ASSUME NEW r \in Readers, WaitEvent(r) PROVE Numbered'
  BY <1>21 DEF WaitEvent, Step, QStep, Goto
<1>22. ASSUME NEW r \in Readers, FastTest(r) PROVE Numbered'
  BY <1>22 DEF FastTest, Step, QStep, Goto
<1>23. ASSUME NEW r \in Readers, FastDying(r) PROVE Numbered'
  BY <1>23 DEF FastDying, Step, QStep, Goto, StopWaiting
<1>24. ASSUME NEW r \in Readers, Prepare(r) PROVE Numbered'
  BY <1>24 DEF Prepare, QStep, Goto
<1>25. ASSUME NEW r \in Readers, Test(r) PROVE Numbered'
  BY <1>25 DEF Test, Step, QStep, Goto
<1>26. ASSUME NEW r \in Readers, TestDying(r) PROVE Numbered'
  BY <1>26 DEF TestDying, Step, QStep, Goto, StopWaiting
<1>27. ASSUME NEW r \in Readers, Woken(r) PROVE Numbered'
  BY <1>27 DEF Woken, Step, QStep, Goto
<1>28. ASSUME NEW r \in Readers, Signalled(r) PROVE Numbered'
  BY <1>28 DEF Signalled, QStep, Goto
<1>29. ASSUME NEW r \in Readers, Copy(r) PROVE Numbered'
  BY <1>29 DEF Copy, Goto
<1>30. ASSUME NEW r \in Readers, PollCall(r) PROVE Numbered'
  BY <1>30 DEF PollCall, Step, QStep, Goto
<1>31. ASSUME NEW r \in Readers, PollWait(r) PROVE Numbered'
  BY <1>31 DEF PollWait, QStep, Goto
<1>32. ASSUME NEW r \in Readers, PollMaskIn(r) PROVE Numbered'
  BY <1>32 DEF PollMaskIn, Step, QStep, Goto
<1>33. ASSUME NEW r \in Readers, PollReturn(r) PROVE Numbered'
  BY <1>33 DEF PollReturn, QStep, Goto, PollMask, Hangup
<1>34. ASSUME NEW r \in Readers, PollSleep(r) PROVE Numbered'
  BY <1>34 DEF PollSleep, Step, QStep, Goto, PollMask, Hangup
<1>35. ASSUME NEW r \in Readers, PollWoken(r) PROVE Numbered'
  BY <1>35 DEF PollWoken, QStep, Goto
<1>36. ASSUME NEW r \in Readers, PollTimeout(r) PROVE Numbered'
  BY <1>36 DEF PollTimeout, QStep, Goto
<1>37. ASSUME NEW r \in Readers, Fasync(r) PROVE Numbered'
  BY <1>37 DEF Fasync
<1>38. ASSUME NEW r \in Readers, SigioDelivered(r) PROVE Numbered'
  BY <1>38 DEF SigioDelivered
<1>39. CASE UNCHANGED vars
  BY <1>39 DEF vars
<1> QED
  BY <1>1, <1>2, <1>3, <1>4, <1>5, <1>6, <1>7, <1>8, <1>9, <1>10, <1>11, <1>12, <1>13,
     <1>14, <1>15, <1>16, <1>17, <1>18, <1>19, <1>20, <1>21, <1>22, <1>23, <1>24,
     <1>25, <1>26, <1>27, <1>28, <1>29, <1>30, <1>31, <1>32, <1>33, <1>34, <1>35,
     <1>36, <1>37, <1>38, <1>39, ReaderAssumption DEF Next, WorkRuns, ReadRuns,
     PollRuns, IoctlRuns, RemoveRuns

(* Counters. *)
LEMMA CountStep == TypeOK /\ Numbered /\ Counted /\ [Next]_vars => Counted'
<1> SUFFICES ASSUME TypeOK /\ Numbered /\ Counted, [Next]_vars PROVE Counted'
  OBVIOUS
<1> USE SizeAssumption DEF TypeOK, Numbered, Counted
<1>1. CASE WorkStart
  BY <1>1 DEF WorkStart, WGoto
<1>2. CASE WorkFetch
  BY <1>2 DEF WorkFetch, WGoto, NextSeq
<1>3. CASE WorkCount
  BY <1>3 DEF WorkCount, WGoto
<1>4. CASE WorkPut
  BY <1>4 DEF WorkPut, WGoto, FifoHasRoom, FifoIn
<1>5. CASE WorkDrop
  BY <1>5 DEF WorkDrop, WGoto
<1>6. CASE WorkWake
  BY <1>6 DEF WorkWake, WGoto, WakeUp
<1>7. CASE WorkFasync
  BY <1>7 DEF WorkFasync, WGoto, KillFasync
<1>8. CASE IoctlCall
  BY <1>8 DEF IoctlCall, CGoto
<1>9. CASE Flush
  BY <1>9 DEF Flush, CGoto
<1>10. CASE ResetSamples
  BY <1>10 DEF ResetSamples, CGoto
<1>11. CASE ResetDrops
  BY <1>11 DEF ResetDrops, CGoto, Cleared
<1>12. CASE RemoveMark
  BY <1>12 DEF RemoveMark, RGoto
<1>13. CASE RemoveCancelled
  BY <1>13 DEF RemoveCancelled, RGoto
<1>14. CASE RemoveWake
  BY <1>14 DEF RemoveWake, RGoto, WakeUp
<1>15. CASE RemoveHup
  BY <1>15 DEF RemoveHup, RGoto, KillFasync
<1>16. ASSUME NEW r \in Readers, ReadCall(r) PROVE Counted'
  BY <1>16 DEF ReadCall, Step, QStep, Goto
<1>17. ASSUME NEW r \in Readers, TryTake(r) PROVE Counted'
  BY <1>17 DEF TryTake, Goto, Rest
<1>18. ASSUME NEW r \in Readers, TryEmpty(r) PROVE Counted'
  BY <1>18 DEF TryEmpty, Step, QStep, Goto
<1>19. ASSUME NEW r \in Readers, ReturnEnodev(r) PROVE Counted'
  BY <1>19 DEF ReturnEnodev, Step, QStep, Goto
<1>20. ASSUME NEW r \in Readers, ReturnEagain(r) PROVE Counted'
  BY <1>20 DEF ReturnEagain, Step, QStep, Goto
<1>21. ASSUME NEW r \in Readers, WaitEvent(r) PROVE Counted'
  BY <1>21 DEF WaitEvent, Step, QStep, Goto
<1>22. ASSUME NEW r \in Readers, FastTest(r) PROVE Counted'
  BY <1>22 DEF FastTest, Step, QStep, Goto
<1>23. ASSUME NEW r \in Readers, FastDying(r) PROVE Counted'
  BY <1>23 DEF FastDying, Step, QStep, Goto, StopWaiting
<1>24. ASSUME NEW r \in Readers, Prepare(r) PROVE Counted'
  BY <1>24 DEF Prepare, QStep, Goto
<1>25. ASSUME NEW r \in Readers, Test(r) PROVE Counted'
  BY <1>25 DEF Test, Step, QStep, Goto
<1>26. ASSUME NEW r \in Readers, TestDying(r) PROVE Counted'
  BY <1>26 DEF TestDying, Step, QStep, Goto, StopWaiting
<1>27. ASSUME NEW r \in Readers, Woken(r) PROVE Counted'
  BY <1>27 DEF Woken, Step, QStep, Goto
<1>28. ASSUME NEW r \in Readers, Signalled(r) PROVE Counted'
  BY <1>28 DEF Signalled, QStep, Goto
<1>29. ASSUME NEW r \in Readers, Copy(r) PROVE Counted'
  BY <1>29 DEF Copy, Goto
<1>30. ASSUME NEW r \in Readers, PollCall(r) PROVE Counted'
  BY <1>30 DEF PollCall, Step, QStep, Goto
<1>31. ASSUME NEW r \in Readers, PollWait(r) PROVE Counted'
  BY <1>31 DEF PollWait, QStep, Goto
<1>32. ASSUME NEW r \in Readers, PollMaskIn(r) PROVE Counted'
  BY <1>32 DEF PollMaskIn, Step, QStep, Goto
<1>33. ASSUME NEW r \in Readers, PollReturn(r) PROVE Counted'
  BY <1>33 DEF PollReturn, QStep, Goto, PollMask, Hangup
<1>34. ASSUME NEW r \in Readers, PollSleep(r) PROVE Counted'
  BY <1>34 DEF PollSleep, Step, QStep, Goto, PollMask, Hangup
<1>35. ASSUME NEW r \in Readers, PollWoken(r) PROVE Counted'
  BY <1>35 DEF PollWoken, QStep, Goto
<1>36. ASSUME NEW r \in Readers, PollTimeout(r) PROVE Counted'
  BY <1>36 DEF PollTimeout, QStep, Goto
<1>37. ASSUME NEW r \in Readers, Fasync(r) PROVE Counted'
  BY <1>37 DEF Fasync
<1>38. ASSUME NEW r \in Readers, SigioDelivered(r) PROVE Counted'
  BY <1>38 DEF SigioDelivered
<1>39. CASE UNCHANGED vars
  BY <1>39 DEF vars
<1> QED
  BY <1>1, <1>2, <1>3, <1>4, <1>5, <1>6, <1>7, <1>8, <1>9, <1>10, <1>11, <1>12, <1>13,
     <1>14, <1>15, <1>16, <1>17, <1>18, <1>19, <1>20, <1>21, <1>22, <1>23, <1>24,
     <1>25, <1>26, <1>27, <1>28, <1>29, <1>30, <1>31, <1>32, <1>33, <1>34, <1>35,
     <1>36, <1>37, <1>38, <1>39, ReaderAssumption DEF Next, WorkRuns, ReadRuns,
     PollRuns, IoctlRuns, RemoveRuns

(* Nobody sleeps through a wakeup. *)
LEMMA WakeStep == TypeOK /\ DyingSince /\ WorkBusy /\ SawNoData /\ NoLostHangup /\
   [Next]_vars => (DyingSince /\ WorkBusy /\ SawNoData /\ NoLostHangup)'
<1> SUFFICES ASSUME TypeOK /\ DyingSince /\ WorkBusy /\ SawNoData /\ NoLostHangup,
   [Next]_vars PROVE (DyingSince /\ WorkBusy /\ SawNoData /\ NoLostHangup)'
  OBVIOUS
<1> USE DEF TypeOK, DyingSince, WorkBusy, SawNoData, NoLostHangup, HasData, Asleep
<1>1. CASE WorkStart
  BY <1>1 DEF WorkStart, WGoto
<1>2. CASE WorkFetch
  BY <1>2 DEF WorkFetch, WGoto, NextSeq
<1>3. CASE WorkCount
  BY <1>3 DEF WorkCount, WGoto
<1>4. CASE WorkPut
  BY <1>4 DEF WorkPut, WGoto, FifoHasRoom, FifoIn
<1>5. CASE WorkDrop
  BY <1>5 DEF WorkDrop, WGoto
<1>6. CASE WorkWake
  BY <1>6 DEF WorkWake, WGoto, WakeUp
<1>7. CASE WorkFasync
  BY <1>7 DEF WorkFasync, WGoto, KillFasync
<1>8. CASE IoctlCall
  BY <1>8 DEF IoctlCall, CGoto
<1>9. CASE Flush
  BY <1>9 DEF Flush, CGoto
<1>10. CASE ResetSamples
  BY <1>10 DEF ResetSamples, CGoto
<1>11. CASE ResetDrops
  BY <1>11 DEF ResetDrops, CGoto, Cleared
<1>12. CASE RemoveMark
  BY <1>12 DEF RemoveMark, RGoto
<1>13. CASE RemoveCancelled
  BY <1>13 DEF RemoveCancelled, RGoto
<1>14. CASE RemoveWake
  BY <1>14 DEF RemoveWake, RGoto, WakeUp
<1>15. CASE RemoveHup
  BY <1>15 DEF RemoveHup, RGoto, KillFasync
<1>16. ASSUME NEW r \in Readers, ReadCall(r) PROVE (DyingSince /\ WorkBusy /\ SawNoData
   /\ NoLostHangup)'
  BY <1>16 DEF ReadCall, Step, QStep, Goto
<1>17. ASSUME NEW r \in Readers, TryTake(r) PROVE (DyingSince /\ WorkBusy /\ SawNoData
   /\ NoLostHangup)'
  BY <1>17 DEF TryTake, Goto, Rest
<1>18. ASSUME NEW r \in Readers, TryEmpty(r) PROVE (DyingSince /\ WorkBusy /\ SawNoData
   /\ NoLostHangup)'
  BY <1>18 DEF TryEmpty, Step, QStep, Goto
<1>19. ASSUME NEW r \in Readers, ReturnEnodev(r) PROVE (DyingSince /\ WorkBusy /\
   SawNoData /\ NoLostHangup)'
  BY <1>19 DEF ReturnEnodev, Step, QStep, Goto
<1>20. ASSUME NEW r \in Readers, ReturnEagain(r) PROVE (DyingSince /\ WorkBusy /\
   SawNoData /\ NoLostHangup)'
  BY <1>20 DEF ReturnEagain, Step, QStep, Goto
<1>21. ASSUME NEW r \in Readers, WaitEvent(r) PROVE (DyingSince /\ WorkBusy /\ SawNoData
   /\ NoLostHangup)'
  BY <1>21 DEF WaitEvent, Step, QStep, Goto
<1>22. ASSUME NEW r \in Readers, FastTest(r) PROVE (DyingSince /\ WorkBusy /\ SawNoData
   /\ NoLostHangup)'
  BY <1>22 DEF FastTest, Step, QStep, Goto
<1>23. ASSUME NEW r \in Readers, FastDying(r) PROVE (DyingSince /\ WorkBusy /\ SawNoData
   /\ NoLostHangup)'
  BY <1>23 DEF FastDying, Step, QStep, Goto, StopWaiting
<1>24. ASSUME NEW r \in Readers, Prepare(r) PROVE (DyingSince /\ WorkBusy /\ SawNoData
   /\ NoLostHangup)'
  BY <1>24 DEF Prepare, QStep, Goto
<1>25. ASSUME NEW r \in Readers, Test(r) PROVE (DyingSince /\ WorkBusy /\ SawNoData /\
   NoLostHangup)'
  BY <1>25 DEF Test, Step, QStep, Goto
<1>26. ASSUME NEW r \in Readers, TestDying(r) PROVE (DyingSince /\ WorkBusy /\ SawNoData
   /\ NoLostHangup)'
  BY <1>26 DEF TestDying, Step, QStep, Goto, StopWaiting
<1>27. ASSUME NEW r \in Readers, Woken(r) PROVE (DyingSince /\ WorkBusy /\ SawNoData /\
   NoLostHangup)'
  BY <1>27 DEF Woken, Step, QStep, Goto
<1>28. ASSUME NEW r \in Readers, Signalled(r) PROVE (DyingSince /\ WorkBusy /\ SawNoData
   /\ NoLostHangup)'
  BY <1>28 DEF Signalled, QStep, Goto
<1>29. ASSUME NEW r \in Readers, Copy(r) PROVE (DyingSince /\ WorkBusy /\ SawNoData /\
   NoLostHangup)'
  BY <1>29 DEF Copy, Goto
<1>30. ASSUME NEW r \in Readers, PollCall(r) PROVE (DyingSince /\ WorkBusy /\ SawNoData
   /\ NoLostHangup)'
  BY <1>30 DEF PollCall, Step, QStep, Goto
<1>31. ASSUME NEW r \in Readers, PollWait(r) PROVE (DyingSince /\ WorkBusy /\ SawNoData
   /\ NoLostHangup)'
  BY <1>31 DEF PollWait, QStep, Goto
<1>32. ASSUME NEW r \in Readers, PollMaskIn(r) PROVE (DyingSince /\ WorkBusy /\
   SawNoData /\ NoLostHangup)'
  BY <1>32 DEF PollMaskIn, Step, QStep, Goto
<1>33. ASSUME NEW r \in Readers, PollReturn(r) PROVE (DyingSince /\ WorkBusy /\
   SawNoData /\ NoLostHangup)'
  BY <1>33 DEF PollReturn, QStep, Goto, PollMask, Hangup
<1>34. ASSUME NEW r \in Readers, PollSleep(r) PROVE (DyingSince /\ WorkBusy /\ SawNoData
   /\ NoLostHangup)'
  BY <1>34 DEF PollSleep, Step, QStep, Goto, PollMask, Hangup
<1>35. ASSUME NEW r \in Readers, PollWoken(r) PROVE (DyingSince /\ WorkBusy /\ SawNoData
   /\ NoLostHangup)'
  BY <1>35 DEF PollWoken, QStep, Goto
<1>36. ASSUME NEW r \in Readers, PollTimeout(r) PROVE (DyingSince /\ WorkBusy /\
   SawNoData /\ NoLostHangup)'
  BY <1>36 DEF PollTimeout, QStep, Goto
<1>37. ASSUME NEW r \in Readers, Fasync(r) PROVE (DyingSince /\ WorkBusy /\ SawNoData /\
   NoLostHangup)'
  BY <1>37 DEF Fasync
<1>38. ASSUME NEW r \in Readers, SigioDelivered(r) PROVE (DyingSince /\ WorkBusy /\
   SawNoData /\ NoLostHangup)'
  BY <1>38 DEF SigioDelivered
<1>39. CASE UNCHANGED vars
  BY <1>39 DEF vars
<1> QED
  BY <1>1, <1>2, <1>3, <1>4, <1>5, <1>6, <1>7, <1>8, <1>9, <1>10, <1>11, <1>12, <1>13,
     <1>14, <1>15, <1>16, <1>17, <1>18, <1>19, <1>20, <1>21, <1>22, <1>23, <1>24,
     <1>25, <1>26, <1>27, <1>28, <1>29, <1>30, <1>31, <1>32, <1>33, <1>34, <1>35,
     <1>36, <1>37, <1>38, <1>39, ReaderAssumption DEF Next, WorkRuns, ReadRuns,
     PollRuns, IoctlRuns, RemoveRuns

(* Samples stay in order. *)
LEMMA OrderStep == TypeOK /\ Numbered /\ Ordered /\ [Next]_vars => Ordered'
<1> SUFFICES ASSUME TypeOK /\ Numbered /\ Ordered, [Next]_vars PROVE Ordered'
  OBVIOUS
<1> USE SizeAssumption DEF TypeOK, Numbered, Ordered, Seqs
<1>1. CASE WorkStart
  BY <1>1 DEF WorkStart, WGoto
<1>2. CASE WorkFetch
  BY <1>2 DEF WorkFetch, WGoto, NextSeq
<1>3. CASE WorkCount
  BY <1>3 DEF WorkCount, WGoto
<1>4. CASE WorkPut
  <2>1. /\ wpc = "put" /\ wpc' \in {"wake", "drop"} /\ data = seq - 1
        /\ UNCHANGED <<seq, data, newest, pc, buf>>
    BY <1>4 DEF WorkPut, WGoto
  <2>2. CASE fifo' = fifo
    BY <2>1, <2>2
  <2>3. CASE fifo' = Append(fifo, data)
    <3>1. /\ DOMAIN fifo' = DOMAIN fifo \cup {Len(fifo) + 1}
          /\ fifo'[Len(fifo) + 1] = data
          /\ \A i \in DOMAIN fifo : fifo'[i] = fifo[i] /\ i < Len(fifo) + 1
      BY <2>3
    <3>2. \A i \in DOMAIN fifo' : fifo'[i] <= data
      BY <2>1, <3>1
    <3>3. \A i, j \in DOMAIN fifo' : i < j => fifo'[i] < fifo'[j]
      BY <2>1, <3>1
    <3>4. \A i \in DOMAIN fifo' : newest < fifo'[i] /\ fifo'[i] < seq
      BY <2>1, <3>1, <3>2
    <3>5. QED BY <2>1, <3>3, <3>4
  <2>4. QED BY <1>4, <2>2, <2>3 DEF WorkPut, FifoIn
<1>5. CASE WorkDrop
  BY <1>5 DEF WorkDrop, WGoto
<1>6. CASE WorkWake
  BY <1>6 DEF WorkWake, WGoto, WakeUp
<1>7. CASE WorkFasync
  BY <1>7 DEF WorkFasync, WGoto, KillFasync
<1>8. CASE IoctlCall
  BY <1>8 DEF IoctlCall, CGoto
<1>9. CASE Flush
  BY <1>9 DEF Flush, CGoto
<1>10. CASE ResetSamples
  BY <1>10 DEF ResetSamples, CGoto
<1>11. CASE ResetDrops
  BY <1>11 DEF ResetDrops, CGoto, Cleared
<1>12. CASE RemoveMark
  BY <1>12 DEF RemoveMark, RGoto
<1>13. CASE RemoveCancelled
  BY <1>13 DEF RemoveCancelled, RGoto
<1>14. CASE RemoveWake
  BY <1>14 DEF RemoveWake, RGoto, WakeUp
<1>15. CASE RemoveHup
  BY <1>15 DEF RemoveHup, RGoto, KillFasync
<1>16. ASSUME NEW r \in Readers, ReadCall(r) PROVE Ordered'
  BY <1>16 DEF ReadCall, Step, QStep, Goto
<1>17. ASSUME NEW r \in Readers, TryTake(r) PROVE Ordered'
  <2>1. /\ fifo # << >> /\ fifo' = Tail(fifo) /\ newest' = Head(fifo)
        /\ pc[r] = "try" /\ pc' = [pc EXCEPT ![r] = "copy"]
        /\ buf' = [buf EXCEPT ![r] = Head(fifo)]
        /\ UNCHANGED <<seq, data, wpc>>
    BY <1>17 DEF TryTake, Goto, Rest
  <2>2. /\ Len(fifo') = Len(fifo) - 1
        /\ \A i \in DOMAIN fifo' : i + 1 \in DOMAIN fifo /\ fifo'[i] = fifo[i + 1]
    BY <2>1
  <2>3. Head(fifo) = fifo[1] /\ 1 \in DOMAIN fifo
    BY <2>1
  <2>4. \A i \in DOMAIN fifo' : i \in Nat /\ 1 < i + 1
    BY <2>1
  <2>5. \A i, j \in DOMAIN fifo' : i < j => fifo'[i] < fifo'[j]
    <3> SUFFICES ASSUME NEW i \in DOMAIN fifo', NEW j \in DOMAIN fifo', i < j
                 PROVE  fifo'[i] < fifo'[j]
      OBVIOUS
    <3>1. i + 1 \in DOMAIN fifo /\ j + 1 \in DOMAIN fifo
      BY <2>2
    <3>2. i + 1 < j + 1
      BY <2>1, <2>4
    <3>3. fifo[i + 1] < fifo[j + 1]
      BY <3>1, <3>2
    <3>4. QED BY <2>2, <3>3
  <2>6. \A i \in DOMAIN fifo' : newest' < fifo'[i] /\ fifo'[i] < seq'
    <3> SUFFICES ASSUME NEW i \in DOMAIN fifo'
                 PROVE  newest' < fifo'[i] /\ fifo'[i] < seq'
      OBVIOUS
    <3>1. i + 1 \in DOMAIN fifo /\ fifo'[i] = fifo[i + 1] /\ 1 < i + 1
      BY <2>2, <2>4
    <3>2. fifo[1] < fifo[i + 1]
      BY <2>3, <3>1
    <3>3. fifo[i + 1] < seq
      BY <3>1
    <3>4. QED BY <2>1, <2>3, <3>1, <3>2, <3>3
  <2>7. wpc' \in {"count", "put"} => \A i \in DOMAIN fifo' : fifo'[i] < seq' - 1
    BY <2>1, <2>2
  <2>8. newest' < IF wpc' \in {"count", "put"} THEN seq' - 1 ELSE seq'
    BY <2>1, <2>3
  <2>9. \A s \in Readers : pc[s] = "copy" => buf[s] < newest'
    BY <2>1, <2>3
  <2>10. \A s \in Readers : pc'[s] = "copy" => buf'[s] <= newest'
    BY <2>1, <2>9
  <2>11. \A s, u \in Readers :
            s # u /\ pc'[s] = "copy" /\ pc'[u] = "copy" => buf'[s] # buf'[u]
    BY <2>1, <2>9
  <2>12. \A s \in Readers : pc'[s] # "copy" => buf'[s] = -1
    BY <2>1
  <2>13. QED
    BY <2>5, <2>6, <2>7, <2>8, <2>10, <2>11, <2>12
<1>18. ASSUME NEW r \in Readers, TryEmpty(r) PROVE Ordered'
  BY <1>18 DEF TryEmpty, Step, QStep, Goto
<1>19. ASSUME NEW r \in Readers, ReturnEnodev(r) PROVE Ordered'
  BY <1>19 DEF ReturnEnodev, Step, QStep, Goto
<1>20. ASSUME NEW r \in Readers, ReturnEagain(r) PROVE Ordered'
  BY <1>20 DEF ReturnEagain, Step, QStep, Goto
<1>21. ASSUME NEW r \in Readers, WaitEvent(r) PROVE Ordered'
  BY <1>21 DEF WaitEvent, Step, QStep, Goto
<1>22. ASSUME NEW r \in Readers, FastTest(r) PROVE Ordered'
  BY <1>22 DEF FastTest, Step, QStep, Goto
<1>23. ASSUME NEW r \in Readers, FastDying(r) PROVE Ordered'
  BY <1>23 DEF FastDying, Step, QStep, Goto, StopWaiting
<1>24. ASSUME NEW r \in Readers, Prepare(r) PROVE Ordered'
  BY <1>24 DEF Prepare, QStep, Goto
<1>25. ASSUME NEW r \in Readers, Test(r) PROVE Ordered'
  BY <1>25 DEF Test, Step, QStep, Goto
<1>26. ASSUME NEW r \in Readers, TestDying(r) PROVE Ordered'
  <2>1. /\ pc[r] = "test_dying" 
        /\ \E to \in {"try", "sleep"} : pc' = [pc EXCEPT ![r] = to]
        /\ UNCHANGED <<fifo, seq, data, wpc, buf, newest>>
    BY <1>26 DEF TestDying, Step, QStep, Goto
  <2>2. \A s \in Readers : pc'[s] = "copy" <=> pc[s] = "copy"
    BY <2>1
  <2>3. QED
    BY <2>1, <2>2
<1>27. ASSUME NEW r \in Readers, Woken(r) PROVE Ordered'
  BY <1>27 DEF Woken, Step, QStep, Goto
<1>28. ASSUME NEW r \in Readers, Signalled(r) PROVE Ordered'
  BY <1>28 DEF Signalled, QStep, Goto
<1>29. ASSUME NEW r \in Readers, Copy(r) PROVE Ordered'
  BY <1>29 DEF Copy, Goto
<1>30. ASSUME NEW r \in Readers, PollCall(r) PROVE Ordered'
  BY <1>30 DEF PollCall, Step, QStep, Goto
<1>31. ASSUME NEW r \in Readers, PollWait(r) PROVE Ordered'
  BY <1>31 DEF PollWait, QStep, Goto
<1>32. ASSUME NEW r \in Readers, PollMaskIn(r) PROVE Ordered'
  BY <1>32 DEF PollMaskIn, Step, QStep, Goto
<1>33. ASSUME NEW r \in Readers, PollReturn(r) PROVE Ordered'
  BY <1>33 DEF PollReturn, QStep, Goto, PollMask, Hangup
<1>34. ASSUME NEW r \in Readers, PollSleep(r) PROVE Ordered'
  BY <1>34 DEF PollSleep, Step, QStep, Goto, PollMask, Hangup
<1>35. ASSUME NEW r \in Readers, PollWoken(r) PROVE Ordered'
  BY <1>35 DEF PollWoken, QStep, Goto
<1>36. ASSUME NEW r \in Readers, PollTimeout(r) PROVE Ordered'
  BY <1>36 DEF PollTimeout, QStep, Goto
<1>37. ASSUME NEW r \in Readers, Fasync(r) PROVE Ordered'
  BY <1>37 DEF Fasync
<1>38. ASSUME NEW r \in Readers, SigioDelivered(r) PROVE Ordered'
  BY <1>38 DEF SigioDelivered
<1>39. CASE UNCHANGED vars
  BY <1>39 DEF vars
<1> QED
  BY <1>1, <1>2, <1>3, <1>4, <1>5, <1>6, <1>7, <1>8, <1>9, <1>10, <1>11, <1>12, <1>13,
     <1>14, <1>15, <1>16, <1>17, <1>18, <1>19, <1>20, <1>21, <1>22, <1>23, <1>24,
     <1>25, <1>26, <1>27, <1>28, <1>29, <1>30, <1>31, <1>32, <1>33, <1>34, <1>35,
     <1>36, <1>37, <1>38, <1>39, ReaderAssumption DEF Next, WorkRuns, ReadRuns,
     PollRuns, IoctlRuns, RemoveRuns

(* A thread that moves changes its own call and no other. *)
LEMMA CallMoves ==
  ASSUME TypeOK, NEW r \in Readers, NEW to, pc' = [pc EXCEPT ![r] = to]
  PROVE  /\ pc'[r] = to
         /\ [s \in Readers |-> CallState(s)]' =
               [[s \in Readers |-> CallState(s)] EXCEPT ![r] = CallState(r)']
<1>1. pc'[r] = to /\ \A s \in Readers : s # r => pc'[s] = pc[s]
  BY DEF TypeOK
<1>2. \A s \in Readers : s # r => CallState(s)' = CallState(s)
  BY <1>1 DEF CallState
<1>3. QED
  BY <1>1, <1>2

(* Every step is a step of the queue, or leaves it alone. *)
LEMMA QueueStep == TypeOK /\ Numbered /\ Ordered /\ [Next]_vars =>
   [Queue!Next]_(Queue!vars)
<1> SUFFICES ASSUME TypeOK /\ Numbered /\ Ordered, [Next]_vars PROVE
   [Queue!Next]_(Queue!vars)
  OBVIOUS
<1> USE SizeAssumption DEF TypeOK, Numbered, Ordered, Seqs, ReadPoints, PollPoints,
   CallState, Queue!vars, Queue!Next, Queue!Sample, Queue!Flush, Queue!Call, Queue!Take,
   Queue!SeeEmpty, Queue!LookAgain, Queue!Return, Queue!Move
<1>1. CASE WorkStart
  BY <1>1 DEF WorkStart, WGoto
<1>2. CASE WorkFetch
  BY <1>2 DEF WorkFetch, WGoto, NextSeq
<1>3. CASE WorkCount
  BY <1>3 DEF WorkCount, WGoto
<1>4. CASE WorkPut
  BY <1>4 DEF WorkPut, WGoto, FifoHasRoom, FifoIn
<1>5. CASE WorkDrop
  BY <1>5 DEF WorkDrop, WGoto
<1>6. CASE WorkWake
  BY <1>6 DEF WorkWake, WGoto, WakeUp
<1>7. CASE WorkFasync
  BY <1>7 DEF WorkFasync, WGoto, KillFasync
<1>8. CASE IoctlCall
  BY <1>8 DEF IoctlCall, CGoto
<1>9. CASE Flush
  BY <1>9 DEF Flush, CGoto
<1>10. CASE ResetSamples
  BY <1>10 DEF ResetSamples, CGoto
<1>11. CASE ResetDrops
  BY <1>11 DEF ResetDrops, CGoto, Cleared
<1>12. CASE RemoveMark
  BY <1>12 DEF RemoveMark, RGoto
<1>13. CASE RemoveCancelled
  BY <1>13 DEF RemoveCancelled, RGoto
<1>14. CASE RemoveWake
  BY <1>14 DEF RemoveWake, RGoto, WakeUp
<1>15. CASE RemoveHup
  BY <1>15 DEF RemoveHup, RGoto, KillFasync
<1>16. ASSUME NEW r \in Readers, ReadCall(r) PROVE [Queue!Next]_(Queue!vars)
  BY <1>16 DEF ReadCall, Step, QStep, Goto
<1>17. ASSUME NEW r \in Readers, TryTake(r) PROVE [Queue!Next]_(Queue!vars)
  BY <1>17 DEF TryTake, Goto, Rest
<1>18. ASSUME NEW r \in Readers, TryEmpty(r) PROVE [Queue!Next]_(Queue!vars)
  BY <1>18 DEF TryEmpty, Step, QStep, Goto
<1>19. ASSUME NEW r \in Readers, ReturnEnodev(r) PROVE [Queue!Next]_(Queue!vars)
  <2>1. pc[r] = "empty" /\ pc' = [pc EXCEPT ![r] = "user"]
    BY <1>19 DEF ReturnEnodev, Step, QStep, Goto
  <2>2. CallState(r) = "empty" /\ CallState(r)' = "out"
    BY <2>1, CallMoves
  <2>3. buf' = [buf EXCEPT ![r] = -1]
    BY <1>19, <2>1 DEF ReturnEnodev, Step, QStep, Goto
  <2>4. Queue!Return(r)
    BY <1>19, <2>1, <2>2, <2>3, CallMoves DEF ReturnEnodev, Step, QStep, Goto
  <2>5. QED
    BY <2>4
<1>20. ASSUME NEW r \in Readers, ReturnEagain(r) PROVE [Queue!Next]_(Queue!vars)
  <2>1. pc[r] = "empty" /\ pc' = [pc EXCEPT ![r] = "user"]
    BY <1>20 DEF ReturnEagain, Step, QStep, Goto
  <2>2. CallState(r) = "empty" /\ CallState(r)' = "out"
    BY <2>1, CallMoves
  <2>3. buf' = [buf EXCEPT ![r] = -1]
    BY <1>20, <2>1 DEF ReturnEagain, Step, QStep, Goto
  <2>4. Queue!Return(r)
    BY <1>20, <2>1, <2>2, <2>3, CallMoves DEF ReturnEagain, Step, QStep, Goto
  <2>5. QED
    BY <2>4
<1>21. ASSUME NEW r \in Readers, WaitEvent(r) PROVE [Queue!Next]_(Queue!vars)
  BY <1>21 DEF WaitEvent, Step, QStep, Goto
<1>22. ASSUME NEW r \in Readers, FastTest(r) PROVE [Queue!Next]_(Queue!vars)
  <2>1. pc[r] = "fast" /\ (\/ pc' = [pc EXCEPT ![r] = "try"]
                          \/ pc' = [pc EXCEPT ![r] = "fast_dying"])
    BY <1>22 DEF FastTest, Step, QStep, Goto
  <2>2. CASE pc' = [pc EXCEPT ![r] = "try"]
    <3>1. CallState(r) = "empty" /\ CallState(r)' = "in"
      BY <2>1, <2>2, CallMoves
    <3>2. Queue!LookAgain(r)
      BY <1>22, <2>2, <3>1, CallMoves DEF FastTest, Step, QStep, Goto
    <3>3. QED
      BY <3>2
  <2>3. CASE pc' = [pc EXCEPT ![r] = "fast_dying"]
    <3>1. CallState(r) = "empty" /\ CallState(r)' = "empty"
      BY <2>1, <2>3, CallMoves
    <3>2. UNCHANGED Queue!vars
      BY <1>22, <2>3, <3>1, CallMoves DEF FastTest, Step, QStep, Goto
    <3>3. QED
      BY <3>2
  <2>4. QED
    BY <2>1, <2>2, <2>3
<1>23. ASSUME NEW r \in Readers, FastDying(r) PROVE [Queue!Next]_(Queue!vars)
  <2>1. pc[r] = "fast_dying" /\ (\/ pc' = [pc EXCEPT ![r] = "try"]
                          \/ pc' = [pc EXCEPT ![r] = "prepare"])
    BY <1>23 DEF FastDying, Step, QStep, Goto, StopWaiting
  <2>2. CASE pc' = [pc EXCEPT ![r] = "try"]
    <3>1. CallState(r) = "empty" /\ CallState(r)' = "in"
      BY <2>1, <2>2, CallMoves
    <3>2. Queue!LookAgain(r)
      BY <1>23, <2>2, <3>1, CallMoves DEF FastDying, Step, QStep, Goto, StopWaiting
    <3>3. QED
      BY <3>2
  <2>3. CASE pc' = [pc EXCEPT ![r] = "prepare"]
    <3>1. CallState(r) = "empty" /\ CallState(r)' = "empty"
      BY <2>1, <2>3, CallMoves
    <3>2. UNCHANGED Queue!vars
      BY <1>23, <2>3, <3>1, CallMoves DEF FastDying, Step, QStep, Goto, StopWaiting
    <3>3. QED
      BY <3>2
  <2>4. QED
    BY <2>1, <2>2, <2>3
<1>24. ASSUME NEW r \in Readers, Prepare(r) PROVE [Queue!Next]_(Queue!vars)
  BY <1>24 DEF Prepare, QStep, Goto
<1>25. ASSUME NEW r \in Readers, Test(r) PROVE [Queue!Next]_(Queue!vars)
  <2>1. pc[r] = "test" /\ (\/ pc' = [pc EXCEPT ![r] = "try"]
                          \/ pc' = [pc EXCEPT ![r] = "test_dying"])
    BY <1>25 DEF Test, Step, QStep, Goto
  <2>2. CASE pc' = [pc EXCEPT ![r] = "try"]
    <3>1. CallState(r) = "empty" /\ CallState(r)' = "in"
      BY <2>1, <2>2, CallMoves
    <3>2. Queue!LookAgain(r)
      BY <1>25, <2>2, <3>1, CallMoves DEF Test, Step, QStep, Goto
    <3>3. QED
      BY <3>2
  <2>3. CASE pc' = [pc EXCEPT ![r] = "test_dying"]
    <3>1. CallState(r) = "empty" /\ CallState(r)' = "empty"
      BY <2>1, <2>3, CallMoves
    <3>2. UNCHANGED Queue!vars
      BY <1>25, <2>3, <3>1, CallMoves DEF Test, Step, QStep, Goto
    <3>3. QED
      BY <3>2
  <2>4. QED
    BY <2>1, <2>2, <2>3
<1>26. ASSUME NEW r \in Readers, TestDying(r) PROVE [Queue!Next]_(Queue!vars)
  <2>1. pc[r] = "test_dying" /\ (\/ pc' = [pc EXCEPT ![r] = "try"]
                          \/ pc' = [pc EXCEPT ![r] = "sleep"])
    BY <1>26 DEF TestDying, Step, QStep, Goto, StopWaiting
  <2>2. CASE pc' = [pc EXCEPT ![r] = "try"]
    <3>1. CallState(r) = "empty" /\ CallState(r)' = "in"
      BY <2>1, <2>2, CallMoves
    <3>2. Queue!LookAgain(r)
      BY <1>26, <2>2, <3>1, CallMoves DEF TestDying, Step, QStep, Goto, StopWaiting
    <3>3. QED
      BY <3>2
  <2>3. CASE pc' = [pc EXCEPT ![r] = "sleep"]
    <3>1. CallState(r) = "empty" /\ CallState(r)' = "empty"
      BY <2>1, <2>3, CallMoves
    <3>2. UNCHANGED Queue!vars
      BY <1>26, <2>3, <3>1, CallMoves DEF TestDying, Step, QStep, Goto, StopWaiting
    <3>3. QED
      BY <3>2
  <2>4. QED
    BY <2>1, <2>2, <2>3
<1>27. ASSUME NEW r \in Readers, Woken(r) PROVE [Queue!Next]_(Queue!vars)
  BY <1>27 DEF Woken, Step, QStep, Goto
<1>28. ASSUME NEW r \in Readers, Signalled(r) PROVE [Queue!Next]_(Queue!vars)
  <2>1. pc[r] = "sleep" /\ pc' = [pc EXCEPT ![r] = "user"]
    BY <1>28 DEF Signalled, QStep, Goto
  <2>2. CallState(r) = "empty" /\ CallState(r)' = "out"
    BY <2>1, CallMoves
  <2>3. buf' = [buf EXCEPT ![r] = -1]
    BY <1>28, <2>1 DEF Signalled, QStep, Goto
  <2>4. Queue!Return(r)
    BY <1>28, <2>1, <2>2, <2>3, CallMoves DEF Signalled, QStep, Goto
  <2>5. QED
    BY <2>4
<1>29. ASSUME NEW r \in Readers, Copy(r) PROVE [Queue!Next]_(Queue!vars)
  BY <1>29 DEF Copy, Goto
<1>30. ASSUME NEW r \in Readers, PollCall(r) PROVE [Queue!Next]_(Queue!vars)
  BY <1>30 DEF PollCall, Step, QStep, Goto
<1>31. ASSUME NEW r \in Readers, PollWait(r) PROVE [Queue!Next]_(Queue!vars)
  BY <1>31 DEF PollWait, QStep, Goto
<1>32. ASSUME NEW r \in Readers, PollMaskIn(r) PROVE [Queue!Next]_(Queue!vars)
  BY <1>32 DEF PollMaskIn, Step, QStep, Goto
<1>33. ASSUME NEW r \in Readers, PollReturn(r) PROVE [Queue!Next]_(Queue!vars)
  BY <1>33 DEF PollReturn, QStep, Goto, PollMask, Hangup
<1>34. ASSUME NEW r \in Readers, PollSleep(r) PROVE [Queue!Next]_(Queue!vars)
  BY <1>34 DEF PollSleep, Step, QStep, Goto, PollMask, Hangup
<1>35. ASSUME NEW r \in Readers, PollWoken(r) PROVE [Queue!Next]_(Queue!vars)
  BY <1>35 DEF PollWoken, QStep, Goto
<1>36. ASSUME NEW r \in Readers, PollTimeout(r) PROVE [Queue!Next]_(Queue!vars)
  BY <1>36 DEF PollTimeout, QStep, Goto
<1>37. ASSUME NEW r \in Readers, Fasync(r) PROVE [Queue!Next]_(Queue!vars)
  BY <1>37 DEF Fasync
<1>38. ASSUME NEW r \in Readers, SigioDelivered(r) PROVE [Queue!Next]_(Queue!vars)
  BY <1>38 DEF SigioDelivered
<1>39. CASE UNCHANGED vars
  BY <1>39 DEF vars
<1> QED
  BY <1>1, <1>2, <1>3, <1>4, <1>5, <1>6, <1>7, <1>8, <1>9, <1>10, <1>11, <1>12, <1>13,
     <1>14, <1>15, <1>16, <1>17, <1>18, <1>19, <1>20, <1>21, <1>22, <1>23, <1>24,
     <1>25, <1>26, <1>27, <1>28, <1>29, <1>30, <1>31, <1>32, <1>33, <1>34, <1>35,
     <1>36, <1>37, <1>38, <1>39, ReaderAssumption DEF Next, WorkRuns, ReadRuns,
     PollRuns, IoctlRuns, RemoveRuns

(* The probed device is well typed. *)
LEMMA InitTypes == Init => TypeOK /\ Numbered /\ Counted
<1> SUFFICES ASSUME Init PROVE TypeOK /\ Numbered /\ Counted
  OBVIOUS
<1>1. fifo \in Seq(Seqs) /\ Len(fifo) <= FifoSize
  BY SizeAssumption DEF Init
<1>2. pc \in [Readers -> {"user"} \cup ReadPoints \cup PollPoints]
  BY DEF Init
<1>3. buf \in [Readers -> Seqs \cup {-1}]
  BY DEF Init
<1>4. /\ seq \in 0 .. MaxSeq /\ sampleCount \in 0 .. MaxSeq /\ dropCount \in 0 .. MaxSeq
      /\ data \in Seqs \cup {-1} /\ newest \in Seqs \cup {-1}
      /\ wpc = "idle" /\ dying = FALSE /\ rpc = "bound" /\ cpc = "idle"
      /\ waiting = {} /\ async = {} /\ sigio = {}
  BY SizeAssumption DEF Init
<1>5. TypeOK
  BY <1>1, <1>2, <1>3, <1>4 DEF TypeOK
<1>6. QED
  BY <1>5, SizeAssumption DEF Init, Numbered, Counted

(* The variables stay in their types, whatever the interleaving.  The      *)
(* kfifo never holds more than FifoSize samples.                           *)
THEOREM TypeCorrect == Spec => [](TypeOK /\ Numbered /\ Counted)
<1>1. QED
  BY InitTypes, TypeStep, NumberStep, CountStep, PTL DEF Spec

(* The invariant holds at first, and every step keeps it. *)
LEMMA InitIInv == Init => IInv
<1> SUFFICES ASSUME Init PROVE IInv
  OBVIOUS
<1>1. TypeOK /\ Numbered /\ Counted
  BY InitTypes
<1>2. DyingSince /\ WorkBusy /\ SawNoData /\ NoLostHangup
  BY DEF Init, DyingSince, WorkBusy, SawNoData, NoLostHangup, Asleep
<1>3. Ordered
  BY DEF Init, Ordered
<1>4. QED
  BY <1>1, <1>2, <1>3 DEF IInv

LEMMA InvStep == IInv /\ [Next]_vars => IInv'
  BY TypeStep, NumberStep, CountStep, WakeStep, OrderStep DEF IInv

(* The inductive invariant holds in every reachable state. *)
THEOREM Invariance == Spec => []IInv
  BY InitIInv, InvStep, PTL DEF Spec

(* No wakeup is lost: the kfifo is not left with a sample while a reader   *)
(* or a poller sleeps.                                                     *)
THEOREM WakeupsAreNotLost == Spec => []NoLostWakeup
<1>1. IInv => NoLostWakeup
  BY DEF IInv, SawNoData, NoLostWakeup, Asleep
<1>2. QED
  BY <1>1, Invariance, PTL

(* Nobody sleeps on a device that is gone. *)
THEOREM HangupsAreNotLost == Spec => []NoLostHangup
<1>1. IInv => NoLostHangup
  BY DEF IInv
<1>2. QED
  BY <1>1, Invariance, PTL

(* The kfifo is in order and no two readers hold the same sample. *)
THEOREM SamplesInOrder == Spec => []InOrder
<1>1. IInv => InOrder
  BY DEF IInv, Ordered, InOrder, AtReader
<1>2. QED
  BY <1>1, Invariance, PTL

(* Every sample that is taken from the kfifo is younger than all that were *)
(* taken before, by whomever: none is delivered twice.                     *)
THEOREM SamplesAreYounger == Spec => Younger
<1>1. IInv /\ [Next]_vars => [\A r \in Readers : TryTake(r) => buf'[r] > newest]_vars
  <2> SUFFICES ASSUME IInv, NEW r \in Readers, TryTake(r) PROVE buf'[r] > newest
    OBVIOUS
  <2>1. buf'[r] = Head(fifo) /\ fifo # << >>
    BY DEF TryTake, IInv, TypeOK
  <2>2. Head(fifo) = fifo[1] /\ 1 \in DOMAIN fifo
    BY <2>1 DEF IInv, TypeOK
  <2>3. newest < fifo[1]
    BY <2>2 DEF IInv, Ordered
  <2>4. newest \in Int
    BY SizeAssumption DEF IInv, TypeOK, Seqs
  <2>5. fifo[1] \in Seqs
    BY <2>2 DEF IInv, TypeOK
  <2>6. QED
    BY <2>1, <2>2, <2>3, <2>4, <2>5 DEF Seqs
<1>2. QED
  BY <1>1, Invariance, PTL DEF Spec, Younger

(* Outside the two stores of RESET_STATS the counters differ from what was *)
(* sampled by at most the one sample under way.                            *)
THEOREM DropsAreBounded == Spec => []DropsWithinSamples
<1>1. IInv => DropsWithinSamples
  BY DEF IInv, TypeOK, Counted, DropsWithinSamples
<1>2. QED
  BY <1>1, Invariance, PTL

(* Where a sample in the system is: in the hands of the work, in the kfifo *)
(* or in those of a reader, before a step and after it.                    *)
LEMMA SystemHas ==
  ASSUME NEW x
  PROVE  /\ x \in InSystem <=> \/ wpc \in {"count", "put", "drop"} /\ x = data
                               \/ \E i \in DOMAIN fifo : x = fifo[i]
                               \/ \E r \in Readers : pc[r] = "copy" /\ x = buf[r]
         /\ x \in InSystem' <=> \/ wpc' \in {"count", "put", "drop"} /\ x = data'
                                \/ \E i \in DOMAIN fifo' : x = fifo'[i]
                                \/ \E r \in Readers : pc'[r] = "copy" /\ x = buf'[r]
BY DEF InSystem, AtWork, InFifo, AtReader

(* A step of one thread that takes nothing from the kfifo and has no sample*)
(* in its hands loses none.                                                *)
LEMMA QuietStep ==
  ASSUME UNCHANGED <<fifo, workVars, buf>>,
         \A r \in Readers : pc[r] = "copy" => pc'[r] = "copy"
  PROVE  \A x \in InSystem : x \in InSystem'
BY SystemHas

(* The steps of sample_work_fn: what it has fetched is put in or counted   *)
(* as dropped.                                                             *)
LEMMA WorkLoses ==
  ASSUME TypeOK, WorkStart \/ WorkRuns, NEW x \in InSystem, x \notin InSystem'
  PROVE  x = data /\ dropCount' = dropCount + 1
<1> USE DEF TypeOK, WGoto
<1>1. CASE WorkDrop
  <2>1. UNCHANGED <<fifo, pc, buf>>
    BY <1>1 DEF WorkDrop
  <2>2. x = data
    BY <2>1, SystemHas
  <2>3. QED BY <1>1, <2>2 DEF WorkDrop
<1>2. CASE WorkPut
  <2>1. /\ wpc = "put" /\ UNCHANGED <<data, pc, buf>>
        /\ wpc' = (IF FifoHasRoom THEN "wake" ELSE "drop") /\ fifo' = FifoIn
    BY <1>2 DEF WorkPut
  <2>2. CASE FifoHasRoom
    <3>1. fifo' = Append(fifo, data)
      BY <2>1, <2>2 DEF FifoIn
    <3>2. /\ \A i \in DOMAIN fifo : i \in DOMAIN fifo' /\ fifo'[i] = fifo[i]
          /\ Len(fifo) + 1 \in DOMAIN fifo' /\ fifo'[Len(fifo) + 1] = data
      BY <3>1
    <3>3. QED BY <2>1, <3>2, SystemHas
  <2>3. CASE ~FifoHasRoom
    BY <2>1, <2>3, SystemHas DEF FifoIn
  <2>4. QED BY <2>2, <2>3
<1>3. CASE WorkFetch
  <2>1. wpc = "fetch" /\ UNCHANGED <<fifo, pc, buf>>
    BY <1>3 DEF WorkFetch
  <2>2. QED BY <2>1, SystemHas
<1>4. CASE WorkStart \/ WorkCount \/ WorkWake \/ WorkFasync
  <2>1. UNCHANGED <<fifo, data, pc, buf>>
    BY <1>4 DEF WorkStart, WorkCount, WorkWake, WorkFasync
  <2>2. wpc \in {"count", "put", "drop"} => wpc' \in {"count", "put", "drop"}
    BY <1>4 DEF WorkStart, WorkCount, WorkWake, WorkFasync
  <2>3. QED BY <2>1, <2>2, SystemHas
<1>5. QED BY <1>1, <1>2, <1>3, <1>4 DEF WorkRuns

(* The steps of the readers and pollers: what leaves the kfifo is in its   *)
(* reader's hands until it is copied.                                      *)
LEMMA ReaderLoses ==
  ASSUME TypeOK, NEW r \in Readers,
         \/ ReadCall(r) \/ ReadRuns(r) \/ Signalled(r)
         \/ PollCall(r) \/ PollRuns(r) \/ PollTimeout(r) \/ Fasync(r) \/ SigioDelivered(r),
         NEW x \in InSystem, x \notin InSystem'
  PROVE  x = buf[r] /\ Copy(r)
<1> USE DEF TypeOK, Goto
<1>1. CASE Copy(r)
  <2>1. /\ UNCHANGED <<fifo, wpc, data>>
        /\ \A s \in Readers \ {r} : pc'[s] = pc[s] /\ buf'[s] = buf[s]
    BY <1>1 DEF Copy
  <2>2. QED BY <1>1, <2>1, SystemHas
<1>2. CASE TryTake(r)
  <2>1. /\ UNCHANGED <<wpc, data>> /\ fifo # << >> /\ fifo' = Tail(fifo)
        /\ pc[r] = "try" /\ pc'[r] = "copy" /\ buf'[r] = Head(fifo)
        /\ \A s \in Readers \ {r} : pc'[s] = pc[s] /\ buf'[s] = buf[s]
    BY <1>2 DEF TryTake, Rest
  <2>2. \A i \in DOMAIN fifo : fifo[i] = Head(fifo) \/ (i - 1 \in DOMAIN fifo' /\ fifo'[i - 1] = fifo[i])
    BY <2>1
  <2>3. CASE \E i \in DOMAIN fifo : x = fifo[i]
    <3>1. x = buf'[r] \/ \E i \in DOMAIN fifo' : x = fifo'[i]
      BY <2>1, <2>2, <2>3
    <3>2. QED BY <2>1, <3>1, SystemHas
  <2>4. CASE ~\E i \in DOMAIN fifo : x = fifo[i]
    BY <2>1, <2>4, SystemHas
  <2>5. QED BY <2>3, <2>4
<1>3. CASE Fasync(r) \/ SigioDelivered(r)
  <2>1. UNCHANGED <<fifo, workVars, buf, pc>>
    BY <1>3 DEF Fasync, SigioDelivered
  <2>2. QED BY <2>1, QuietStep
<1>4. ASSUME NEW from, NEW to, NEW queue, from # "copy", QStep(r, from, to, queue) PROVE FALSE
  <2>1. UNCHANGED <<fifo, workVars, buf>> /\ \A s \in Readers : pc[s] = "copy" => pc'[s] = "copy"
    BY <1>4 DEF QStep
  <2>2. QED BY <2>1, QuietStep
<1>5. CASE ReadCall(r) \/ (ReadRuns(r) /\ ~Copy(r) /\ ~TryTake(r)) \/ Signalled(r)
  BY <1>4, <1>5 DEF ReadCall, ReadRuns, Signalled, Step, TryEmpty, ReturnEnodev,
     ReturnEagain, WaitEvent, FastTest, FastDying, Prepare, Test, TestDying, Woken
<1>6. CASE PollCall(r) \/ PollRuns(r) \/ PollTimeout(r)
  BY <1>4, <1>6 DEF PollCall, PollRuns, PollTimeout, Step, PollWait, PollMaskIn, PollReturn,
     PollSleep, PollWoken
<1>7. QED BY <1>1, <1>2, <1>3, <1>5, <1>6 DEF ReadRuns

(* A sample that was taken is handed to a reader, counted as dropped or    *)
(* flushed by somebody who asked for it; sensor_remove, RESET_STATS and the*)
(* steps of the wait queues lose none (sample_work_fn, sensor_read,        *)
(* sensor_ioctl).                                                          *)
THEOREM LossesAreTold == Spec => NoSilentLoss
<1> DEFINE Told(x) == \/ \E r \in Readers : x = buf[r] /\ Copy(r)
                      \/ x = data /\ dropCount' = dropCount + 1
                      \/ x \in InFifo /\ cpc = "flush"
<1>1. ASSUME IInv, Next, NEW x \in InSystem, x \notin InSystem' PROVE Told(x)
  <2>0. TypeOK
    BY <1>1 DEF IInv
  <2>1. CASE WorkStart \/ WorkRuns
    BY <1>1, <2>0, <2>1, WorkLoses
  <2>2. ASSUME NEW r \in Readers,
               \/ ReadCall(r) \/ ReadRuns(r) \/ Signalled(r)
               \/ PollCall(r) \/ PollRuns(r) \/ PollTimeout(r) \/ Fasync(r) \/ SigioDelivered(r)
        PROVE  Told(x)
    BY <1>1, <2>0, <2>2, ReaderLoses
  <2>3. CASE Flush
    <3>1. cpc = "flush" /\ UNCHANGED <<wpc, data, pc, buf>>
      BY <2>3 DEF Flush, CGoto
    <3>2. x \in InFifo
      BY <1>1, <3>1, SystemHas DEF InFifo
    <3>3. QED BY <3>1, <3>2
  <2>4. CASE IoctlCall \/ ResetSamples \/ ResetDrops \/ RemoveMark \/ RemoveRuns
    <3>1. UNCHANGED <<fifo, workVars, buf, pc>>
      BY <2>4 DEF IoctlCall, ResetSamples, ResetDrops, CGoto, RemoveMark, RemoveRuns,
         RemoveCancelled, RemoveWake, RemoveHup, RGoto
    <3>2. QED BY <1>1, <3>1, QuietStep
  <2>5. QED BY <1>1, <2>1, <2>2, <2>3, <2>4, ReaderAssumption DEF Next, IoctlRuns
<1>2. IInv /\ [Next]_vars => [\A x \in InSystem \ InSystem' : Told(x)]_vars
  BY <1>1
<1>3. QED BY <1>2, Invariance, PTL DEF Spec, NoSilentLoss

(* The data plane implements the bounded queue of module SampleQueue. *)
THEOREM ImplementsQueue == Spec => QueueSpec
<1>1. Init => Queue!Init
  BY DEF Init, Queue!Init, CallState
<1>2. IInv /\ [Next]_vars => [Queue!Next]_(Queue!vars)
  BY QueueStep DEF IInv
<1>3. QED
  BY <1>1, <1>2, Invariance, PTL DEF Spec, QueueSpec, Queue!Spec

-----------------------------------------------------------------------------
(***************************************************************************)
(* The programs: the driver of SensorRead is left as it is by their steps, *)
(* so all of the above holds with them, and sensor_sigio misses no signal. *)
(***************************************************************************)

(* The parts of the programs' invariant that a step of r's program leaves  *)
(* to be shown when it does not touch what the others wait for.            *)
LEMMA OthersWait ==
  ASSUME AppInv, NEW r \in Readers, sigs' = sigs, fifo' = fifo, wpc' = wpc,
         \A s \in Readers \ {r} : /\ pc'[s] = pc[s] /\ upc'[s] = upc[s]
                                  /\ s \in async => s \in async'
                                  /\ s \in sigio => s \in sigio',
         r \in sigs =>
            /\ pc'[r] # "user" => upc'[r] = "read"
            /\ upc'[r] \notin {"setup", "exit"} => r \in async'
            /\ pc'[r] = "empty" \/ upc'[r] \in {"check", "suspend", "suspended"}
                   => SignalDue(r)'
  PROVE  SigioNotMissed' /\ SigioWaits'
<1>1. sigs \subseteq Readers
  BY ReaderAssumption DEF AppInv, AppTypeOK
<1>2. ASSUME NEW s \in Readers \ {r}, SignalDue(s) PROVE SignalDue(s)'
  BY <1>2 DEF SignalDue, HasData
<1>3. SigioNotMissed'
  BY <1>1, <1>2 DEF AppInv, SigioNotMissed
<1>4. SigioWaits'
  BY <1>1, <1>2 DEF AppInv, SigioWaits
<1>5. QED BY <1>3, <1>4

(* The work, the removal and a program inside a call.                      *)
LEMMA DriverStep ==
  ASSUME TypeOK, AppInv, Driver
  PROVE  AppInv'
<1> USE DEF AppInv, RGoto, WGoto
<1>1. sigs \subseteq Readers
  BY ReaderAssumption DEF AppTypeOK
<1>2. appVars' = appVars /\ pc' = pc /\ async' = async /\ (\A r \in Readers : r \in sigio => r \in sigio')
  BY DEF Driver, WorkStart, WorkRuns, RemoveMark, RemoveRuns, WorkFetch, WorkCount, WorkPut,
     WorkDrop, WorkWake, WorkFasync, RemoveCancelled, RemoveWake, RemoveHup, KillFasync
<1>3. AppTypeOK'
  BY <1>2 DEF appVars, AppTypeOK
<1>4. ASSUME NEW r \in sigs, SignalDue(r), r \in async PROVE SignalDue(r)'
  <2>1. CASE WorkPut /\ UNCHANGED appVars
    BY <1>4, <2>1 DEF WorkPut, FifoIn, SignalDue, HasData
  <2>2. CASE WorkFasync /\ UNCHANGED appVars
    BY <1>4, <2>2 DEF WorkFasync, KillFasync, SignalDue, HasData
  <2>3. CASE (WorkStart \/ WorkFetch \/ WorkCount \/ WorkDrop \/ WorkWake) /\ UNCHANGED appVars
    BY <1>4, <2>3 DEF WorkStart, WorkFetch, WorkCount, WorkDrop, WorkWake, SignalDue, HasData
  <2>4. CASE (RemoveMark \/ RemoveRuns) /\ UNCHANGED appVars
    BY <1>4, <2>4 DEF RemoveMark, RemoveRuns, RemoveCancelled, RemoveWake, RemoveHup,
       KillFasync, SignalDue, HasData
  <2>5. QED BY <2>1, <2>2, <2>3, <2>4 DEF Driver, WorkRuns
<1>5. ASSUME NEW r \in sigs, upc[r] = "suspended" PROVE r \in async
  BY <1>5 DEF SigioWaits
<1>6. ASSUME NEW r \in sigs, pc[r] = "empty" \/ upc[r] \in {"check", "suspend"}
      PROVE r \in async
  BY <1>6 DEF SigioWaits
<1>7. SigioNotMissed' /\ SigioWaits'
  BY <1>2, <1>4, <1>5, <1>6 DEF appVars, SigioNotMissed, SigioWaits
<1>8. QED BY <1>3, <1>7

LEMMA CallStep ==
  ASSUME TypeOK, AppInv, NEW r \in Readers, InKernel(r)
  PROVE  AppInv'
<1> USE DEF AppInv, Goto, QStep, Step
<1>1. /\ appVars' = appVars /\ pc[r] # "user" /\ pc'[r] # "user" /\ async' = async /\ sigio' = sigio
      /\ wpc' = wpc
      /\ \A s \in Readers \ {r} : pc'[s] = pc[s]
      /\ pc'[r] = "empty" => ~HasData'
      /\ fifo' = fifo \/ (HasData /\ fifo' = Rest)
  BY DEF InKernel, TypeOK, ReadPoints, PollPoints, TryTake, TryEmpty, WaitEvent, FastTest,
     FastDying, Prepare, Test, TestDying, Woken, PollWait, PollMaskIn, PollSleep, PollWoken, HasData
<1>2. AppTypeOK'
  BY <1>1 DEF appVars, AppTypeOK
<1>3. ASSUME NEW s \in Readers, SignalDue(s) PROVE SignalDue(s)'
  BY <1>1, <1>3 DEF SignalDue, HasData
<1>4. sigs \subseteq Readers
  BY ReaderAssumption DEF AppTypeOK
<1>5. SigioNotMissed' /\ SigioWaits'
  BY <1>1, <1>3, <1>4 DEF appVars, SigioNotMissed, SigioWaits, SignalDue
<1>6. QED BY <1>2, <1>5

(* Ctrl-C is noted, and nothing else moves.                                *)
LEMMA CtrlCStep ==
  ASSUME AppInv, NEW r \in Plain \cup sigs, CtrlC(r)
  PROVE  AppInv'
<1> USE DEF AppInv
<1>1. AppTypeOK'
  BY DEF CtrlC, AppTypeOK, vars
<1>2. SigioNotMissed' /\ SigioWaits'
  BY DEF CtrlC, vars, SigioNotMissed, SigioWaits, SignalDue, HasData
<1>3. QED BY <1>1, <1>2

(* sensor_reader and sensor_poll_reader take samples and nobody's signal.  *)
LEMMA PlainStep ==
  ASSUME TypeOK, AppInv, NEW r \in Plain, PlainRuns(r)
  PROVE  AppInv'
<1> USE DEF Goto, QStep, Step, UGoto, UStep
<1>1. r \in Readers /\ r \notin sigs
  BY DEF Plain, AppInv, AppTypeOK
<1>2. /\ sigs' = sigs /\ fifo' = fifo /\ wpc' = wpc /\ async' = async /\ sigio' = sigio
      /\ revents' = revents /\ seen' = seen
      /\ \A s \in Readers \ {r} : pc'[s] = pc[s] /\ upc'[s] = upc[s]
  BY DEF PlainRuns, PlainTest, PlainRead, ReadCall, PlainReturn, Copy, ReturnEnodev,
     Signalled, vars, appVars, TypeOK, AppInv, AppTypeOK
<1>3. \E to \in {"loop", "read", "exit"} : upc' = [upc EXCEPT ![r] = to] \/ upc' = upc
  BY DEF PlainRuns, PlainTest, AfterTest, PlainRead, PlainReturn, appVars
<1>4. sigint' \subseteq sigint /\ stopped' \subseteq stopped \cup sigint
  BY DEF PlainRuns, PlainTest, PlainRead, PlainReturn, ServeInt, appVars
<1>5. AppTypeOK'
  BY ReaderAssumption, <1>1, <1>2, <1>3, <1>4 DEF AppInv, AppTypeOK, Plain
<1>6. QED BY <1>1, <1>2, <1>5, OthersWait DEF AppInv

LEMMA PollerStep ==
  ASSUME TypeOK, AppInv, NEW r \in Pollers, PollerRuns(r) \/ PollGivesUp(r)
  PROVE  AppInv'
<1> USE DEF Goto, QStep, Step, UGoto, KStep
<1>1. r \in Readers /\ r \notin sigs
  BY ReaderAssumption DEF Pollers
<1>2. /\ sigs' = sigs /\ fifo' = fifo /\ wpc' = wpc /\ async' = async /\ sigio' = sigio
      /\ sigint' = sigint /\ stopped' = stopped /\ seen' = seen
      /\ \A s \in Readers \ {r} : pc'[s] = pc[s] /\ upc'[s] = upc[s]
  BY DEF PollerRuns, PollGivesUp, Poll, Polled, PollerRead, PollerReturn, PollCall, PollReturn,
     PollTimeout, ReadCall, Copy, ReturnEagain, ReturnEnodev, appVars, TypeOK, AppInv, AppTypeOK
<1>3. \E to \in {"poll", "read", "exit"} : upc' = [upc EXCEPT ![r] = to] \/ upc' = upc
  BY DEF PollerRuns, PollGivesUp, Poll, Polled, AfterPoll, PollerRead, PollerReturn,
     AfterRead, appVars
<1>4. revents' \in [Readers -> SUBSET {"IN", "HUP"}]
  BY DEF PollerRuns, PollGivesUp, Poll, Polled, PollMask, Hangup, PollerRead, PollerReturn,
     appVars, AppInv, AppTypeOK
<1>5. AppTypeOK'
  BY ReaderAssumption, <1>1, <1>2, <1>3, <1>4 DEF AppInv, AppTypeOK, Plain
<1>6. QED BY <1>1, <1>2, <1>5, OthersWait DEF AppInv

(* sensor_sigio: between the kfifo found empty and sigsuspend the signal   *)
(* that is due stays due.                                                  *)
LEMMA SigioStep ==
  ASSUME TypeOK, AppInv, NEW r \in sigs, SigioRuns(r)
  PROVE  AppInv'
<1> USE DEF Goto, QStep, Step, UGoto, UStep, KStep
<1>1. r \in Readers
  BY ReaderAssumption DEF AppInv, AppTypeOK
<1>2. /\ sigs' = sigs /\ fifo' = fifo /\ wpc' = wpc /\ revents' = revents
      /\ \A s \in Readers \ {r} : /\ pc'[s] = pc[s] /\ upc'[s] = upc[s]
                                  /\ s \in async => s \in async'
                                  /\ s \in sigio => s \in sigio'
  BY DEF SigioRuns, SetAsync, Fasync, SigioTest, SigioRead, ReadCall, SigioReturn, Copy,
     ReturnEagain, ReturnEnodev, SigioCheck, SigioSuspend, Handler, SigioDelivered,
     SigioResumed, vars, appVars, TypeOK, AppInv, AppTypeOK
<1>3. upc' \in [Readers -> {"setup", "loop", "read", "check", "suspend", "suspended",
                           "resumed", "poll", "exit"}]
  BY DEF SigioRuns, SetAsync, SigioTest, AfterTest, SigioRead, SigioReturn, AfterSample,
     SigioCheck, SigioSuspend, Handler, SigioResumed, appVars, AppInv, AppTypeOK
<1>4. sigint' \subseteq sigint /\ stopped' \subseteq stopped \cup sigint
  BY DEF SigioRuns, SetAsync, SigioTest, SigioRead, SigioReturn, SigioCheck, SigioSuspend,
     Handler, ServeInt, SigioResumed, appVars
<1>5. seen' \subseteq {s \in sigs : upc'[s] \in {"resumed", "exit"}}
  <2> USE DEF AppInv, AppTypeOK
  <2>1. CASE Handler(r)
    BY <1>1, <1>2, <2>1 DEF Handler, Blocked
  <2>2. CASE SigioResumed(r)
    BY <1>1, <1>2, <2>2 DEF SigioResumed
  <2>3. CASE SetAsync(r) \/ SigioTest(r) \/ SigioRead(r) \/ SigioReturn(r)
             \/ SigioCheck(r) \/ SigioSuspend(r)
    <3>1. seen' = seen /\ (upc[r] \notin {"resumed", "exit"} \/ upc'[r] = upc[r])
      BY <2>3 DEF SetAsync, SigioTest, SigioRead, SigioReturn, SigioCheck, SigioSuspend, appVars
    <3>2. QED BY ReaderAssumption, <1>1, <1>2, <3>1
  <2>4. QED BY <2>1, <2>2, <2>3 DEF SigioRuns
<1>6. AppTypeOK'
  BY <1>2, <1>3, <1>4, <1>5 DEF AppInv, AppTypeOK, Plain
<1>7. /\ pc'[r] # "user" => upc'[r] = "read"
      /\ upc'[r] \notin {"setup", "exit"} => r \in async'
      /\ pc'[r] = "empty" \/ upc'[r] \in {"check", "suspend", "suspended"} => SignalDue(r)'
  <2> USE DEF AppInv, SigioWaits, SigioNotMissed, SignalDue, HasData, TypeOK, AppTypeOK
  <2>1. CASE SetAsync(r)
    BY <1>1, <2>1 DEF SetAsync, Fasync
  <2>2. CASE SigioTest(r) \/ SigioCheck(r) \/ SigioSuspend(r) \/ SigioResumed(r)
    BY <1>1, <2>2 DEF SigioTest, AfterTest, SigioCheck, SigioSuspend, SigioResumed, vars
  <2>3. CASE SigioRead(r)
    BY <1>1, <2>3 DEF SigioRead, ReadCall, appVars
  <2>4. CASE SigioReturn(r)
    BY <1>1, <2>4 DEF SigioReturn, AfterSample, Copy, ReturnEagain, ReturnEnodev
  <2>5. CASE Handler(r)
    BY <1>1, <2>5 DEF Handler, Blocked, SigioDelivered, vars
  <2>6. QED BY <2>1, <2>2, <2>3, <2>4, <2>5 DEF SigioRuns
<1>8. QED BY <1>1, <1>2, <1>6, <1>7, OthersWait DEF AppInv

(* close: a program that has ended waits for nothing.                      *)
LEMMA CloseStep ==
  ASSUME AppInv, NEW r \in sigs, Close(r)
  PROVE  AppInv'
<1>1. r \in Readers
  BY ReaderAssumption DEF AppInv, AppTypeOK
<1>2. /\ sigs' = sigs /\ fifo' = fifo /\ wpc' = wpc /\ pc' = pc /\ upc' = upc
      /\ sigio' = sigio /\ pc[r] = "user" /\ upc[r] = "exit"
      /\ \A s \in Readers \ {r} : s \in async => s \in async'
  BY DEF Close, Fasync, appVars
<1>3. AppTypeOK'
  BY DEF Close, appVars, AppInv, AppTypeOK
<1>4. QED BY <1>1, <1>2, <1>3, OthersWait DEF AppInv

(* The programs only make calls that the driver's specification allows:    *)
(* every step of the composition is a step of SensorRead or changes nothing*)
(* of it.                                                                  *)
LEMMA DriverUnchanged ==
  ASSUME AppTypeOK, [AppNext]_allVars
  PROVE  [Next]_vars
<1>1. CASE Driver
  BY <1>1 DEF Driver, Next
<1>2. ASSUME NEW r \in Readers, InKernel(r) PROVE [Next]_vars
  <2>1. ReadRuns(r) \/ (r \in Nonblocking /\ PollRuns(r))
    BY <1>2 DEF InKernel, ReadRuns, PollRuns
  <2>2. CASE ReadRuns(r)
    BY <2>2 DEF Next
  <2>3. CASE r \in Nonblocking /\ PollRuns(r)
    BY <2>3 DEF Next
  <2>4. QED BY <2>1, <2>2, <2>3
<1>3. ASSUME NEW r \in Plain, PlainRuns(r) PROVE [Next]_vars
  BY <1>3 DEF Plain, PlainRuns, PlainTest, UStep, PlainRead, PlainReturn, Next, ReadRuns
<1>4. ASSUME NEW r \in Pollers, PollerRuns(r) \/ PollGivesUp(r) PROVE [Next]_vars
  BY <1>4, ReaderAssumption DEF Pollers, PollerRuns, PollGivesUp, Poll, Polled, PollerRead,
     PollerReturn, Next, ReadRuns, PollRuns
<1>5. ASSUME NEW r \in sigs, SigioRuns(r) \/ Close(r) PROVE [Next]_vars
  BY <1>5, ReaderAssumption DEF AppTypeOK, Close, SigioRuns, SetAsync, SigioTest, UStep, SigioRead,
     SigioReturn, SigioCheck, SigioSuspend, Handler, SigioResumed, Next, ReadRuns
<1>6. ASSUME NEW r \in Plain \cup sigs, CtrlC(r) PROVE [Next]_vars
  BY <1>6 DEF CtrlC
<1>7. CASE UNCHANGED allVars
  BY <1>7 DEF allVars
<1>8. QED BY <1>1, <1>2, <1>3, <1>4, <1>5, <1>6, <1>7 DEF AppNext

(* The initial states and every step keep the invariant of the programs.   *)
LEMMA AppStep == TypeOK /\ AppInv /\ [AppNext]_allVars => AppInv'
<1> SUFFICES ASSUME TypeOK, AppInv, [AppNext]_allVars PROVE AppInv'
  OBVIOUS
<1>1. CASE Driver
  BY <1>1, DriverStep
<1>2. ASSUME NEW r \in Readers, InKernel(r) PROVE AppInv'
  BY <1>2, CallStep
<1>3. ASSUME NEW r \in Plain, PlainRuns(r) PROVE AppInv'
  BY <1>3, PlainStep
<1>4. ASSUME NEW r \in Pollers, PollerRuns(r) \/ PollGivesUp(r) PROVE AppInv'
  BY <1>4, PollerStep
<1>5. ASSUME NEW r \in sigs, SigioRuns(r) \/ Close(r) PROVE AppInv'
  BY <1>5, SigioStep, CloseStep
<1>6. ASSUME NEW r \in Plain \cup sigs, CtrlC(r) PROVE AppInv'
  BY <1>6, CtrlCStep
<1>7. CASE UNCHANGED allVars
  <2>1. vars' = vars /\ appVars' = appVars
    BY <1>7 DEF allVars
  <2>2. fifo' = fifo /\ wpc' = wpc /\ pc' = pc /\ async' = async /\ sigio' = sigio
    BY <2>1 DEF vars
  <2>3. QED BY <2>1, <2>2 DEF appVars, AppInv, AppTypeOK, SigioNotMissed, SigioWaits,
     SignalDue, HasData
<1>8. QED BY <1>1, <1>2, <1>3, <1>4, <1>5, <1>6, <1>7 DEF AppNext

LEMMA AppInitInv == AppInit => AppInv
<1> SUFFICES ASSUME AppInit PROVE AppInv
  OBVIOUS
<1>1. AppTypeOK
  BY DEF AppInit, AppTypeOK
<1>2. fifo = << >> /\ \A r \in sigs : pc[r] = "user" /\ upc[r] = "setup"
  BY ReaderAssumption DEF AppInit, Init
<1>3. SigioNotMissed /\ SigioWaits
  BY <1>2 DEF SigioNotMissed, SigioWaits, SignalDue, HasData
<1>4. QED BY <1>1, <1>3 DEF AppInv

(* The composition with the programs keeps to the specification of the     *)
(* driver: what is proved above of sensor_read, sensor_poll and the work   *)
(* holds whatever the three programs do.                                   *)
THEOREM ProgramsKeepDriver == AppSpec => Spec
<1>1. AppInit => AppInv /\ Init
  BY AppInitInv DEF AppInit
<1>2. Init => IInv
  BY InitIInv
<1>3. IInv /\ [Next]_vars => IInv'
  BY InvStep
<1>4. IInv /\ AppInv /\ [AppNext]_allVars => (IInv /\ AppInv)' /\ [Next]_vars
  BY <1>3, AppStep, DriverUnchanged DEF IInv, AppInv
<1>5. QED
  BY <1>1, <1>2, <1>4, PTL DEF AppSpec, Spec

(* sensor_sigio never sleeps over a sample without a SIGIO on its way, for *)
(* any number of programs.                                                 *)
THEOREM ProgramsInvariance == AppSpec => []AppInv
<1>1. AppInit => AppInv
  BY AppInitInv
<1>2. IInv /\ AppInv /\ [AppNext]_allVars => AppInv'
  BY AppStep DEF IInv
<1>3. QED
  BY <1>1, <1>2, ProgramsKeepDriver, Invariance, PTL DEF AppSpec
=============================================================================
