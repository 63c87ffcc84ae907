---------------------------- MODULE FarmSchedule ----------------------------
(***************************************************************************)
(* The farm with history variables that remember how the current period    *)
(* began, which the contract itself forgets: it only keeps what is left of *)
(* the rewards and of the time, and rounds at every call.                  *)
(***************************************************************************)
EXTENDS FarmProperties

VARIABLES periodRewards, periodDuration,  \* the current period's deposit
          updates                         \* updates that released from it

scheduleVars == <<vars, periodRewards, periodDuration, updates>>

ScheduleInit == /\ Init /\ periodRewards = ZeroRewards
                /\ periodDuration = 0 /\ updates = 0

Period(rewards, duration, n) ==
  /\ periodRewards' = rewards /\ periodDuration' = duration /\ updates' = n

Remember ==
  IF pool.duration = 0 THEN Period(pool'.pending, pool'.duration, 0)
  ELSE IF pool.nextDuration # 0 /\ pool'.nextDuration = 0
  THEN Period(pool.next, pool.nextDuration, 1)
  ELSE Period(periodRewards, periodDuration,
              IF pool'.duration < pool.duration THEN updates + 1 ELSE updates)

ScheduleNext == Next /\ Remember

ScheduleSpec == ScheduleInit /\ [][ScheduleNext]_scheduleVars

FairScheduleSpec == ScheduleSpec /\ Fairness

(* What is still pending is never less than the linear schedule says, and  *)
(* more by less than one token for each update that rounded: calling the   *)
(* farm often neither speeds the release up nor starves it.                *)
ReleaseOnSchedule ==
  \A i \in Slots :
    LET pending == pool.pending[i] * periodDuration
        due     == periodRewards[i] * pool.duration
    IN due <= pending /\ pending <= due + updates * periodDuration
=============================================================================
