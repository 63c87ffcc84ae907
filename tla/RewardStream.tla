---------------------------- MODULE RewardStream ----------------------------
(***************************************************************************)
(* What a farm promises about its rewards, without rewards per token and   *)
(* snapshots: deposits are streamed to the stakers one after the other,    *)
(* each evenly over its own time, of which no tick is lost, counted twice  *)
(* or counted in advance.  Here every tick counts when it passes; the      *)
(* contract learns of it when somebody calls it.                           *)
(***************************************************************************)
EXTENDS Integers

CONSTANTS Users, Slots

VARIABLES stakers,  \* users whose stakes have been noticed
          passed,   \* ticks with stakers since rewards were last released
          time,     \* time of the current and of the queued deposit, as it
                    \* was when rewards were last released
          rewards,  \* what they have not released, per slot
          payable   \* rewards released and not claimed or given up, per slot

vars == <<stakers, passed, time, rewards, payable>>

Deposits == 1 .. 2

Init ==
  /\ stakers = {} /\ passed = 0
  /\ time = [k \in Deposits |-> 0]
  /\ rewards = [k \in Deposits |-> [i \in Slots |-> 0]]
  /\ payable = [i \in Slots |-> 0]

Types ==
  /\ stakers' \subseteq Users /\ passed' \in Nat
  /\ time' \in [Deposits -> Nat] /\ rewards' \in [Deposits -> [Slots -> Nat]]
  /\ payable' \in [Slots -> Nat]

(* Time runs for the stream while there is somebody to stream to.          *)
Pass ==
  /\ stakers # {} /\ passed' = passed + 1
  /\ UNCHANGED <<stakers, time, rewards, payable>>

(* A deposit queues up behind the others, when no tick is waiting that     *)
(* would be taken for one of its own.                                      *)
Deposit ==
  /\ passed = 0
  /\ \E k \in Deposits :
       /\ time[k] = 0 /\ time'[k] > 0
       /\ \A i \in Slots : rewards'[k][i] >= rewards[k][i]
       /\ \A j \in Deposits \ {k} :
            /\ time'[j] = time[j] /\ rewards'[j] = rewards[j]
            /\ j < k => time[j] > 0
  /\ UNCHANGED <<stakers, passed, payable>>

(* Of the rewards r, to be released in t ticks, `kept' is left after d of  *)
(* them: no less than is due in the ticks to come, and not a token more.   *)
Evenly(r, t, d, kept) ==
  \A i \in Slots : /\ r[i] * (t - d) <= kept[i] * t
                   /\ kept[i] * t < r[i] * (t - d) + t \/ kept[i] = 0

IsOver == passed >= time[1]
SpentOfQueued == IF passed - time[1] <= time[2] THEN passed - time[1] ELSE time[2]

(* All ticks that have passed are made up for, in the current deposit and, *)
(* when that is used up, in the queued one, which then becomes current.    *)
(* What is released goes to the stakers there were, to the last token;     *)
(* other stakes are noticed only now.                                      *)
Release ==
  /\ passed' = 0
  /\ \/ /\ ~ IsOver
        /\ time'[1] = time[1] - passed /\ time'[2] = time[2]
        /\ Evenly(rewards[1], time[1], passed, rewards'[1])
        /\ rewards'[2] = rewards[2]
     \/ /\ IsOver
        /\ time'[1] = time[2] - SpentOfQueued /\ time'[2] = 0
        /\ Evenly(rewards[2], time[2], SpentOfQueued, rewards'[1])
        /\ rewards'[2] = [i \in Slots |-> 0]
  /\ \A i \in Slots : payable'[i] + rewards'[1][i] + rewards'[2][i]
                        = payable[i] + rewards[1][i] + rewards[2][i]

Take ==
  /\ \A i \in Slots : payable'[i] <= payable[i]
  /\ UNCHANGED <<stakers, passed, time, rewards>>

(* A user leaves, and gives up what it has not claimed.  Only when no      *)
(* staker is left do the ticks not yet made up for count for nothing: the  *)
(* time of the deposits stands still from when they were last released.    *)
Leave ==
  /\ \E u \in Users : stakers' = stakers \ {u}
  /\ passed' = IF stakers' = {} THEN 0 ELSE passed
  /\ \A i \in Slots : payable'[i] <= payable[i]
  /\ UNCHANGED <<time, rewards>>

Next == Types /\ (Pass \/ Deposit \/ Release \/ Take \/ Leave)

Spec == Init /\ [][Next]_vars
=============================================================================
