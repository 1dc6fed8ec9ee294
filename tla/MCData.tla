------------------------------- MODULE MCData -------------------------------
(***************************************************************************)
(* What requests read and write: accounts, the limiter of logins, access,  *)
(* channels and the history of the checks, checked side by side.  They     *)
(* share no variable, so one of them runs in each behaviour.               *)
(***************************************************************************)
EXTENDS Accounts, LoginLimiter, Access, Channels, Heartbeats, TLC

VARIABLE part

dataVars ==
  <<accountsVars, limiterVars, accessVars, channelsVars, heartbeatsVars, part>>

MCInit ==
  /\ part \in {"accounts", "limiter", "access", "channels", "heartbeats"}
  /\ AccountsInit /\ LimiterInit /\ AccessInit /\ ChannelsInit /\ HeartbeatsInit
  /\ part # "access" => role = [u \in People |-> "admin"]

MCNext ==
  \/ /\ part = "accounts" /\ AccountsNext
     /\ UNCHANGED <<limiterVars, accessVars, channelsVars, heartbeatsVars, part>>
  \/ /\ part = "limiter" /\ LimiterNext
     /\ UNCHANGED <<accountsVars, accessVars, channelsVars, heartbeatsVars, part>>
  \/ /\ part = "access" /\ AccessNext
     /\ UNCHANGED <<accountsVars, limiterVars, channelsVars, heartbeatsVars, part>>
  \/ /\ part = "channels" /\ ChannelsNext
     /\ UNCHANGED <<accountsVars, limiterVars, accessVars, heartbeatsVars, part>>
  \/ /\ part = "heartbeats" /\ HeartbeatsNext
     /\ UNCHANGED <<accountsVars, limiterVars, accessVars, channelsVars, part>>

MCSpec == MCInit /\ [][MCNext]_dataVars

\* Sets of different components have the same model values in Data.cfg (tokens and
\* channels, for one), which keeps this group small.
MCSymmetry ==
  Permutations(Requests) \cup Permutations(Tokens)
  \cup Permutations(People) \cup Permutations(Monitored)
=============================================================================
