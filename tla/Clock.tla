-------------------------------- MODULE Clock --------------------------------
(***************************************************************************)
(* The wall clock the scheduler reads the maintenance windows by           *)
(* (time.Now in tick and in the loop, passed to Monitor.InMaintenance):    *)
(* an instant of the week that moves on minute by minute.                  *)
(***************************************************************************)
EXTENDS Maintenance

VARIABLE wall   \* the local wall clock

WallInit == wall \in Instants
WallTick == wall' = NextInstant(wall)
-----------------------------------------------------------------------------
\* Every maintenance window opens at its first minute, closes at its end, which
\* may be past midnight and past the end of the week, and the clock crosses no
\* other edge of it; one that starts where it ends never opens (InMaintenance).
WindowEdges ==
  [][wall' # wall =>
       \A w \in Windows :
         InMaintenance(w, wall) # InMaintenance(w, wall')
           <=> /\ w.enabled /\ w.start # w.end
               /\ wall' \in {OpensAt(w), ClosesAt(w)}]_wall
=============================================================================
