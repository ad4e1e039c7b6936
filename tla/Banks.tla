------------------------------- MODULE Banks -------------------------------
(* The three banks in one specification.  A job restores and publishes its  *)
(* banks one after the other and they share nothing but the lap, so         *)
(* whichever bank moves first is the one that moves.                        *)
EXTENDS CasBank, RowBank, GraphBank

BlobsIdle  == \A j \in Jobs : pc[j] = "waiting"
RowsIdle   == \A j \in Jobs : at[j] = "waiting"
GraphsIdle == \A j \in Drivers : phase[j] = "waiting"

banksVars == <<casVars, rowVars, graphVars>>

BanksInit == CasInit /\ RowInit /\ GraphInit
BanksNext ==
  \/ CasNext /\ RowsIdle /\ GraphsIdle /\ UNCHANGED <<rowVars, graphVars>>
  \/ RowNext /\ BlobsIdle /\ GraphsIdle /\ UNCHANGED <<casVars, graphVars>>
  \/ GraphNext /\ BlobsIdle /\ RowsIdle /\ UNCHANGED <<casVars, rowVars>>

BanksSpec == BanksInit /\ [][BanksNext]_banksVars

\* Every bank keeps to its types.
BanksTypeOK == CasTypeOK /\ RowTypeOK /\ GraphTypeOK
=============================================================================
