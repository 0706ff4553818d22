------------------------------ MODULE MCI2cBus ------------------------------
(***************************************************************************)
(* The board of the two sensors and the board of the IO expander, with two *)
(* channels of the ADS1115 and two instances of the PCA9670.               *)
(***************************************************************************)
EXTENDS I2cBus

MCBoards == {{"sht31", "ads1115"}, {"pca9670"}}
MCLast == [t \in Task |-> IF t = "sht31" THEN 0 ELSE 1]

=============================================================================
