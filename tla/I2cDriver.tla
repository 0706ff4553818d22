----------------------------- MODULE I2cDriver ------------------------------
(***************************************************************************)
(* driver/communication/i2c/i2c0_driver_atmega1284p.c as a bus master: the *)
(* status bits, the receive buffer, the module behind them and the         *)
(* interrupt that drives it from byte to byte of a read.  Each operator is *)
(* the driver after the function or after the case of ISR(TWI_vect) it is  *)
(* named for.  The bytes are counted, not modelled: those that were in the *)
(* buffer when a read was started are in front of the bytes of the read.   *)
(***************************************************************************)
EXTENDS Naturals

CONSTANT RxBufferSize    \* I2C_DRIVER_MAX_NUM_BYTES_RECEIVE_BUFFER

ASSUME RxBufferAssumption == RxBufferSize \in Nat /\ RxBufferSize >= 6

\* What the hardware clocks: a write, the address of a read, a byte that will
\* be acknowledged, the only byte of a read, or the byte after the last one
\* of a longer read, which is the first that is not acknowledged.
Transfer == {"none", "tx", "address", "rx", "last", "tail"}

Driver ==
  [ enabled : BOOLEAN,        \* between configure and power_off
    tx_active : BOOLEAN,      \* I2C_STATUS_TX_ACTIVE
    rx_active : BOOLEAN,      \* I2C_STATUS_RX_ACTIVE
    old : Nat,                \* bytes in I2C0_RX_BUFFER from before the read
    got : Nat,                \* bytes in it of the read
    todo : Nat,               \* _i2c_rx_counter
    transfer : Transfer ]

DriverInit ==
  [ enabled |-> FALSE, tx_active |-> FALSE, rx_active |-> FALSE,
    old |-> 0, got |-> 0, todo |-> 0, transfer |-> "none" ]

Minus(m, n) == IF m > n THEN m - n ELSE 0

Available(d) == d.old + d.got

Configure(d) == [d EXCEPT !.enabled = TRUE]

\* power_off stops the module, the status bits stay.
PowerOff(d) == [d EXCEPT !.enabled = FALSE, !.transfer = "none"]

\* is_ready_for_tx and is_ready_for_rx ask for the same
IsReady(d) == ~d.tx_active /\ ~d.rx_active

\* A START asked for while a byte is clocked is lost: the interrupt that ends
\* the byte writes the control register anew (i2c0_driver_atmega1284p.h:78-95).
Started(d, transfer) == IF d.enabled /\ d.transfer = "none" THEN transfer ELSE d.transfer

StartTx(d) == [d EXCEPT !.tx_active = TRUE, !.transfer = Started(d, "tx")]

\* start_write of the message buffer does nothing: what was in it stays.
StartRx(d, n) ==
  [d EXCEPT !.rx_active = TRUE, !.old = Available(d), !.got = 0, !.todo = n,
            !.transfer = Started(d, "address")]

\* stop_tx and stop_rx clear the bit; the hardware goes on.
StopTx(d) == [d EXCEPT !.tx_active = FALSE]
StopRx(d) == [d EXCEPT !.rx_active = FALSE]

\* clear_rx_buffer
EmptyRx(d) == [d EXCEPT !.old = 0, !.got = 0]

\* get_N_bytes takes the oldest bytes, at most as many as there are.
Take(d, n) == [d EXCEPT !.old = Minus(@, n), !.got = Minus(@, Minus(n, d.old))]

\* The last byte was sent, or the slave refused one.
IsrTxDone(d) == [d EXCEPT !.tx_active = FALSE, !.transfer = "none"]

\* 0x40: the slave answers its address on a read.
IsrAddress(d) == [d EXCEPT !.transfer = IF d.todo = 1 THEN "last" ELSE "rx"]

\* A byte is kept when a read is marked as active and the buffer has room.
Keeps(d) == d.rx_active /\ Available(d) < RxBufferSize

\* 0x50: a byte came in and was acknowledged. With the last one RX_ACTIVE is
\* cleared, but one byte more is clocked.
IsrRxByte(d) ==
  LET left == Minus(d.todo, 1) IN
  [d EXCEPT !.got = IF Keeps(d) THEN @ + 1 ELSE @,
            !.todo = left,
            !.rx_active = @ /\ left # 0,
            !.transfer = IF left = 0 THEN "tail" ELSE "rx"]

\* 0x58: a byte came in and was not acknowledged. It belongs to the read that
\* is marked as active now, and TX_ACTIVE is cleared whoever has set it. The
\* counter is not looked at again before the next start_rx.
IsrRxEnd(d) ==
  [d EXCEPT !.old = IF Keeps(d) /\ d.transfer = "tail" THEN @ + 1 ELSE @,
            !.got = IF Keeps(d) /\ d.transfer = "last" THEN @ + 1 ELSE @,
            !.rx_active = FALSE, !.tx_active = FALSE, !.transfer = "none"]

\* 0x48: the slave refused its address on a read: only TX_ACTIVE is cleared.
IsrRxNack(d) == [d EXCEPT !.tx_active = FALSE, !.transfer = "none"]

\* LOCAL_BUS_ERROR and MASTER_ARBITRATION_LOST: the bus is released, no bit
\* of the status changes.
IsrBusError(d) == [d EXCEPT !.transfer = "none"]

=============================================================================
