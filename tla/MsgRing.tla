------------------------------ MODULE MsgRing -------------------------------
(***************************************************************************)
(* A local_msg_buffer between an interrupt that adds the bytes it receives *)
(* and a main loop that takes them and empties the buffer                  *)
(* (src/common/local_msg_buffer.c, used so by the SPI slave,               *)
(* src/driver/communication/spi/spi0_driver_atmega1284p.c). Nothing in     *)
(* either file locks the interrupt out: add_byte runs in one go, between   *)
(* any two accesses of the main loop to the volatile fields.               *)
(*                                                                         *)
(* Bytes are numbered as they are received; 0 is what was never written.   *)
(* A buffer has less than 256 bytes, so the two halves of a u16 cannot be  *)
(* seen apart.                                                             *)
(***************************************************************************)
EXTENDS Integers, Sequences

CONSTANTS
  RingSize,        \* size of the buffer
  MaxRingBytes     \* bound: bytes received in a behaviour

ASSUME RingAssumption == RingSize \in 1 .. 255 /\ MaxRingBytes \in Nat

VARIABLES
  ring,     \* p_buffer, read_pointer, write_pointer, num_elements
  reader,   \* the main loop: where it is and num_elements as it has loaded it
  bytes     \* history: received, received before the last clear_all, taken since

ringvars == <<ring, reader, bytes>>

RingInit ==
  /\ ring = [mem |-> [i \in 0 .. RingSize - 1 |-> 0], read |-> 0, write |-> 0, num |-> 0]
  /\ reader = [at |-> "idle", num |-> 0]
  /\ bytes = [received |-> 0, cleared |-> 0, taken |-> <<>>]

\* The interrupt: local_msg_buffer_add_byte, which drops the byte when full.
Added(r, b) ==
  IF r.num = RingSize THEN r
  ELSE [mem |-> [r.mem EXCEPT ![r.write] = b], read |-> r.read,
        write |-> (r.write + 1) % RingSize, num |-> r.num + 1]

ReceiveInterrupt ==
  /\ bytes.received < MaxRingBytes
  /\ ring' = Added(ring, bytes.received + 1)
  /\ bytes' = [bytes EXCEPT !.received = @ + 1]
  /\ UNCHANGED reader

WrongGetByte ==
  /\ reader.at = "idle"
  /\ bytes' = [bytes EXCEPT !.taken = Append(@, ring.mem[ring.read])]
  /\ ring' = [ring EXCEPT !.read = (@ + 1) % RingSize]
  /\ reader' = [reader EXCEPT !.at = "load"]

\* local_msg_buffer_get_byte: nothing when empty, else the element and then
\* the counter, with a load and a store of its own.
GetByte ==
  /\ reader.at = "idle" /\ ring.num # 0
  /\ bytes' = [bytes EXCEPT !.taken = Append(@, ring.mem[ring.read])]
  /\ ring' = [ring EXCEPT !.read = (@ + 1) % RingSize]
  /\ reader' = [reader EXCEPT !.at = "load"]

LoadNum ==
  /\ reader.at = "load"
  /\ reader' = [at |-> "store", num |-> ring.num]
  /\ UNCHANGED <<ring, bytes>>

StoreNum ==
  /\ reader.at = "store"
  /\ ring' = [ring EXCEPT !.num = reader.num - 1]
  /\ reader' = [at |-> "idle", num |-> 0]
  /\ UNCHANGED bytes

\* local_msg_buffer_clear_all: three stores, in this order.
ClearRead ==
  /\ reader.at = "idle"
  /\ ring' = [ring EXCEPT !.read = 0]
  /\ reader' = [reader EXCEPT !.at = "write"]
  /\ bytes' = [bytes EXCEPT !.cleared = bytes.received, !.taken = <<>>]

ClearWrite ==
  /\ reader.at = "write"
  /\ ring' = [ring EXCEPT !.write = 0]
  /\ reader' = [reader EXCEPT !.at = "num"]
  /\ UNCHANGED bytes

ClearNum ==
  /\ reader.at = "num"
  /\ ring' = [ring EXCEPT !.num = 0]
  /\ reader' = [reader EXCEPT !.at = "idle"]
  /\ UNCHANGED bytes

ReadRing == GetByte \/ LoadNum \/ StoreNum
ClearRing == ClearRead \/ ClearWrite \/ ClearNum

RingNext == ReceiveInterrupt \/ ReadRing \/ ClearRing

\* The ring on its own; BoardDevices runs it as one of its images.
RingSpec == RingInit /\ [][RingNext]_ringvars

-----------------------------------------------------------------------------
(* Properties *)

\* Emptying the buffer before a transfer works although bytes keep coming in
\* while its three fields are set: what is taken afterwards was received after
\* the clearing began, never an older byte of the memory, and this in spite of
\* interrupts that come within a get_byte (local_msg_buffer.c:211-236,
\* 282-287). That each byte is taken once and in order is not promised.
NoOldBytes == \A i \in 1 .. Len(bytes.taken) : bytes.taken[i] > bytes.cleared
=============================================================================
