--------------------------- MODULE UartParameters ---------------------------
(* The sizes of the serial line, for UartPipeline and what composes it.    *)
EXTENDS Naturals

CONSTANTS
  Frames,       \* frames the line carries in one behavior
  RING_SIZE,    \* bytes of the driver's receive buffer (BUF_SIZE * 2)
  QUEUE_SIZE,   \* events of data_uart_queue (20)
  MaxChunk      \* most bytes the interrupt takes from the hardware at once

ASSUME SizesAssumption == /\ Frames \in Nat /\ RING_SIZE \in Nat \ {0}
                          /\ QUEUE_SIZE \in Nat \ {0} /\ MaxChunk \in Nat \ {0}
=============================================================================
