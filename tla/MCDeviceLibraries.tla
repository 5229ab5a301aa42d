-------------------------- MODULE MCDeviceLibraries -------------------------
(***************************************************************************)
(* Small libraries of the firmware that share nothing: a behaviour is one  *)
(* of a library, and the others stand still.                               *)
(***************************************************************************)
EXTENDS Integers, Sequences

CONSTANTS MaxTimers, Delays, Counts, MaxLate, Recycles
VARIABLES callbacks, delays, maxNumRuns, numRuns, enabled, elapsed, toBeCalled, slot,
          calling, calls
timer == <<callbacks, delays, maxNumRuns, numRuns, enabled, elapsed, toBeCalled, slot,
           calling, calls>>
Timer == INSTANCE SimpleTimer

CONSTANTS Wrap, MaxHandlers, Names, Filters
VARIABLES eventTicks, updating, sent, handlers, called
events == <<eventTicks, updating, sent, handlers, called>>
Events == INSTANCE EventDispatch

CONSTANT SerialBufferSize
VARIABLES writer, level, tx, txHead, txTail, rx, rxHead, rxTail, txEnabled, dr, shifted,
          rdr, taken, written, arrived
usart == <<writer, level, tx, txHead, txTail, rx, rxHead, rxTail, txEnabled, dr, shifted,
           rdr, taken, written, arrived>>
Usart == INSTANCE UsartSerial

CONSTANTS USART_RX_DATA_SIZE, VIRTUAL_COM_PORT_DATA_SIZE, PtrRange
VARIABLES sender, ring, ptrIn, ptrOut, rxLength, txState, packet, host, rxState, rxBuf,
          rxPtr, ready, char, put, offered
usb == <<sender, ring, ptrIn, ptrOut, rxLength, txState, packet, host, rxState, rxBuf,
         rxPtr, ready, char, put, offered>>
Usb == INSTANCE UsbSerial

ASSUME TimerAssumption ==
  /\ MaxTimers \in Nat \ {0} /\ Delays \subseteq Nat /\ Counts \subseteq Nat
  /\ MaxLate \in Nat /\ Recycles \in BOOLEAN
ASSUME EventAssumption == Wrap \in Nat /\ Wrap > 4 /\ MaxHandlers \in Nat
ASSUME UsartAssumption == SerialBufferSize \in Nat /\ SerialBufferSize > 1
ASSUME UsbAssumption ==
  /\ USART_RX_DATA_SIZE \in Nat /\ USART_RX_DATA_SIZE > 1
  /\ VIRTUAL_COM_PORT_DATA_SIZE \in Nat \ {0}
  /\ PtrRange \in Nat /\ PtrRange > VIRTUAL_COM_PORT_DATA_SIZE

VARIABLE library

vars == <<timer, events, usart, usb, library>>

Init ==
  /\ library \in {"SimpleTimer", "EventDispatch", "UsartSerial", "UsbSerial"}
  /\ Timer!Init /\ Events!Init /\ Usart!Init /\ Usb!Init

Next ==
  /\ UNCHANGED library
  /\ \/ /\ library = "SimpleTimer" /\ Timer!Next
        /\ UNCHANGED <<events, usart, usb>>
     \/ /\ library = "EventDispatch" /\ Events!Next
        /\ UNCHANGED <<timer, usart, usb>>
     \/ /\ library = "UsartSerial" /\ Usart!Next
        /\ UNCHANGED <<timer, events, usb>>
     \/ /\ library = "UsbSerial" /\ Usb!Next
        /\ UNCHANGED <<timer, events, usart>>

Spec == Init /\ [][Next]_vars

-----------------------------------------------------------------------------
OneOrTwo == {0, 1, 2}
Parts    == {<<"a">>, <<"b">>}
Slashes  == Parts \cup {<<"a", "b">>}

\* The types of all four, and TypeOK of UsartSerial with its condition on the interrupt.
TypeOK == Timer!TypeOK /\ Events!TypeOK /\ Usart!TypeOK /\ Usb!TypeOK

\* See SimpleTimer: timers are called as often as asked, whatever their callbacks do.
TimersKept == Timer!TimersKept

\* See EventDispatch: at most four events are sent in a second.
AtMostFour == Events!AtMostFour

\* See UsartSerial and UsbSerial: each direction of each port implements BoundedQueue,
\* over USB but for the states that UsbSerial names.
SerialIsQueue == Usart!IsQueue /\ Usb!IsQueue

\* See SimpleTimer and EventDispatch; both are false.
DisabledRests == Timer!DisabledRests
GetsWholeEvent == Events!GetsWholeEvent
=============================================================================
