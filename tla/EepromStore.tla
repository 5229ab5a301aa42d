---------------------------- MODULE EepromStore ----------------------------
(***************************************************************************)
(* What the EEPROM class promises a sketch: a map from addresses to the    *)
(* bytes last written there, `Erased' where nothing was written.  A write  *)
(* touches its own address only, takes effect at one instant, and has      *)
(* taken effect when it returns.                                           *)
(***************************************************************************)
CONSTANTS Addresses, Bytes, Erased, NoCall

VARIABLES
  mem,    \* what a read of each address returns
  call    \* the write in progress

Init == mem = [a \in Addresses |-> Erased] /\ call = NoCall

Call(a, b) == call = NoCall /\ call' = <<a, b>> /\ UNCHANGED mem

Stored(m) == [m EXCEPT ![call[1]] = call[2]]

TakeEffect == call # NoCall /\ mem' = Stored(mem) /\ UNCHANGED call

Return == call # NoCall /\ mem' = Stored(mem) /\ call' = NoCall

Next == \/ \E a \in Addresses, b \in Bytes : Call(a, b)
        \/ TakeEffect
        \/ Return

Spec == Init /\ [][Next]_<<mem, call>>
=============================================================================
