------------------------- MODULE MC_RedStackLifecycle -------------------------
(* A small instance of RedStackLifecycle: two slots, each reporting one    *)
(* UID, and every call whose result red_stack_init or red_stack_init_spi   *)
(* tests may fail.                                                          *)
EXTENDS RedStackLifecycle

MCLifeEnumResponse == [s \in 0 .. 1 |-> <<s + 1, 0>>]

MCFailing == {Calls[k].name : k \in {j \in 1 .. Len(Calls) : Calls[j].checked}}
=============================================================================
