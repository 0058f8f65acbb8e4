------------------------------ MODULE MCNfHook ------------------------------
(* The tests as they are written, on a word of two bytes.                  *)
EXTENDS NfHook

MCEntry == {Entries[n] : n \in DOMAIN Entries} \cup {Range4(3, 60, 70)}

MCPrefix == {Prefixes6[n] : n \in 0..7}

MCSource == {Addr(n) : n \in {16, 17, 18}}
=============================================================================
