------------------------------ MODULE MCPickle ------------------------------
(* Values of every size and of every way to be written.                    *)
EXTENDS Pickle, Base64

MCItems ==
  { [kind |-> "bool",    bytes |-> <<1>>],
    [kind |-> "uint16",  bytes |-> <<7, 9>>],
    [kind |-> "int",     bytes |-> <<255, 255, 255, 255>>],
    [kind |-> "int64",   bytes |-> <<1, 2, 3, 4, 0, 0, 0, 64>>],
    [kind |-> "string",  bytes |-> <<>>],
    [kind |-> "data",    bytes |-> <<97, 98, 99, 100, 101>>],
    [kind |-> "wstring", bytes |-> <<97, 0, 0, 0>>],
    [kind |-> "bytes",   bytes |-> <<5, 6, 7>>] }
MCSkips == {-1, 3}
MCNoise == {-4, -1, 0, 8}

(* base64_encode and base64_decode on the payload of every pickle: what a   *)
(* text cut short or spoilt decodes to is a prefix of it.                   *)
PayloadSurvivesBase64 == it = NoIterator => Armours(pickle.payload)
=============================================================================
