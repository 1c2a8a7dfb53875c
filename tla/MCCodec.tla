------------------------------ MODULE MCCodec -------------------------------
(* Inputs for Codec: every short string of terminator bytes and dots, and   *)
(* every two commands in a row, well formed or not.                         *)
EXTENDS Codec

MCWords == {"id", "$", "key"}

Strings == BoundedSeq({"CR", "LF", "."}, 7)

Lines ==
  {<<"HMAC">>, <<"DIS", "CONNECT">>, <<".">>, <<"PING", "SP", "id">>,
   <<"CONNECT", "SP", "id", "SP", "$", "key">>, <<"key", ":", "SP", "id">>,
   <<"CONNECT", "SP", "id", "SP">>, <<"CONNECT">>, <<"id">>, <<".", ".">>,
   <<"PING", ":", "HMAC">>, <<"key", ":", "id", ":", "$">>,
   <<"DIS", "CONNECT", ":">>, <<":">>, <<"key", "CR", "LF", "id", ":">>}

Commands == {line \o Terminator : line \in Lines}

MCInputs == Strings \cup {a \o b : a, b \in Commands}
=============================================================================
