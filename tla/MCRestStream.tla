---------------------------- MODULE MCRestStream ----------------------------
(* An instance of RestStream for TLC.                                        *)
EXTENDS RestStream

Object(type, hasText, error) == [type |-> type, text |-> hasText, usage |-> FALSE, error |-> error]
Of(objects) == [kind |-> "objects", objects |-> objects]

(* Plain text, the end marker, and an array with a Done in the middle and a  *)
(* failure after it that calls itself a message.                             *)
MCPayloads ==
    { Raw,
      [kind |-> "done", objects |-> <<>>],
      Of(<<Object("absent", TRUE, FALSE), Object("done", FALSE, FALSE), Object("message", TRUE, TRUE)>>) }
=============================================================================
