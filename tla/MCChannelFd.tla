---------------------------- MODULE MCChannelFd ----------------------------
(* A small instance of ChannelFd: two bytes of length, data that look like  *)
(* the magic values, and every kind of junk the reader must get over: a     *)
(* stray byte and an empty message; a length too great and a wrong end.     *)
EXTENDS ChannelFd

SmallMsgs == {<<7>>, <<START, END>>}

SomeJunk == {<<7>> \o Frame(<<>>), <<START, 3, 0, START, 1, 0, 7, 7>>}

ASSUME Surroundings == LengthFits /\ Harmless
=============================================================================
