----------------------------- MODULE MCHttpCore -----------------------------
(* HttpCore on small instances, for TLC.                                   *)
EXTENDS HttpCore, TLC

(* Requests cut into pbufs in different ways: a page closed after the      *)
(* answer; a kept-alive one too long for the buffer; a POST whose body may *)
(* come in another pbuf; a request without handler; body or line bytes.    *)
RequestPayloads ==
    { <<"GetPage", "eol", "keepalive", "eol", "eol">>,
      <<"GetUnknown", "eol", "keepalive", "eol", "eol">>,
      <<"GetXml", "eol", "eol">>,
      <<"PostForm", "eol", "length", "eol", "eol", "x">>,
      <<"x">> }

PoolPayloads == { <<"GetImage", "eol", "keepalive", "eol", "eol">> }

(* The last one is part of a line longer than the buffer.                  *)
LivePayloads == { <<"GetPage", "eol", "keepalive", "eol", "eol">>,
                  <<"PostForm", "eol", "length", "eol", "eol">>,
                  <<"x", "x", "x", "x", "x">> }

PcbSymmetry  == Permutations(Pcbs)
PoolSymmetry == Permutations(Pcbs) \cup Permutations(Addrs)
=============================================================================
