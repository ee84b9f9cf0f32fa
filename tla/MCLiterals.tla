----------------------------- MODULE MCLiterals ------------------------------
(* The literal builders on a small heap. *)
EXTENDS Literals

MCNumbers == {<<0, 1>>}
MCSaveds == {2, 5}
MCLens == {0, 1, 5}
MCWide == {0, 1, 2, 3, 5, 6, 7, 8, 10, 11, 14, 15, 16, 31, 32, 33, 127, 128, 129,
           255, 256, 32767, 32768, 32769, 65534, 65535, 65536}

\* The limits of 32 bits and their neighbours, and those of 63 bits
MCWideNumbers == {Num(maxInt32), <<1, 0>>, Num(minInt32), <<-2, maxInt32>>,
                  <<maxInt32, maxInt32>>, <<minInt32, 0>>}
=============================================================================
