------------------------------ MODULE MCCFun ------------------------------
(* The functions of all the libraries, and the boot loader, under the discipline of CFun *)
EXTENDS PosixFuns, SocketFuns, RuntimeFuns, Win32Funs, BootFuns

AllFuns == PosixTable @@ SocketTable @@ RuntimeTable @@ Win32Table @@ BootTable
=============================================================================
