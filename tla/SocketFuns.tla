----------------------------- MODULE SocketFuns -----------------------------
(***************************************************************************)
(* The C functions of the socket library (c-libs/smlnj-sockets), as        *)
(* programs of CFun.                                                       *)
(***************************************************************************)
EXTENDS CFun

\* an address the system returned, as a word8 vector
SockAddr(v) == Alt(<<<<ML_CData("data"), SEQHDR_ALLOC(v, "data")>>>>)

\* an option of a socket: read it, or set it to the value of SOME v
util_Sock_ControlFlg ==
    <<REC_SEL("ctl", "arg"),
      If(<<Chk("getsockopt")>>, <<Use("ctl"), Chk("setsockopt")>>), Return>>

ml_Sock_accept ==
    <<Chk("accept"), SockAddr("addr"), REC_ALLOC("res", {"addr"}, 2), ReturnVal("res")>>
ml_Sock_bind == <<REC_SEL("addr", "arg"), Use("addr"), CHK_RETURN("bind")>>
ml_Sock_close == <<CHK_RETURN("close")>>
ml_Sock_connect == <<REC_SEL("addr", "arg"), Use("addr"), CHK_RETURN("connect")>>
ml_Sock_ctlBROADCAST == util_Sock_ControlFlg
ml_Sock_ctlDEBUG == util_Sock_ControlFlg
ml_Sock_ctlDONTROUTE == util_Sock_ControlFlg
ml_Sock_ctlKEEPALIVE == util_Sock_ControlFlg
ml_Sock_ctlOOBINLINE == util_Sock_ControlFlg
ml_Sock_ctlREUSEADDR == util_Sock_ControlFlg
ml_Sock_ctlNODELAY == util_Sock_ControlFlg
ml_Sock_ctlRCVBUF == util_Sock_ControlFlg
ml_Sock_ctlSNDBUF == util_Sock_ControlFlg
ml_Sock_ctlLINGER ==
    <<REC_SEL("ctl", "arg"),
      If(<<Chk("getsockopt")>>,
         <<REC_SEL("ctl", "ctl"), If(<<>>, <<Use("ctl")>>), Chk("setsockopt")>>),
      If(<<Return>>, <<REC_ALLOC("res", {}, 1), ReturnVal("res")>>)>>
ml_Sock_frominetaddr ==
    <<Use("arg"), SockAddr("inAddr"), REC_ALLOC("res", {"inAddr"}, 2), ReturnVal("res")>>
ml_Sock_fromunixaddr == <<Use("arg"), ML_CString("s"), ReturnVal("s")>>
ml_Sock_getATMARK == <<Chk("ioctl"), Return>>
ml_Sock_getERROR == <<Chk("getsockopt"), Return>>
ml_Sock_getNREAD == <<CHK_RETURN("ioctl")>>
ml_Sock_getTYPE == <<Chk("getsockopt"), ML_SysConst("c"), ReturnVal("c")>>
ml_Sock_getaddrfamily == <<Use("arg"), ML_SysConst("c"), ReturnVal("c")>>
ml_Sock_getpeername == <<Chk("getpeername"), SockAddr("res"), ReturnVal("res")>>
ml_Sock_getsockname == <<Chk("getsockname"), SockAddr("addr"), ReturnVal("addr")>>
ml_Sock_inetany == <<SockAddr("res"), ReturnVal("res")>>
ml_Sock_listaddrfamilies == <<ML_SysConstList("l"), ReturnVal("l")>>
ml_Sock_listsocktypes == <<ML_SysConstList("l"), ReturnVal("l")>>
ml_Sock_listen == <<Use("arg"), CHK_RETURN("listen")>>
ml_Sock_recv ==
    <<Use("arg"), ML_AllocRaw("vec"), Use("vec"), Chk("recv"), If(<<Return>>, <<>>),
      Use("vec"), SEQHDR_ALLOC("res", "vec"), ReturnVal("res")>>
ml_Sock_recvbuf == <<REC_SEL("buf", "arg"), Uses({"buf", "arg"}), CHK_RETURN("recv")>>
ml_Sock_recvbuffrom ==
    <<REC_SEL("buf", "arg"), Uses({"buf", "arg"}), Chk("recvfrom"), SockAddr("addr"),
      REC_ALLOC("res", {"addr"}, 2), ReturnVal("res")>>

\* the address is bounded, so that allocating it does not move the data
ml_Sock_recvfrom ==
    <<Use("arg"), ML_AllocRaw("vec"), Use("vec"), Chk("recvfrom"), If(<<Return>>, <<>>),
      SEQHDR_ALLOC("res", "vec"), SockAddr("addr"), REC_ALLOC("res", {"res", "addr"}, 2),
      ReturnVal("res")>>
ml_Sock_sendbuf == <<REC_SEL("buf", "arg"), Uses({"buf", "arg"}), CHK_RETURN("send")>>
ml_Sock_sendbufto ==
    <<REC_SEL("buf", "arg"), REC_SEL("addr", "arg"), Uses({"buf", "addr", "arg"}),
      CHK_RETURN("sendto")>>
ml_Sock_setNBIO == <<Use("arg"), If(<<Chk("fcntl"), Use("arg"), CHK_RETURN("fcntl")>>,
                                    <<CHK_RETURN("ioctl")>>)>>
ml_Sock_shutdown == <<Use("arg"), CHK_RETURN("shutdown")>>
ml_Sock_socket == <<Use("arg"), CHK_RETURN("socket")>>
ml_Sock_socketpair ==
    <<Use("arg"), Chk("socketpair"), REC_ALLOC("res", {}, 2), ReturnVal("res")>>
ml_Sock_toinetaddr ==
    <<REC_SEL("inAddr", "arg"), Uses({"inAddr", "arg"}), SockAddr("res"), ReturnVal("res")>>
ml_Sock_tounixaddr == <<Use("arg"), SockAddr("res"), ReturnVal("res")>>

-----------------------------------------------------------------------------
(***************************************************************************)
(* The network data base: an entry is an option, NONE when the C library   *)
(* has none.                                                               *)
(***************************************************************************)
util_NetDB_mkhostent ==
    <<If(<<Return>>, <<>>), ML_CString("name"), ML_CStringList("aliases"), ML_SysConst("af"),
      ListOf("addrs", 9),
      REC_ALLOC("res", {"name", "aliases", "af", "addrs"}, 4), OPTION_SOME("res", "res"),
      ReturnVal("res")>>
util_NetDB_mknetent ==
    <<If(<<Return>>, <<>>), ML_CString("name"), ML_CStringList("aliases"), ML_SysConst("af"),
      SYSWORD_ALLOC("net"), REC_ALLOC("res", {"name", "aliases", "af", "net"}, 4),
      OPTION_SOME("res", "res"), ReturnVal("res")>>
util_NetDB_mkservent ==
    <<If(<<Return>>, <<>>), ML_CString("name"), ML_CStringList("aliases"), ML_CString("proto"),
      REC_ALLOC("res", {"name", "aliases", "proto"}, 4), OPTION_SOME("res", "res"),
      ReturnVal("res")>>
NamedEntry ==
    <<If(<<Return>>, <<>>), ML_CString("name"), ML_CStringList("aliases"),
      REC_ALLOC("res", {"name", "aliases"}, 3), OPTION_SOME("res", "res"), ReturnVal("res")>>

ml_NetDB_gethostbyaddr == <<Use("arg")>> \o util_NetDB_mkhostent
ml_NetDB_gethostbyname == <<Use("arg")>> \o util_NetDB_mkhostent
ml_NetDB_gethostname == <<Chk("gethostname"), ShortString("s"), ReturnVal("s")>>
ml_NetDB_getnetbyaddr == <<Use("arg")>> \o util_NetDB_mknetent
ml_NetDB_getnetbyname == <<Use("arg")>> \o util_NetDB_mknetent
ml_NetDB_getprotbyname == <<Use("arg")>> \o NamedEntry
ml_NetDB_getprotbynum == NamedEntry
ml_NetDB_getrpcbyname == <<Use("arg")>> \o NamedEntry
ml_NetDB_getrpcbynum == NamedEntry
ml_NetDB_getservbyname ==
    <<REC_SEL("mlServ", "arg"), REC_SEL("mlProto", "arg"), Uses({"mlServ", "mlProto"})>>
        \o util_NetDB_mkservent
ml_NetDB_getservbyport == <<REC_SEL("mlProto", "arg"), Use("mlProto")>> \o util_NetDB_mkservent

-----------------------------------------------------------------------------
\* the table the functions of these libraries are bound from
SocketTable ==
    [ml_Sock_accept |-> ml_Sock_accept, ml_Sock_bind |-> ml_Sock_bind,
     ml_Sock_close |-> ml_Sock_close, ml_Sock_connect |-> ml_Sock_connect,
     ml_Sock_ctlBROADCAST |-> ml_Sock_ctlBROADCAST, ml_Sock_ctlDEBUG |-> ml_Sock_ctlDEBUG,
     ml_Sock_ctlDONTROUTE |-> ml_Sock_ctlDONTROUTE, ml_Sock_ctlKEEPALIVE |-> ml_Sock_ctlKEEPALIVE,
     ml_Sock_ctlOOBINLINE |-> ml_Sock_ctlOOBINLINE, ml_Sock_ctlREUSEADDR |-> ml_Sock_ctlREUSEADDR,
     ml_Sock_ctlNODELAY |-> ml_Sock_ctlNODELAY, ml_Sock_ctlRCVBUF |-> ml_Sock_ctlRCVBUF,
     ml_Sock_ctlSNDBUF |-> ml_Sock_ctlSNDBUF, ml_Sock_ctlLINGER |-> ml_Sock_ctlLINGER,
     ml_Sock_frominetaddr |-> ml_Sock_frominetaddr, ml_Sock_fromunixaddr |-> ml_Sock_fromunixaddr,
     ml_Sock_getATMARK |-> ml_Sock_getATMARK, ml_Sock_getERROR |-> ml_Sock_getERROR,
     ml_Sock_getNREAD |-> ml_Sock_getNREAD, ml_Sock_getTYPE |-> ml_Sock_getTYPE,
     ml_Sock_getaddrfamily |-> ml_Sock_getaddrfamily, ml_Sock_getpeername |-> ml_Sock_getpeername,
     ml_Sock_getsockname |-> ml_Sock_getsockname, ml_Sock_inetany |-> ml_Sock_inetany,
     ml_Sock_listaddrfamilies |-> ml_Sock_listaddrfamilies,
     ml_Sock_listsocktypes |-> ml_Sock_listsocktypes, ml_Sock_listen |-> ml_Sock_listen,
     ml_Sock_recv |-> ml_Sock_recv, ml_Sock_recvbuf |-> ml_Sock_recvbuf,
     ml_Sock_recvbuffrom |-> ml_Sock_recvbuffrom, ml_Sock_recvfrom |-> ml_Sock_recvfrom,
     ml_Sock_sendbuf |-> ml_Sock_sendbuf, ml_Sock_sendbufto |-> ml_Sock_sendbufto,
     ml_Sock_setNBIO |-> ml_Sock_setNBIO, ml_Sock_shutdown |-> ml_Sock_shutdown,
     ml_Sock_socket |-> ml_Sock_socket, ml_Sock_socketpair |-> ml_Sock_socketpair,
     ml_Sock_toinetaddr |-> ml_Sock_toinetaddr, ml_Sock_tounixaddr |-> ml_Sock_tounixaddr,
     ml_NetDB_gethostbyaddr |-> ml_NetDB_gethostbyaddr,
     ml_NetDB_gethostbyname |-> ml_NetDB_gethostbyname,
     ml_NetDB_gethostname |-> ml_NetDB_gethostname,
     ml_NetDB_getnetbyaddr |-> ml_NetDB_getnetbyaddr,
     ml_NetDB_getnetbyname |-> ml_NetDB_getnetbyname,
     ml_NetDB_getprotbyname |-> ml_NetDB_getprotbyname,
     ml_NetDB_getprotbynum |-> ml_NetDB_getprotbynum,
     ml_NetDB_getrpcbyname |-> ml_NetDB_getrpcbyname,
     ml_NetDB_getrpcbynum |-> ml_NetDB_getrpcbynum,
     ml_NetDB_getservbyname |-> ml_NetDB_getservbyname,
     ml_NetDB_getservbyport |-> ml_NetDB_getservbyport]

=============================================================================
