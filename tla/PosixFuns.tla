------------------------------ MODULE PosixFuns ------------------------------
(***************************************************************************)
(* The C functions of the POSIX libraries (c-libs/posix-io, ..), as programs of *)
(* CFun.  A call of the system is named after the C function; an integer   *)
(* argument needs no instruction, a field of the argument record a use of  *)
(* it, and a string a use of the pointer to it.                            *)
(***************************************************************************)
EXTENDS CFun

\* osval: a system constant by its name, in a sorted table
osval == <<Use("arg"), If(<<Return>>, <<RAISE_ERROR>>)>>

-----------------------------------------------------------------------------
(* posix-io *)
ml_P_IO_close == <<CHK_RETURN("close")>>
ml_P_IO_dup == <<CHK_RETURN("dup")>>
ml_P_IO_dup2 == <<Use("arg"), CHK_RETURN("dup2")>>
ml_P_IO_fcntl_d == <<Use("arg"), CHK_RETURN("fcntl")>>
ml_P_IO_fcntl_gfd == <<Chk("fcntl"), SYSWORD_ALLOC("v"), ReturnVal("v")>>
ml_P_IO_fcntl_gfl ==
    <<Chk("fcntl"), SYSWORD_ALLOC("flags"), SYSWORD_ALLOC("mode"),
      REC_ALLOC("obj", {"flags", "mode"}, 2), ReturnVal("obj")>>
ml_P_IO_fcntl_l ==
    <<REC_SEL("flock_rep", "arg"), REC_SEL("start", "flock_rep"),
      REC_SEL("length", "flock_rep"), Uses({"start", "length"}), Chk("fcntl"),
      SYSWORD_ALLOC("start"), SYSWORD_ALLOC("length"),
      REC_ALLOC("obj", {"start", "length"}, 5), ReturnVal("obj")>>
ml_P_IO_fcntl_sfd == <<REC_SEL("ml_flag", "arg"), Use("ml_flag"), CHK_RETURN("fcntl")>>
ml_P_IO_fcntl_sfl == ml_P_IO_fcntl_sfd
ml_P_IO_fsync == <<CHK_RETURN("fsync")>>
ml_P_IO_lseek ==
    <<REC_SEL("box_offset", "arg"), Use("box_offset"), Chk("lseek"),
      SYSWORD_ALLOC("box_pos"), ReturnVal("box_pos")>>
ml_P_IO_osval == osval
ml_P_IO_pipe == <<Chk("pipe"), REC_ALLOC("obj", {}, 2), ReturnVal("obj")>>

\* Mutant: the argument is read after the vector is allocated.
ReadLate ==
    <<If(<<Return>>, <<>>), ML_AllocRaw("vec"), Uses({"arg", "vec"}), Chk("read"),
      If(<<Return>>, <<SEQHDR_ALLOC("res", "vec"), ReturnVal("res")>>)>>

\* the vector is allocated before the read, and shrunk in place after it
ml_P_IO_read ==
    <<Use("arg"), If(<<Return>>, <<>>), ML_AllocRaw("vec"), Use("vec"), Chk("read"),
      If(<<Return>>, <<SEQHDR_ALLOC("res", "vec"), ReturnVal("res")>>)>>
ml_P_IO_readbuf == <<REC_SEL("buf", "arg"), Use("buf"), CHK_RETURN("read")>>
ml_P_IO_write == <<REC_SEL("data", "arg"), Use("data"), CHK_RETURN("write")>>
ml_P_IO_writebuf == ml_P_IO_write

(* posix-error *)
ml_P_Error_errmsg == <<ML_CString("s"), ReturnVal("s")>>
ml_P_Error_geterror == <<ML_SysConst("c"), ReturnVal("c")>>
ml_P_Error_listerrors == <<ML_SysConstList("l"), ReturnVal("l")>>

(* posix-tty *)
ml_P_TTY_getwinsz ==
    <<Sys("ioctl", <<REC_ALLOC("sz", {}, 2), OPTION_SOME("result", "sz"), ReturnVal("result")>>,
          <<Return>>)>>
ml_P_TTY_osval == osval
ml_P_TTY_tcdrain == <<CHK_RETURN("tcdrain")>>
ml_P_TTY_tcflow == <<Use("arg"), CHK_RETURN("tcflow")>>
ml_P_TTY_tcflush == <<Use("arg"), CHK_RETURN("tcflush")>>
ml_P_TTY_tcgetattr ==
    <<Chk("tcgetattr"), ShortString("cc"), Use("cc"),
      SYSWORD_ALLOC("iflag"), SYSWORD_ALLOC("oflag"), SYSWORD_ALLOC("cflag"),
      SYSWORD_ALLOC("lflag"), SYSWORD_ALLOC("ispeed"), SYSWORD_ALLOC("ospeed"),
      REC_ALLOC("obj", {"iflag", "oflag", "cflag", "lflag", "cc", "ispeed", "ospeed"}, 7),
      ReturnVal("obj")>>
ml_P_TTY_tcgetpgrp == <<Sys("tcgetpgrp", <<Return>>, <<Return>>)>>
ml_P_TTY_tcsendbreak == <<Use("arg"), CHK_RETURN("tcsendbreak")>>
ml_P_TTY_tcsetattr ==
    <<REC_SEL("termio_rep", "arg"), REC_SEL("tmp", "termio_rep"), Use("tmp"),
      Chk("cfsetispeed"), REC_SEL("tmp", "termio_rep"), Use("tmp"), Chk("cfsetospeed"),
      CHK_RETURN("tcsetattr")>>
ml_P_TTY_tcsetpgrp == <<Use("arg"), CHK_RETURN("tcsetpgrp")>>

(* posix-signal *)
ml_P_Signal_osval == osval

-----------------------------------------------------------------------------
(* posix-filesys *)
OnPath(c) == <<REC_SEL("path", "arg"), Use("path"), CHK_RETURN(c)>>
OnTwoPaths(c) ==
    <<REC_SEL("existing", "arg"), REC_SEL("newname", "arg"), Uses({"existing", "newname"}),
      CHK_RETURN(c)>>
OnPathAndMode(c) ==
    <<REC_SEL("path", "arg"), REC_SEL("ml_mode", "arg"), Uses({"path", "ml_mode"}), CHK_RETURN(c)>>

ml_P_FileSys_access ==
    <<REC_SEL("path", "arg"), REC_SEL("ml_mode", "arg"), Uses({"path", "ml_mode"}),
      Sys("access", <<Return>>, <<Return>>)>>
ml_P_FileSys_chdir == <<Use("arg"), CHK_RETURN("chdir")>>
ml_P_FileSys_chmod == OnPath("chmod")
ml_P_FileSys_chown == OnPath("chown")
ml_P_FileSys_closedir == <<CHK_RETURN("closedir")>>
ml_P_FileSys_fchmod == <<REC_SEL("ml_mode", "arg"), Use("ml_mode"), CHK_RETURN("fchmod")>>
ml_P_FileSys_fchown ==
    <<REC_SEL("ml_uid", "arg"), Use("ml_uid"), REC_SEL("ml_gid", "arg"), Use("ml_gid"),
      CHK_RETURN("fchown")>>
ml_P_FileSys_ftruncate ==
    <<REC_SEL("boxed_len", "arg"), Use("boxed_len"), CHK_RETURN("ftruncate")>>

\* Mutant: the buffer that was too small is not freed.
GetcwdLeaks ==
    <<Sys("getcwd", <<ML_CString("p"), ReturnVal("p")>>, <<>>),
      If(<<RAISE_SYSERR("getcwd")>>, <<>>),
      MALLOC("buf", <<RAISE_ERROR>>),
      Loop(2, <<SetErrno("getcwd"), If(<<RAISE_SYSERR("getcwd")>>, <<>>),
                MALLOC("buf", <<RAISE_ERROR>>)>>),
      ML_CString("p"), FREE("buf"), ReturnVal("p")>>

\* a larger buffer as long as the error is ERANGE
ml_P_FileSys_getcwd ==
    <<Sys("getcwd", <<ML_CString("p"), ReturnVal("p")>>, <<>>),
      If(<<RAISE_SYSERR("getcwd")>>, <<>>),
      MALLOC("buf", <<RAISE_ERROR>>),
      Loop(2, <<SetErrno("getcwd"), FREE("buf"), If(<<RAISE_SYSERR("getcwd")>>, <<>>),
                MALLOC("buf", <<RAISE_ERROR>>)>>),
      ML_CString("p"), FREE("buf"), ReturnVal("p")>>
ml_P_FileSys_link == OnTwoPaths("link")
ml_P_FileSys_mkdir == OnPathAndMode("mkdir")
ml_P_FileSys_mkfifo == OnPathAndMode("mkfifo")
ml_P_FileSys_opendir == <<Use("arg"), Chk("opendir"), Return>>
ml_P_FileSys_openf ==
    <<REC_SEL("path", "arg"), REC_SEL("ml_flags", "arg"), Use("ml_flags"),
      REC_SEL("ml_mode", "arg"), Uses({"ml_mode", "path"}), CHK_RETURN("open")>>
ml_P_FileSys_osval == osval

\* a value; or else -1, which without an error means that there is no limit
mkValue(c) ==
    <<If(<<>>, <<Sys(c, <<SYSWORD_ALLOC("p"), OPTION_SOME("obj", "p"), ReturnVal("obj")>>, <<>>)>>),
      IfErrno("zero", <<Return>>, <<RAISE_SYSERR(c)>>)>>

\* Mutant: errno is not cleared before the call.
ConfNoReset(c) ==
    <<If(<<>>, <<SetErrno("EINVAL"), RAISE_SYSERR("EINVAL")>>),
      Loop(1, <<SetErrno(c), SetErrno("zero")>>)>> \o mkValue(c)

\* the name is looked up; the call is repeated while it is interrupted
Conf(c) ==
    <<If(<<>>, <<SetErrno("EINVAL"), RAISE_SYSERR("EINVAL")>>),
      SetErrno("zero"), Loop(1, <<SetErrno(c), SetErrno("zero")>>)>> \o mkValue(c)
ml_P_FileSys_pathconf ==
    <<REC_SEL("mlPathname", "arg"), REC_SEL("mlAttr", "arg"), Uses({"mlPathname", "mlAttr"})>>
        \o Conf("pathconf")
ml_P_FileSys_fpathconf == <<REC_SEL("mlAttr", "arg"), Use("mlAttr")>> \o Conf("fpathconf")

\* skips the entries for . and ..; an end of the stream leaves errno at zero
ml_P_FileSys_readdir ==
    <<Loop(2, <<SetErrno("zero")>>), SetErrno("zero"),
      If(<<>>, <<Sys("readdir", <<ML_CString("s"), ReturnVal("s")>>, <<>>)>>),
      IfErrno("zero", <<Return>>, <<RAISE_SYSERR("readdir")>>)>>

\* nbuf is not freed when the second readlink fails
ml_P_FileSys_readlink ==
    <<REC_SEL("path", "arg"), Use("path"), Chk("readlink"),
      If(<<ML_CString("s"), ReturnVal("s")>>, <<>>),
      Chk("lstat"), MALLOC("nbuf", <<RAISE_ERROR>>), Chk("readlink"),
      If(<<RAISE_ERROR>>, <<>>),
      ML_CString("obj"), FREE("nbuf"), ReturnVal("obj")>>
ml_P_FileSys_rename == OnTwoPaths("rename")
ml_P_FileSys_rewinddir == <<Return>>
ml_P_FileSys_rmdir == <<Use("arg"), CHK_RETURN("rmdir")>>

\* six words, four 64-bit values and the record of eleven
mkStatRep ==
    <<Small("mode", 2, {}), Small("ino", 2, {}), Small("dev", 2, {}), Small("nlink", 2, {}),
      Small("uid", 2, {}), Small("gid", 2, {}), Small("size", 2, {}), Small("atime", 2, {}),
      Small("mtime", 2, {}), Small("ctime", 2, {}),
      REC_ALLOC("sr", {"mode", "ino", "dev", "nlink", "uid", "gid", "size", "atime", "mtime",
                       "ctime"}, 11),
      ReturnVal("sr")>>
ml_P_FileSys_stat == <<Use("arg"), Chk("stat")>> \o mkStatRep
ml_P_FileSys_fstat == <<Chk("fstat")>> \o mkStatRep
ml_P_FileSys_lstat == <<Use("arg"), Chk("lstat")>> \o mkStatRep
ml_P_FileSys_symlink == OnTwoPaths("symlink")
ml_P_FileSys_umask == <<Use("arg"), SYSWORD_ALLOC("p"), ReturnVal("p")>>
ml_P_FileSys_unlink == <<Use("arg"), CHK_RETURN("unlink")>>
ml_P_FileSys_utime ==
    <<REC_SEL("path", "arg"), REC_SEL("actime", "arg"), REC_SEL("modtime", "arg"),
      Uses({"actime", "modtime", "path"}), CHK_RETURN("utimes")>>

-----------------------------------------------------------------------------
(* posix-os *)
EachItem(p) ==
    <<REC_SEL("l", "arg"), Loop(3, <<REC_SEL("item", "l"), Use("item")>> \o p \o <<REC_SEL("l", "l")>>)>>
Assign == <<REC_SEL("flagRef", "item"), Use("flagRef")>>

\* ML_Poll over poll(): fds is not freed when the time is out
ML_Poll_poll ==
    <<MALLOC("fds", <<>>)>> \o EachItem(<<REC_SEL("flagRef", "item"), Use("flagRef")>>)
    \o <<Sys("poll", <<>>, <<FREE("fds"), RAISE_SYSERR("poll")>>), If(<<Return>>, <<>>)>>
    \o EachItem(Assign) \o <<FREE("fds"), Return>>

\* ML_Poll over select()
ML_Poll_select ==
    EachItem(<<REC_SEL("flagRef", "item"), Use("flagRef")>>)
    \o <<Chk("select"), If(<<Return>>, <<>>)>> \o EachItem(Assign) \o <<Return>>
ml_OS_poll ==
    <<REC_SEL("timeout", "arg"), If(<<>>, <<REC_SEL("timeout", "timeout"), Use("timeout")>>),
      Alt(<<ML_Poll_poll, ML_Poll_select>>)>>

\* under TMPDIR if that works, else under P_tmpdir
ml_OS_tmpname ==
    <<If(<<>>, <<Sys("mkstemp", <<Sys("close", <<>>, <<>>), ML_CString("s"), ReturnVal("s")>>, <<>>)>>),
      Chk("mkstemp"), Sys("close", <<>>, <<>>), ML_CString("s"), ReturnVal("s")>>

(* posix-sysdb: an entry that is not found is an error that leaves errno as it was *)
Lookup(c) == Sys(c, <<If(<<>>, <<RAISE_SYSERR(c)>>)>>, <<RAISE_SYSERR(c)>>)
GroupEntry ==
    <<ML_CString("gr_name"), SYSWORD_ALLOC("gr_gid"), ML_CStringList("gr_mem"),
      REC_ALLOC("r", {"gr_name", "gr_gid", "gr_mem"}, 3), ReturnVal("r")>>
PasswdEntry ==
    <<ML_CString("pw_name"), SYSWORD_ALLOC("pw_uid"), SYSWORD_ALLOC("pw_gid"),
      ML_CString("pw_dir"), ML_CString("pw_shell"),
      REC_ALLOC("r", {"pw_name", "pw_uid", "pw_gid", "pw_dir", "pw_shell"}, 5), ReturnVal("r")>>
ml_P_SysDB_getgrgid == <<Use("arg"), Lookup("getgrgid")>> \o GroupEntry
ml_P_SysDB_getgrnam == <<Use("arg"), Lookup("getgrnam")>> \o GroupEntry
ml_P_SysDB_getpwnam == <<Use("arg"), Lookup("getpwnam")>> \o PasswdEntry
ml_P_SysDB_getpwuid == <<Use("arg"), Lookup("getpwuid")>> \o PasswdEntry

-----------------------------------------------------------------------------
(* posix-procenv *)
Id == <<SYSWORD_ALLOC("p"), ReturnVal("p")>>
ml_P_ProcEnv_ctermid == <<If(<<RAISE_ERROR>>, <<>>), ShortString("s"), ReturnVal("s")>>
ml_P_ProcEnv_environ == <<ML_CStringList("l"), ReturnVal("l")>>
ml_P_ProcEnv_getegid == Id
ml_P_ProcEnv_getenv ==
    <<Use("arg"), If(<<Return>>, <<ML_CString("s"), OPTION_SOME("r", "s"), ReturnVal("r")>>)>>
ml_P_ProcEnv_geteuid == Id
ml_P_ProcEnv_getgid == Id

\* the list of the groups is built without a check for space
mkList == <<ListOf("p", 5)>>
ml_P_ProcEnv_getgroups ==
    <<Sys("getgroups", mkList \o <<ReturnVal("p")>>, <<>>),
      If(<<RAISE_SYSERR("getgroups")>>, <<>>), Sys("getgroups", <<>>, <<>>),
      MALLOC("gp", <<SetErrno("ENOMEM"), RAISE_SYSERR("ENOMEM")>>),
      Sys("getgroups", mkList \o <<FREE("gp"), ReturnVal("p")>>,
          <<RaiseThen("getgroups", <<FREE("gp")>>)>>)>>
ml_P_ProcEnv_getlogin == <<If(<<RAISE_ERROR>>, <<>>), ML_CString("s"), ReturnVal("s")>>
ml_P_ProcEnv_getpgrp == <<Return>>
ml_P_ProcEnv_getpid == <<Return>>
ml_P_ProcEnv_getppid == <<Return>>
ml_P_ProcEnv_getuid == Id
ml_P_ProcEnv_isatty == <<Sys("isatty", <<Return>>, <<Return>>)>>
ml_P_ProcEnv_setgid == <<Use("arg"), CHK_RETURN("setgid")>>
ml_P_ProcEnv_setpgid == <<Use("arg"), CHK_RETURN("setpgid")>>
ml_P_ProcEnv_setsid == <<CHK_RETURN("setsid")>>
ml_P_ProcEnv_setuid == <<Use("arg"), CHK_RETURN("setuid")>>
ml_P_ProcEnv_sysconf ==
    <<Use("arg"), If(<<>>, <<SetErrno("EINVAL"), RAISE_SYSERR("EINVAL")>>),
      SetErrno("zero"), Loop(1, <<SetErrno("sysconf"), SetErrno("zero")>>),
      If(<<>>, <<Sys("sysconf", <<SYSWORD_ALLOC("p"), ReturnVal("p")>>, <<>>)>>),
      IfErrno("zero", <<RAISE_ERROR>>, <<RAISE_SYSERR("sysconf")>>)>>
ml_P_ProcEnv_time == <<Return>>
ml_P_ProcEnv_times == <<Chk("times"), REC_ALLOC("v", {}, 5), ReturnVal("v")>>
ml_P_ProcEnv_ttyname == <<If(<<RAISE_ERROR>>, <<>>), ML_CString("s"), ReturnVal("s")>>

\* a field of the utsname structure and its name, in front of the list l
NameField == <<ShortString("field"), ShortString("s"), REC_ALLOC("p", {"field", "s"}, 2),
               LIST_cons("l", "p")>>
ml_P_ProcEnv_uname ==
    <<Chk("uname"), Const("l")>> \o NameField \o NameField \o NameField \o NameField \o NameField
    \o <<ReturnVal("l")>>

-----------------------------------------------------------------------------
(* posix-process *)
\* exec: the vector of the arguments is allocated in the ML heap, and may collect
Exec(c) ==
    <<REC_SEL("path", "arg"), REC_SEL("arglst", "arg"), Use("arglst"), ML_AllocRaw("argv"),
      Loop(2, <<Uses({"arglst", "argv"})>>), Use("path"), CHK_RETURN(c)>>
ml_P_Process_alarm == <<Use("arg"), SYSWORD_ALLOC("t"), ReturnVal("t")>>
ml_P_Process_exec == Exec("execv")
ml_P_Process_exece ==
    <<REC_SEL("path", "arg"), REC_SEL("arglst", "arg"), REC_SEL("envlst", "arg"), Use("arglst"),
      ML_AllocRaw("argv"), Loop(2, <<Uses({"arglst", "argv"})>>),
      Loop(2, <<Uses({"envlst", "argv"})>>), Use("path"), CHK_RETURN("execve")>>
ml_P_Process_execp == Exec("execvp")
ml_P_Process_exit == <<Exit>>
ml_P_Process_fork == <<CHK_RETURN("fork")>>
ml_P_Process_kill == <<Use("arg"), CHK_RETURN("kill")>>
ml_P_Process_osval == osval
ml_P_Process_pause == <<Return>>
ml_P_Process_sleep ==
    <<Use("arg"), Sys("nanosleep", <<>>, <<>>), SYSWORD_ALLOC("t"), ReturnVal("t")>>
ml_P_Process_waitpid ==
    <<REC_SEL("ml_options", "arg"), Use("ml_options"), Chk("waitpid"), If(<<RAISE_ERROR>>, <<>>),
      REC_ALLOC("r", {}, 3), ReturnVal("r")>>

-----------------------------------------------------------------------------
\* the table the functions of these libraries are bound from
PosixTable ==
    [ml_P_IO_close |-> ml_P_IO_close, ml_P_IO_dup |-> ml_P_IO_dup, ml_P_IO_dup2 |-> ml_P_IO_dup2,
     ml_P_IO_fcntl_d |-> ml_P_IO_fcntl_d, ml_P_IO_fcntl_gfd |-> ml_P_IO_fcntl_gfd,
     ml_P_IO_fcntl_gfl |-> ml_P_IO_fcntl_gfl, ml_P_IO_fcntl_l |-> ml_P_IO_fcntl_l,
     ml_P_IO_fcntl_sfd |-> ml_P_IO_fcntl_sfd, ml_P_IO_fcntl_sfl |-> ml_P_IO_fcntl_sfl,
     ml_P_IO_fsync |-> ml_P_IO_fsync, ml_P_IO_lseek |-> ml_P_IO_lseek,
     ml_P_IO_osval |-> ml_P_IO_osval, ml_P_IO_pipe |-> ml_P_IO_pipe,
     ml_P_IO_read |-> ml_P_IO_read, ml_P_IO_readbuf |-> ml_P_IO_readbuf,
     ml_P_IO_write |-> ml_P_IO_write, ml_P_IO_writebuf |-> ml_P_IO_writebuf,
     ml_P_Error_errmsg |-> ml_P_Error_errmsg, ml_P_Error_geterror |-> ml_P_Error_geterror,
     ml_P_Error_listerrors |-> ml_P_Error_listerrors, ml_P_TTY_getwinsz |-> ml_P_TTY_getwinsz,
     ml_P_TTY_osval |-> ml_P_TTY_osval, ml_P_TTY_tcdrain |-> ml_P_TTY_tcdrain,
     ml_P_TTY_tcflow |-> ml_P_TTY_tcflow, ml_P_TTY_tcflush |-> ml_P_TTY_tcflush,
     ml_P_TTY_tcgetattr |-> ml_P_TTY_tcgetattr, ml_P_TTY_tcgetpgrp |-> ml_P_TTY_tcgetpgrp,
     ml_P_TTY_tcsendbreak |-> ml_P_TTY_tcsendbreak, ml_P_TTY_tcsetattr |-> ml_P_TTY_tcsetattr,
     ml_P_TTY_tcsetpgrp |-> ml_P_TTY_tcsetpgrp, ml_P_Signal_osval |-> ml_P_Signal_osval,
     ml_P_FileSys_access |-> ml_P_FileSys_access, ml_P_FileSys_chdir |-> ml_P_FileSys_chdir,
     ml_P_FileSys_chmod |-> ml_P_FileSys_chmod, ml_P_FileSys_chown |-> ml_P_FileSys_chown,
     ml_P_FileSys_closedir |-> ml_P_FileSys_closedir, ml_P_FileSys_fchmod |-> ml_P_FileSys_fchmod,
     ml_P_FileSys_fchown |-> ml_P_FileSys_fchown,
     ml_P_FileSys_ftruncate |-> ml_P_FileSys_ftruncate,
     ml_P_FileSys_getcwd |-> ml_P_FileSys_getcwd, ml_P_FileSys_link |-> ml_P_FileSys_link,
     ml_P_FileSys_mkdir |-> ml_P_FileSys_mkdir, ml_P_FileSys_mkfifo |-> ml_P_FileSys_mkfifo,
     ml_P_FileSys_opendir |-> ml_P_FileSys_opendir, ml_P_FileSys_openf |-> ml_P_FileSys_openf,
     ml_P_FileSys_osval |-> ml_P_FileSys_osval, ml_P_FileSys_pathconf |-> ml_P_FileSys_pathconf,
     ml_P_FileSys_fpathconf |-> ml_P_FileSys_fpathconf,
     ml_P_FileSys_readdir |-> ml_P_FileSys_readdir,
     ml_P_FileSys_readlink |-> ml_P_FileSys_readlink, ml_P_FileSys_rename |-> ml_P_FileSys_rename,
     ml_P_FileSys_rewinddir |-> ml_P_FileSys_rewinddir, ml_P_FileSys_rmdir |-> ml_P_FileSys_rmdir,
     ml_P_FileSys_stat |-> ml_P_FileSys_stat, ml_P_FileSys_fstat |-> ml_P_FileSys_fstat,
     ml_P_FileSys_lstat |-> ml_P_FileSys_lstat, ml_P_FileSys_symlink |-> ml_P_FileSys_symlink,
     ml_P_FileSys_umask |-> ml_P_FileSys_umask, ml_P_FileSys_unlink |-> ml_P_FileSys_unlink,
     ml_P_FileSys_utime |-> ml_P_FileSys_utime, ml_OS_poll |-> ml_OS_poll,
     ml_OS_tmpname |-> ml_OS_tmpname, ml_P_SysDB_getgrgid |-> ml_P_SysDB_getgrgid,
     ml_P_SysDB_getgrnam |-> ml_P_SysDB_getgrnam, ml_P_SysDB_getpwnam |-> ml_P_SysDB_getpwnam,
     ml_P_SysDB_getpwuid |-> ml_P_SysDB_getpwuid, ml_P_ProcEnv_ctermid |-> ml_P_ProcEnv_ctermid,
     ml_P_ProcEnv_environ |-> ml_P_ProcEnv_environ, ml_P_ProcEnv_getegid |-> ml_P_ProcEnv_getegid,
     ml_P_ProcEnv_getenv |-> ml_P_ProcEnv_getenv, ml_P_ProcEnv_geteuid |-> ml_P_ProcEnv_geteuid,
     ml_P_ProcEnv_getgid |-> ml_P_ProcEnv_getgid,
     ml_P_ProcEnv_getgroups |-> ml_P_ProcEnv_getgroups,
     ml_P_ProcEnv_getlogin |-> ml_P_ProcEnv_getlogin,
     ml_P_ProcEnv_getpgrp |-> ml_P_ProcEnv_getpgrp, ml_P_ProcEnv_getpid |-> ml_P_ProcEnv_getpid,
     ml_P_ProcEnv_getppid |-> ml_P_ProcEnv_getppid, ml_P_ProcEnv_getuid |-> ml_P_ProcEnv_getuid,
     ml_P_ProcEnv_isatty |-> ml_P_ProcEnv_isatty, ml_P_ProcEnv_setgid |-> ml_P_ProcEnv_setgid,
     ml_P_ProcEnv_setpgid |-> ml_P_ProcEnv_setpgid, ml_P_ProcEnv_setsid |-> ml_P_ProcEnv_setsid,
     ml_P_ProcEnv_setuid |-> ml_P_ProcEnv_setuid, ml_P_ProcEnv_sysconf |-> ml_P_ProcEnv_sysconf,
     ml_P_ProcEnv_time |-> ml_P_ProcEnv_time, ml_P_ProcEnv_times |-> ml_P_ProcEnv_times,
     ml_P_ProcEnv_ttyname |-> ml_P_ProcEnv_ttyname, ml_P_ProcEnv_uname |-> ml_P_ProcEnv_uname,
     ml_P_Process_alarm |-> ml_P_Process_alarm, ml_P_Process_exec |-> ml_P_Process_exec,
     ml_P_Process_exece |-> ml_P_Process_exece, ml_P_Process_execp |-> ml_P_Process_execp,
     ml_P_Process_exit |-> ml_P_Process_exit, ml_P_Process_fork |-> ml_P_Process_fork,
     ml_P_Process_kill |-> ml_P_Process_kill, ml_P_Process_osval |-> ml_P_Process_osval,
     ml_P_Process_pause |-> ml_P_Process_pause, ml_P_Process_sleep |-> ml_P_Process_sleep,
     ml_P_Process_waitpid |-> ml_P_Process_waitpid]

=============================================================================
