------------------------------ MODULE Win32Funs ------------------------------
(***************************************************************************)
(* The C functions of the Windows libraries (c-libs/win32, win32-filesys,  *)
(* win32-io and win32-process), as programs of CFun.  errno stands for     *)
(* GetLastError(); an open handle is a block, given back by CloseHandle.   *)
(***************************************************************************)
EXTENDS CFun

HANDLE_CtoML(v) == SYSWORD_ALLOC(v)
WORD32_CtoML(v) == SYSWORD_ALLOC(v)
Handle == <<REC_SEL("h", "arg"), Use("h")>>
Found(v) == <<OPTION_SOME("res", v), ReturnVal("res")>>
AsWord == <<WORD32_CtoML("res"), ReturnVal("res")>>
AsHandle == <<HANDLE_CtoML("res"), ReturnVal("res")>>

\* a path of at most MAX_PATH characters, copied to a new string
CopyPath(v) == Alt(<<<<Small("vec", 34, {}), Use("vec"), SEQHDR_ALLOC(v, "vec")>>>>)

\* the result is a Boolean: the error is not raised
Try(c) == <<Sys(c, <<Return>>, <<Return>>)>>

(* win32 *)
nv_lookup == <<Use("name")>>
ml_win32_CONFIG_get_version_ex ==
    <<Chk("GetVersionEx"), WORD32_CtoML("major"), WORD32_CtoML("minor"), WORD32_CtoML("build"),
      WORD32_CtoML("platform"), CopyPath("csd"),
      REC_ALLOC("res", {"major", "minor", "build", "platform", "csd"}, 5), ReturnVal("res")>>
ml_win32_CONFIG_get_volume_information ==
    <<Use("arg"), Chk("GetVolumeInformation"), SYSWORD_ALLOC("serial"), CopyPath("volume"),
      CopyPath("system"), REC_ALLOC("res", {"volume", "system", "serial"}, 4), ReturnVal("res")>>
ml_win32_CONFIG_get_windows_directory ==
    <<Chk("GetWindowsDirectory"), CopyPath("res"), ReturnVal("res")>>
ml_win32_CONFIG_get_system_directory ==
    <<Chk("GetSystemDirectory"), CopyPath("res"), ReturnVal("res")>>
ml_win32_CONFIG_get_computer_name == <<Chk("GetComputerName"), CopyPath("res"), ReturnVal("res")>>
ml_win32_CONFIG_get_user_name == <<Chk("GetUserName"), CopyPath("res"), ReturnVal("res")>>
ml_win32_get_const ==
    <<REC_SEL("name", "arg"), REC_SEL("s2", "arg")>> \o nv_lookup
    \o <<If(<<>>, <<RAISE_ERROR>>), Use("s2"), If(<<>>, <<RAISE_ERROR>>)>> \o AsWord
ml_win32_get_last_error == AsWord

\* the two string handles are freed whether or not there is a conversation
ml_win32_DDE_start_dialog ==
    <<REC_SEL("service", "arg"), REC_SEL("topic", "arg"), Use("service"), Acquire("hszService"),
      Use("topic"), Acquire("hszTopic"), FREE("hszService"), FREE("hszTopic")>> \o AsHandle
\* the error of the transaction is the one of DdeGetLastError, not the one raised
ml_win32_DDE_execute_string ==
    <<REC_SEL("command", "arg"), Uses({"arg", "command"}), Loop(2, <<Use("command")>>),
      If(<<Return>>, <<RAISE_SYSERR("DdeClientTransaction")>>)>>
ml_win32_DDE_stop_dialog == Handle \o <<Return>>

(* the registry: Reg* functions return the error and leave GetLastError alone *)
Reg(c) == If(<<>>, <<RAISE_SYSERR(c)>>)
OnKey == Handle \o <<REC_SEL("name", "arg"), Use("name")>>
ml_win32_REG_open_key_ex == OnKey \o <<Reg("RegOpenKeyEx")>> \o AsHandle
ml_win32_REG_create_key_ex ==
    OnKey \o <<Reg("RegCreateKeyEx"), Acquire("target"), FREE("target")>> \o AsWord
ml_win32_REG_close_key_ex == <<Use("arg"), Reg("RegCloseKey"), Return>>
ml_win32_REG_delete_key == OnKey \o <<Reg("RegDeleteKey"), Return>>
ml_win32_REG_delete_value == OnKey \o <<Reg("RegDeleteValue"), Return>>
ml_win32_REG_enum_key_ex ==
    Handle \o <<Small("vec", 33, {}), Use("vec"), If(<<Return>>, <<Reg("RegEnumKeyEx")>>),
                SEQHDR_ALLOC("obj", "vec")>> \o Found("obj")
ml_win32_REG_enum_value_ex ==
    Handle \o <<Reg("RegQueryInfoKey"), ML_AllocRaw("vec"), Use("vec"),
                If(<<Return>>, <<Reg("RegEnumValue")>>), SEQHDR_ALLOC("obj", "vec")>> \o Found("obj")
ml_win32_REG_query_value_type == OnKey \o <<Reg("RegQueryValueEx")>> \o AsWord
\* the value is read into a vector whose allocation may move the name
ml_win32_REG_QueryString ==
    OnKey \o <<Reg("RegQueryValueEx"), ML_AllocRaw("vec"), Uses({"name", "vec"}),
               Reg("RegQueryValueEx"), SEQHDR_ALLOC("res", "vec"), ReturnVal("res")>>
ml_win32_REG_query_value_string == ml_win32_REG_QueryString
ml_win32_REG_query_value_multi_string ==
    OnKey \o <<Reg("RegQueryValueEx"), MALLOC("concatenated", <<>>), Use("name"),
               Reg("RegQueryValueEx"), Const("res"),
               Loop(2, <<ML_AllocRaw("vec"), Use("vec"), SEQHDR_ALLOC("str", "vec"),
                         LIST_cons("res", "str")>>),
               FREE("concatenated"), ReturnVal("res")>>
ml_win32_REG_query_value_expand_string == ml_win32_REG_QueryString
ml_win32_REG_query_value_dword == OnKey \o <<Reg("RegQueryValueEx")>> \o AsWord
ml_win32_REG_query_value_binary ==
    OnKey \o <<Reg("RegQueryValueEx"), ML_AllocString("vec"), Uses({"name", "vec"}),
               Reg("RegQueryValueEx"), ReturnVal("vec")>>
ml_win32_REG_set_value_dword == OnKey \o <<REC_SEL("val", "arg"), Use("val"), Reg("RegSetValueEx"), Return>>
ml_win32_REG_SetStringValue ==
    OnKey \o <<REC_SEL("val", "arg"), Use("val"), Reg("RegSetValueEx"), Return>>
ml_win32_REG_set_value_string == ml_win32_REG_SetStringValue
ml_win32_REG_set_value_expand_string == ml_win32_REG_SetStringValue
ml_win32_REG_set_value_multi_string ==
    OnKey \o <<REC_SEL("stringList", "arg"), REC_SEL("iter", "arg"),
               Loop(2, <<Use("iter"), REC_SEL("iter", "iter")>>), MALLOC("concatenated", <<>>),
               REC_SEL("iter", "stringList"), Loop(2, <<Use("iter"), REC_SEL("iter", "iter")>>),
               FREE("concatenated"), Reg("RegSetValueEx"), Return>>
ml_win32_REG_set_value_binary == ml_win32_REG_SetStringValue

-----------------------------------------------------------------------------
(* win32-filesys *)
\* skips . and ..; the end of the directory is NONE, and so is an error
find_next_file ==
    <<Loop(2, <<>>), Sys("FindNextFile", <<CopyPath("fname"), OPTION_SOME("fname_opt", "fname")>>,
                         <<Const("fname_opt")>>)>>
ml_win32_FS_find_next_file == <<Use("arg")>> \o find_next_file \o <<ReturnVal("fname_opt")>>
ml_win32_FS_find_first_file ==
    <<Use("arg"),
      Sys("FindFirstFile",
          <<Alt(<<find_next_file, <<CopyPath("fname"), OPTION_SOME("fname_opt", "fname")>>>>)>>,
          <<Const("fname_opt")>>),
      HANDLE_CtoML("ml_h"), REC_ALLOC("res", {"ml_h", "fname_opt"}, 2), ReturnVal("res")>>
ml_win32_FS_find_close == <<Use("arg")>> \o Try("FindClose")
ml_win32_FS_set_current_directory == <<Use("arg")>> \o Try("SetCurrentDirectory")
\* a path that does not fit raises the last error too
ml_win32_FS_get_current_directory ==
    <<Chk("GetCurrentDirectory"), If(<<RAISE_SYSERR("GetCurrentDirectory")>>, <<>>), CopyPath("s"),
      ReturnVal("s")>>
ml_win32_FS_create_directory == <<Use("arg")>> \o Try("CreateDirectory")
ml_win32_FS_remove_directory == <<Use("arg")>> \o Try("RemoveDirectory")
ml_win32_FS_get_file_attributes ==
    <<Use("arg"), Sys("GetFileAttributes", <<WORD32_CtoML("ml_w")>> \o Found("ml_w"), <<Return>>)>>
ml_win32_FS_get_file_attributes_by_handle ==
    <<Use("arg"), Sys("GetFileInformationByHandle", <<WORD32_CtoML("ml_w")>> \o Found("ml_w"),
                      <<Return>>)>>
ml_win32_FS_get_full_path_name ==
    <<Use("arg"), Chk("GetFullPathName"), If(<<RAISE_SYSERR("GetFullPathName")>>, <<>>),
      CopyPath("res"), ReturnVal("res")>>
ml_win32_FS_get_file_size == <<Use("arg"), Chk("GetFileSizeEx"), SYSWORD_ALLOC("sz"), ReturnVal("sz")>>
ml_win32_FS_get_file_size_by_name ==
    <<Use("arg"),
      Sys("CreateFile",
          <<Acquire("h"), Const("res"),
            Sys("GetFileSizeEx", <<SYSWORD_ALLOC("ml_sz"), OPTION_SOME("res", "ml_sz")>>, <<>>),
            FREE("h"), ReturnVal("res")>>,
          <<Return>>)>>
\* res is not set when GetFileTime fails
ml_win32_FS_get_file_time ==
    <<Use("arg"),
      Sys("CreateFile",
          <<Acquire("h"), Uninit("res"),
            Sys("GetFileTime", <<SYSWORD_ALLOC("ml_ns"), OPTION_SOME("res", "ml_ns")>>, <<>>),
            FREE("h"), ReturnVal("res")>>,
          <<Return>>)>>
ml_win32_FS_set_file_time ==
    <<REC_SEL("fname", "arg"), REC_SEL("ns", "arg"), Uses({"ns", "fname"}),
      Sys("CreateFile", <<Acquire("h"), Sys("SetFileTime", <<>>, <<>>), FREE("h"), Return>>, <<Return>>)>>
ml_win32_FS_delete_file == <<Use("arg")>> \o Try("DeleteFile")
ml_win32_FS_move_file == <<REC_SEL("f1", "arg"), REC_SEL("f2", "arg"), Uses({"f1", "f2"})>> \o Try("MoveFile")
ml_win32_FS_get_temp_file_name ==
    <<If(<<Return>>, <<Sys("GetTempFileName", <<CopyPath("tfn")>> \o Found("tfn"), <<Return>>)>>)>>

-----------------------------------------------------------------------------
(* win32-io *)
ml_win32_IO_get_std_handle == <<Use("arg")>> \o AsHandle
ml_win32_IO_close == <<Use("arg"), CHK_RETURN("CloseHandle")>>
ml_win32_IO_set_file_pointer ==
    Handle \o <<REC_SEL("how", "arg"), REC_SEL("dist", "arg"), Uses({"how", "dist"}),
                Chk("SetFilePointerEx"), SYSWORD_ALLOC("pos"), ReturnVal("pos")>>
ml_win32_IO_read_vec ==
    Handle \o <<ML_AllocRaw("vec"), Use("vec"), Chk("ReadFile"), If(<<Return>>, <<>>), Use("vec"),
                SEQHDR_ALLOC("res", "vec"), ReturnVal("res")>>

\* translations of the text in place
rm_CRs(b) == Use(b)
CRLF_EOFscan(b) == Use(b)
append_cntrl_c(b) == Use(b)
check_cntrl_c(b) == If(<<append_cntrl_c(b)>>, <<>>)

\* a broken pipe on stdin is the end of the file
BrokenPipe(c) == <<If(<<Return>>, <<RAISE_SYSERR(c)>>)>>
ReadText(b, eof) ==
    <<Alt(<<<<Use(b), Sys("ReadConsole", <<check_cntrl_c(b)>>, BrokenPipe("ReadConsole")),
              CRLF_EOFscan(b)>>,
            <<Use(b), Sys("ReadFile", <<>>, BrokenPipe("ReadFile")), rm_CRs(b)>>>>),
      If(eof, <<>>)>>
ml_win32_IO_read_vec_txt ==
    Handle \o <<ML_AllocRaw("vec")>> \o ReadText("vec", <<Return>>)
    \o <<Use("vec"), SEQHDR_ALLOC("res", "vec"), ReturnVal("res")>>
Buffer == Handle \o <<REC_SEL("buf", "arg"), Uses({"buf", "arg"})>>
ml_win32_IO_read_arr == Buffer \o <<CHK_RETURN("ReadFile")>>
ml_win32_IO_read_arr_txt == Buffer \o ReadText("buf", <<>>) \o <<Return>>
\* the handle is returned also when it is invalid
ml_win32_IO_create_file ==
    <<REC_SEL("fname", "arg"), Uses({"arg", "fname"}), Sys("CreateFile", <<>>, <<>>)>> \o AsHandle
ml_win32_IO_write_buf == Buffer \o <<Loop(2, <<Use("buf"), Chk("WriteFile")>>), Return>>
ml_win32_IO_write_vec == ml_win32_IO_write_buf
ml_win32_IO_write_arr == ml_win32_IO_write_buf
ml_win32_IO_write_vec_txt == ml_win32_IO_write_buf
ml_win32_IO_write_arr_txt == ml_win32_IO_write_buf

\* the handles that are ready, then the sockets
Walk(l, p) == <<REC_SEL("l", l), Loop(2, <<REC_SEL("item", "l"), Use("item")>> \o p \o <<REC_SEL("l", "l")>>)>>
ml_win32_OS_poll ==
    <<REC_SEL("pollList", "arg"), REC_SEL("pollSockList", "arg"), REC_SEL("timeout", "arg"),
      Use("timeout"), MALLOC("hArray", <<>>)>>
    \o Walk("pollList", <<>>)
    \o <<Const("hList"),
         Alt(<<<<>>, Walk("pollList", <<If(<<>>, <<LIST_cons("hList", "item")>>)>>)>>),
         FREE("hArray")>>
    \o Walk("pollSockList", <<>>)
    \o <<Const("sList"),
         If(<<>>, <<Chk("select"), MALLOC("resVec", <<>>)>>
                  \o Walk("pollSockList", <<REC_ALLOC("item", {}, 2)>>)
                  \o <<Loop(2, <<LIST_cons("sList", "item")>>), FREE("resVec")>>),
         REC_ALLOC("resTuple", {"hList", "sList"}, 2), ReturnVal("resTuple")>>

-----------------------------------------------------------------------------
(* win32-process *)
ml_win32_PS_create_process_internal(fail) ==
    <<Use("arg"), Sys("CreateProcess", <<Acquire("hThread"), FREE("hThread"), HANDLE_CtoML("res")>>, fail)>>
ml_win32_PS_create_process ==
    ml_win32_PS_create_process_internal(<<RAISE_SYSERR("CreateProcess")>>) \o <<ReturnVal("res")>>
\* the child's ends of the pipes are not closed, and nothing is when a step fails; the
\* exception of the last step is put in the record that is returned
ml_win32_PS_create_process_redirect_handles ==
    LET Result(h) == <<HANDLE_CtoML("in"), HANDLE_CtoML("out"),
                       REC_ALLOC("triple", {h, "in", "out"}, 3), ReturnVal("triple")>> IN
    <<Chk("CreatePipe"), Acquire("hStdoutWr"), Chk("CreatePipe"), Acquire("hStdinRd")>>
    \o ml_win32_PS_create_process_internal(<<RaiseThen("CreateProcess", Result("exn"))>>)
    \o Result("res")
ml_win32_PS_wait_for_single_object ==
    <<Use("arg"), If(<<Return>>, <<WORD32_CtoML("p")>> \o Found("p"))>>
ml_win32_PS_system ==
    <<Use("arg"), MALLOC("quoted", <<Exit>>), Use("arg"), FREE("quoted")>> \o AsWord
ml_win32_PS_exit_process == <<Use("arg"), Exit>>
\* a value that does not fit raises the last error
ml_win32_PS_get_environment_variable ==
    <<Use("arg"), If(<<RAISE_SYSERR("GetEnvironmentVariable")>>, <<>>),
      If(<<Return>>, <<ML_CString("ml_s")>> \o Found("ml_s"))>>
ml_win32_PS_sleep == <<Use("arg"), Return>>
ml_win32_PS_find_executable ==
    <<Use("arg"), If(<<Return>>, <<CopyPath("obj")>> \o Found("obj"))>>
ml_win32_PS_launch_application ==
    <<REC_SEL("fileName", "arg"), REC_SEL("argument", "arg"), Uses({"fileName", "argument"}),
      CHK_RETURN("ShellExecute")>>
ml_win32_PS_open_document == <<Use("arg"), CHK_RETURN("ShellExecute")>>

-----------------------------------------------------------------------------
\* the table the functions of these libraries are bound from
Win32Table ==
    [ml_win32_CONFIG_get_version_ex |-> ml_win32_CONFIG_get_version_ex,
     ml_win32_CONFIG_get_volume_information |-> ml_win32_CONFIG_get_volume_information,
     ml_win32_CONFIG_get_windows_directory |-> ml_win32_CONFIG_get_windows_directory,
     ml_win32_CONFIG_get_system_directory |-> ml_win32_CONFIG_get_system_directory,
     ml_win32_CONFIG_get_computer_name |-> ml_win32_CONFIG_get_computer_name,
     ml_win32_CONFIG_get_user_name |-> ml_win32_CONFIG_get_user_name,
     ml_win32_get_const |-> ml_win32_get_const,
     ml_win32_get_last_error |-> ml_win32_get_last_error,
     ml_win32_DDE_start_dialog |-> ml_win32_DDE_start_dialog,
     ml_win32_DDE_execute_string |-> ml_win32_DDE_execute_string,
     ml_win32_DDE_stop_dialog |-> ml_win32_DDE_stop_dialog,
     ml_win32_REG_open_key_ex |-> ml_win32_REG_open_key_ex,
     ml_win32_REG_create_key_ex |-> ml_win32_REG_create_key_ex,
     ml_win32_REG_close_key_ex |-> ml_win32_REG_close_key_ex,
     ml_win32_REG_delete_key |-> ml_win32_REG_delete_key,
     ml_win32_REG_delete_value |-> ml_win32_REG_delete_value,
     ml_win32_REG_enum_key_ex |-> ml_win32_REG_enum_key_ex,
     ml_win32_REG_enum_value_ex |-> ml_win32_REG_enum_value_ex,
     ml_win32_REG_query_value_type |-> ml_win32_REG_query_value_type,
     ml_win32_REG_query_value_string |-> ml_win32_REG_query_value_string,
     ml_win32_REG_query_value_multi_string |-> ml_win32_REG_query_value_multi_string,
     ml_win32_REG_query_value_expand_string |-> ml_win32_REG_query_value_expand_string,
     ml_win32_REG_query_value_dword |-> ml_win32_REG_query_value_dword,
     ml_win32_REG_query_value_binary |-> ml_win32_REG_query_value_binary,
     ml_win32_REG_set_value_dword |-> ml_win32_REG_set_value_dword,
     ml_win32_REG_set_value_string |-> ml_win32_REG_set_value_string,
     ml_win32_REG_set_value_expand_string |-> ml_win32_REG_set_value_expand_string,
     ml_win32_REG_set_value_multi_string |-> ml_win32_REG_set_value_multi_string,
     ml_win32_REG_set_value_binary |-> ml_win32_REG_set_value_binary,
     ml_win32_FS_find_next_file |-> ml_win32_FS_find_next_file,
     ml_win32_FS_find_first_file |-> ml_win32_FS_find_first_file,
     ml_win32_FS_find_close |-> ml_win32_FS_find_close,
     ml_win32_FS_set_current_directory |-> ml_win32_FS_set_current_directory,
     ml_win32_FS_get_current_directory |-> ml_win32_FS_get_current_directory,
     ml_win32_FS_create_directory |-> ml_win32_FS_create_directory,
     ml_win32_FS_remove_directory |-> ml_win32_FS_remove_directory,
     ml_win32_FS_get_file_attributes |-> ml_win32_FS_get_file_attributes,
     ml_win32_FS_get_file_attributes_by_handle |-> ml_win32_FS_get_file_attributes_by_handle,
     ml_win32_FS_get_full_path_name |-> ml_win32_FS_get_full_path_name,
     ml_win32_FS_get_file_size |-> ml_win32_FS_get_file_size,
     ml_win32_FS_get_file_size_by_name |-> ml_win32_FS_get_file_size_by_name,
     ml_win32_FS_get_file_time |-> ml_win32_FS_get_file_time,
     ml_win32_FS_set_file_time |-> ml_win32_FS_set_file_time,
     ml_win32_FS_delete_file |-> ml_win32_FS_delete_file,
     ml_win32_FS_move_file |-> ml_win32_FS_move_file,
     ml_win32_FS_get_temp_file_name |-> ml_win32_FS_get_temp_file_name,
     ml_win32_IO_get_std_handle |-> ml_win32_IO_get_std_handle,
     ml_win32_IO_close |-> ml_win32_IO_close,
     ml_win32_IO_set_file_pointer |-> ml_win32_IO_set_file_pointer,
     ml_win32_IO_read_vec |-> ml_win32_IO_read_vec,
     ml_win32_IO_read_vec_txt |-> ml_win32_IO_read_vec_txt,
     ml_win32_IO_read_arr |-> ml_win32_IO_read_arr,
     ml_win32_IO_read_arr_txt |-> ml_win32_IO_read_arr_txt,
     ml_win32_IO_create_file |-> ml_win32_IO_create_file,
     ml_win32_IO_write_buf |-> ml_win32_IO_write_buf,
     ml_win32_IO_write_vec |-> ml_win32_IO_write_vec,
     ml_win32_IO_write_arr |-> ml_win32_IO_write_arr,
     ml_win32_IO_write_vec_txt |-> ml_win32_IO_write_vec_txt,
     ml_win32_IO_write_arr_txt |-> ml_win32_IO_write_arr_txt,
     ml_win32_OS_poll |-> ml_win32_OS_poll,
     ml_win32_PS_create_process |-> ml_win32_PS_create_process,
     ml_win32_PS_create_process_redirect_handles |-> ml_win32_PS_create_process_redirect_handles,
     ml_win32_PS_wait_for_single_object |-> ml_win32_PS_wait_for_single_object,
     ml_win32_PS_system |-> ml_win32_PS_system,
     ml_win32_PS_exit_process |-> ml_win32_PS_exit_process,
     ml_win32_PS_get_environment_variable |-> ml_win32_PS_get_environment_variable,
     ml_win32_PS_sleep |-> ml_win32_PS_sleep,
     ml_win32_PS_find_executable |-> ml_win32_PS_find_executable,
     ml_win32_PS_launch_application |-> ml_win32_PS_launch_application,
     ml_win32_PS_open_document |-> ml_win32_PS_open_document]

=============================================================================
