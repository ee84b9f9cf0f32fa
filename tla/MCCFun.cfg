SPECIFICATION Spec
CONSTANTS
    Funs <- AllFuns
    KnownStale = {"ml_NetDB_gethostbyaddr", "ml_NetDB_gethostbyname", "ml_NetDB_getnetbyaddr",
        "ml_NetDB_getnetbyname", "ml_NetDB_getprotbyname", "ml_NetDB_getprotbynum",
        "ml_NetDB_getrpcbyname", "ml_NetDB_getrpcbynum", "ml_NetDB_getservbyname",
        "ml_NetDB_getservbyport", "ml_P_ProcEnv_environ", "ml_P_Process_exec",
        "ml_P_Process_exece", "ml_P_Process_execp", "ml_P_SysDB_getgrgid", "ml_P_SysDB_getgrnam",
        "ml_P_SysDB_getpwnam", "ml_P_SysDB_getpwuid", "ml_Proc_argv", "ml_Proc_raw_argv",
        "ml_c_call", "ml_datumCtoML", "ml_CodeGen_generate", "LoadBinFile_CFGP", "ml_win32_FS_get_file_time",
        "ml_win32_REG_query_value_binary", "ml_win32_REG_query_value_expand_string",
        "ml_win32_REG_query_value_multi_string", "ml_win32_REG_query_value_string"}
    KnownErrno = {"ml_P_SysDB_getgrgid", "ml_P_SysDB_getgrnam", "ml_P_SysDB_getpwnam",
        "ml_P_SysDB_getpwuid", "ml_win32_DDE_execute_string",
        "ml_win32_FS_get_current_directory", "ml_win32_FS_get_full_path_name",
        "ml_win32_PS_get_environment_variable", "ml_win32_REG_close_key_ex",
        "ml_win32_REG_create_key_ex", "ml_win32_REG_delete_key", "ml_win32_REG_delete_value",
        "ml_win32_REG_enum_key_ex", "ml_win32_REG_enum_value_ex", "ml_win32_REG_open_key_ex",
        "ml_win32_REG_query_value_binary", "ml_win32_REG_query_value_dword",
        "ml_win32_REG_query_value_expand_string", "ml_win32_REG_query_value_multi_string",
        "ml_win32_REG_query_value_string", "ml_win32_REG_query_value_type",
        "ml_win32_REG_set_value_binary", "ml_win32_REG_set_value_dword",
        "ml_win32_REG_set_value_expand_string", "ml_win32_REG_set_value_multi_string",
        "ml_win32_REG_set_value_string"}
    KnownLeak = {"ml_OS_poll", "ml_P_FileSys_readlink",
        "ml_win32_PS_create_process_redirect_handles", "ml_win32_REG_query_value_multi_string"}
    KnownReserve = {"ml_NetDB_gethostbyaddr", "ml_NetDB_gethostbyname", "ml_NetDB_getnetbyaddr",
        "ml_NetDB_getnetbyname", "ml_NetDB_getprotbyname", "ml_NetDB_getprotbynum",
        "ml_NetDB_getrpcbyname", "ml_NetDB_getrpcbynum", "ml_NetDB_getservbyname",
        "ml_NetDB_getservbyport", "ml_P_ProcEnv_environ", "ml_P_ProcEnv_getgroups",
        "ml_P_SysDB_getgrgid", "ml_P_SysDB_getgrnam", "ml_Proc_argv", "ml_Proc_raw_argv", "main"}
INVARIANTS NoStaleUse ErrnoExact NoLeak FitsReserve
