\* One or two presses of the button, answers lost or overtaken.
SPECIFICATION DownloadPageSpec
CONSTANTS
    Tasks = {t1, t2}
    None = None
    MaxPolls = 2
PROPERTY SuccessIsShown
CHECK_DEADLOCK FALSE
