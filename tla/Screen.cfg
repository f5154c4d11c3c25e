SPECIFICATION MCSpec
CONSTANTS
  HPIXELS = 799
  VLINES = 524
  HDISPLAY = 640
  VDISPLAY = 480
  HSYNC = 656
  HSYNCEND = 752
  VSYNC = 490
  Columns = {0, 15, 16, 17, 18, 19, 20, 21, 22, 29, 30, 31, 32, 33, 42, 43, 44, 45, 48, 49, 367, 368, 369, 370, 371, 372, 373, 374, 383, 384, 394, 395, 396, 397, 399, 400, 401, 409, 410, 415, 416, 799}
  Lines = {0, 10, 11, 12, 13, 14, 15, 16, 17, 18, 19, 20, 21, 22, 23, 29, 30, 31, 32, 33, 41, 42, 43, 46, 47, 48, 49, 50, 51, 367, 368, 369, 372, 373, 374, 375, 383, 384, 393, 394, 395, 396, 397, 398, 399, 400, 401, 409, 410, 415, 416, 524}
  Places = {32, 384}
  Levels = {1, 2}
INVARIANTS SyncOutsidePicture WallsOfTheLevel  DotsInTheirCells
