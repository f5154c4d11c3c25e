SPECIFICATION VgaSpec
CONSTANTS
  HPIXELS = 19
  VLINES = 12
  HDISPLAY = 12
  VDISPLAY = 6
  HSYNC = 14
  HSYNCEND = 17
  VSYNC = 9
INVARIANT
  VsyncAtItsLines
